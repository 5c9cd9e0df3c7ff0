------------------------- MODULE OrderedTrieProofs --------------------------
(***************************************************************************)
(* What the calls on a trie return, and what an iteration over its leaves  *)
(* gives: for every alphabet, every input, every label size and every      *)
(* argument.                                                               *)
(***************************************************************************)
EXTENDS OrderedTrie, TrieContentProofs

-----------------------------------------------------------------------------
(* find_sibling.                                                           *)

(* Suggestion k is below a sibling that does not satisfy pred. *)
Skipped(notes, depth, pred, k) ==
  \E b \in DOMAIN notes :
    /\ notes[b].depth = depth
    /\ k \in notes[b].below
    /\ ~pred[NodeAt(notes, b)]

(* Position it has been reached from the sibling at c by skipping nodes. *)
Skips(notes, c, pred, a) ==
  /\ a \in DOMAIN notes
  /\ notes[a].depth = notes[c].depth
  /\ notes[a].on \subseteq notes[c].on
  /\ \A k \in notes[c].on \ notes[a].on : Skipped(notes, notes[c].depth, pred, k)

SkipsAll(notes, c, pred) ==
  \A k \in notes[c].on : Skipped(notes, notes[c].depth, pred, k)

(* Where the search stands after n steps. *)
SearchesAt(notes, c, pred, n, it) ==
  IF AtNode(it)
  THEN \E a : /\ it = PosAt(notes, a)
              /\ Skips(notes, c, pred, a)
              /\ pred[NodeAt(notes, a)] \/ c + n <= a
  ELSE SkipsAll(notes, c, pred)

(* Where it ends. *)
IsResult(notes, c, pred, it) ==
  IF AtNode(it)
  THEN \E a : /\ it = PosAt(notes, a)
              /\ Skips(notes, c, pred, a)
              /\ pred[NodeAt(notes, a)]
  ELSE SkipsAll(notes, c, pred)

(* One step of the search. *)
LEMMA SearchStep ==
  ASSUME NEW in, NEW bytes, NEW notes, IsTrieOf(in, bytes, notes),
         NEW c \in DOMAIN notes, NEW pred,
         NEW a, Skips(notes, c, pred, a), ~pred[NodeAt(notes, a)],
         NEW n \in Nat, c + n <= a
  PROVE  SearchesAt(notes, c, pred, n + 1, NextSibling(bytes, PosAt(notes, a)))
<1> DEFINE next == NextSibling(bytes, PosAt(notes, a))
           b    == a + NodeWidth(bytes[a])
           w    == NodeWidth(bytes[a])
<1>1. /\ a \in DOMAIN notes /\ a \in Nat /\ c \in Nat
      /\ w \in Nat \ {0} /\ NotedAt(in, bytes, notes, a)
  BY TrieIsRead, NotedNode DEF Skips
<1>2. ASSUME NEW k \in notes[c].on, k \in notes[a].below
      PROVE  Skipped(notes, notes[c].depth, pred, k)
  BY <1>1, <1>2 DEF Skips, Skipped
<1>3. CASE w < notes[a].end
  <2>1. b \in DOMAIN notes /\ next = PosAt(notes, b)
    BY <1>1, <1>3, TrieIsRead, NextNoted
  <2>2. Follows(in, bytes[a], notes[a], bytes[b], notes[b])
    BY <1>1, <1>3 DEF NotedAt
  <2>3. notes[b].depth = notes[a].depth /\ notes[a].on = notes[a].below \cup notes[b].on
    BY <2>2 DEF Follows
  <2>4. c + (n + 1) <= b
    <3> HIDE DEF w
    <3>1. c + (n + 1) <= a + w
      BY <1>1
    <3> QED
      BY <3>1 DEF w
  <2>5. AtNode(next)
    BY <2>1, TrieIsRead, PositionsAreTyped
  <2> HIDE DEF b
  <2>6. Skips(notes, c, pred, b)
    BY <1>2, <2>1, <2>3 DEF Skips
  <2> HIDE DEF next
  <2>7. SearchesAt(notes, c, pred, n + 1, next)
    BY <2>1, <2>4, <2>5, <2>6 DEF SearchesAt
  <2> QED
    BY <2>7 DEF next
<1>4. CASE ~(w < notes[a].end)
  <2>1. ~AtNode(next)
    BY <1>1, <1>4, TrieIsRead, NextNoted
  <2>2. notes[a].on = notes[a].below
    BY <1>1, <1>4 DEF NotedAt
  <2>3. SkipsAll(notes, c, pred)
    BY <1>2, <2>2 DEF Skips, SkipsAll
  <2> HIDE DEF next
  <2>4. SearchesAt(notes, c, pred, n + 1, next)
    BY <2>1, <2>3 DEF SearchesAt
  <2> QED
    BY <2>4 DEF next
<1> QED
  BY <1>3, <1>4

(* find_sibling stops at the first sibling that satisfies pred: what is    *)
(* below the ones before it has been skipped.                              *)
LEMMA FindSiblingFinds ==
  ASSUME NEW in, NEW bytes, NEW notes, IsTrieOf(in, bytes, notes),
         NEW c \in DOMAIN notes, NEW pred
  PROVE  IsResult(notes, c, pred, FindSibling(bytes, PosAt(notes, c), pred))
<1> DEFINE step == [i \in Siblings |-> IF AtNode(i) /\ ~pred[i.current]
                                       THEN NextSibling(bytes, i) ELSE i]
           S == {i \in Siblings : AtNode(i) => \E a \in DOMAIN notes : i = PosAt(notes, a)}
           start == PosAt(notes, c)
<1>1. start \in S
  BY TrieIsRead, PositionsAreTyped
<1>2. ASSUME NEW i \in S PROVE step[i] \in S
  <2>1. CASE AtNode(i) /\ ~pred[i.current]
    <3>1. PICK a \in DOMAIN notes : i = PosAt(notes, a)
      BY <2>1
    <3>2. step[i] = NextSibling(bytes, PosAt(notes, a))
      BY <2>1, <3>1
    <3> DEFINE next == NextSibling(bytes, PosAt(notes, a))
               b == a + NodeWidth(bytes[a])
    <3>3. \/ b \in DOMAIN notes /\ next = PosAt(notes, b)
          \/ next \in Siblings /\ ~AtNode(next)
      BY TrieIsRead, NextNoted
    <3>4. next \in S
      <4> HIDE DEF next, b, step
      <4> QED
        BY <3>3, TrieIsRead, PositionsAreTyped
    <3> QED
      BY <3>2, <3>4
  <2>2. CASE ~(AtNode(i) /\ ~pred[i.current])
    BY <2>2
  <2> QED
    BY <2>1, <2>2
<1>3. PICK f : IsRun(f, S, step, start)
  <2> HIDE DEF S, step, start
  <2> QED
    BY <1>1, <1>2, LoopRuns
<1> DEFINE P == {n \in Nat : SearchesAt(notes, c, pred, n, f[n])}
<1>4. 0 \in P
  <2>1. f[0] = start /\ AtNode(start)
    BY <1>3, TrieIsRead, PositionsAreTyped DEF IsLoop, IsRun
  <2>2. c \in Nat /\ c + 0 <= c
    BY TrieIsRead, NotedNode
  <2>3. Skips(notes, c, pred, c)
    BY DEF Skips
  <2> QED
    BY <2>1, <2>2, <2>3 DEF SearchesAt
<1>5. ASSUME NEW n \in P PROVE n + 1 \in P
  <2>1. n \in Nat /\ n + 1 \in Nat /\ SearchesAt(notes, c, pred, n, f[n])
    OBVIOUS
  <2>2. f[n + 1] = step[f[n]] /\ f[n] \in S
    BY <1>3, <2>1 DEF IsLoop, IsRun
  <2>3. CASE ~AtNode(f[n])
    <3>1. f[n + 1] = f[n]
      BY <2>2, <2>3
    <3> QED
      BY <2>1, <2>3, <3>1 DEF SearchesAt
  <2>4. CASE AtNode(f[n])
    <3>1. PICK a : /\ f[n] = PosAt(notes, a)
                   /\ Skips(notes, c, pred, a)
                   /\ pred[NodeAt(notes, a)] \/ c + n <= a
      BY <2>1, <2>4 DEF SearchesAt
    <3>2. f[n].current = NodeAt(notes, a)
      BY <3>1 DEF PosAt
    <3>3. CASE pred[NodeAt(notes, a)]
      <4>1. f[n + 1] = f[n]
        BY <2>2, <3>2, <3>3
      <4> QED
        BY <2>1, <2>4, <3>1, <3>3, <4>1 DEF SearchesAt
    <3>4. CASE ~pred[NodeAt(notes, a)]
      <4>1. f[n + 1] = NextSibling(bytes, PosAt(notes, a))
        BY <2>2, <2>4, <3>1, <3>2, <3>4
      <4>2. c + n <= a
        BY <3>1, <3>4
      <4>3. SearchesAt(notes, c, pred, n + 1, f[n + 1])
        BY <2>1, <3>1, <3>4, <4>1, <4>2, SearchStep
      <4> QED
        BY <2>1, <4>3
    <3> QED
      BY <3>3, <3>4
  <2> QED
    BY <2>3, <2>4
<1>6. P = Nat
  <2>1. P \subseteq Nat
    OBVIOUS
  <2> HIDE DEF P
  <2> QED
    BY <1>4, <1>5, <2>1, AllNumbers
<1>7. Len(bytes) \in Nat /\ c \in Nat /\ c > 0
  BY TrieIsRead, NotedNode
<1> DEFINE r == f[Len(bytes)]
<1>8. SearchesAt(notes, c, pred, Len(bytes), r)
  BY <1>6, <1>7
<1>9. FindSibling(bytes, PosAt(notes, c), pred) = r
  BY <1>3, <1>7 DEF FindSibling, IsRun
<1>10. IsResult(notes, c, pred, r)
  <2> HIDE DEF r
  <2>1. CASE AtNode(r)
    <3>1. PICK a : /\ r = PosAt(notes, a)
                   /\ Skips(notes, c, pred, a)
                   /\ pred[NodeAt(notes, a)] \/ c + Len(bytes) <= a
      BY <1>8, <2>1 DEF SearchesAt
    <3>2. a \in Nat /\ a <= Len(bytes)
      BY <1>7, <3>1, TrieIsRead, NotedNode DEF Skips
    <3>3. ~(c + Len(bytes) <= a)
      BY <1>7, <3>2
    <3> QED
      BY <2>1, <3>1, <3>3 DEF IsResult
  <2>2. CASE ~AtNode(r)
    BY <1>8, <2>2 DEF SearchesAt, IsResult
  <2> QED
    BY <2>1, <2>2
<1> QED
  BY <1>9, <1>10

-----------------------------------------------------------------------------
(* The suggestions a node stands for, and those a text leads to.           *)

(* The labels down to node, its own included, take depth characters, and   *)
(* the suggestions B go on below it.                                       *)
Stands(in, bytes, notes, node, depth, B) ==
  /\ node \in NodeView
  /\ B \subseteq DOMAIN in.suggestions
  /\ IF IsLeaf(bytes, node)
     THEN /\ node.data # 1
          /\ \E k \in B : /\ B = {k}
                          /\ Len(in.suggestions[k]) = depth
                          /\ in.ranks[k] = node.rank
     ELSE \E c \in DOMAIN notes :
            /\ VisitChildren(bytes, node) = PosAt(notes, c)
            /\ notes[c].depth = depth
            /\ notes[c].on = B

LEMMA RootStands ==
  ASSUME NEW in, NEW bytes, NEW notes, IsTrieOf(in, bytes, notes)
  PROVE  Stands(in, bytes, notes, Root(bytes), 0, DOMAIN in.suggestions)
BY RootChildren DEF Stands

LEMMA NodeStands ==
  ASSUME NEW in, NEW bytes, NEW notes, IsTrieOf(in, bytes, notes),
         NEW a \in DOMAIN notes
  PROVE  Stands(in, bytes, notes, NodeAt(notes, a),
                notes[a].depth + Len(bytes[a].label), notes[a].below)
<1> DEFINE node == NodeAt(notes, a)
           B == notes[a].below
<1>1. /\ node \in NodeView /\ IsLeaf(bytes, node) = bytes[a].leaf
      /\ node.data = a /\ node.rank = notes[a].rank
  BY TrieIsRead, PositionsAreTyped DEF NodeAt
<1>2. a # 1
  BY TrieIsRead, NotedNode
<1>3. Carries(in, bytes[a].label, notes[a].rank, bytes[a].leaf, notes[a].depth, B)
  BY TrieIsRead, NotedNode DEF Fits
<1>4. B \subseteq DOMAIN in.suggestions
  BY <1>3 DEF Carries
<1>5. CASE bytes[a].leaf
  <2>1. PICK k \in B : /\ B = {k}
                       /\ Len(in.suggestions[k]) = notes[a].depth + Len(bytes[a].label)
    BY <1>3, <1>5 DEF Carries
  <2>2. in.ranks[k] = notes[a].rank
    BY <1>3, <2>1 DEF Carries
  <2> QED
    BY <1>1, <1>2, <1>4, <1>5, <2>1, <2>2 DEF Stands
<1>6. CASE ~bytes[a].leaf
  <2> DEFINE c == a + notes[a].kids
  <2>1. /\ c \in DOMAIN notes
        /\ Begins(bytes[c], notes[c], notes[a].rank,
                  notes[a].depth + Len(bytes[a].label), B)
        /\ VisitChildren(bytes, node) = PosAt(notes, c)
    BY <1>6, TrieIsRead, ChildrenNoted
  <2>2. notes[c].depth = notes[a].depth + Len(bytes[a].label) /\ notes[c].on = B
    BY <2>1 DEF Begins
  <2> HIDE DEF c
  <2> QED
    BY <1>1, <1>4, <1>6, <2>1, <2>2 DEF Stands
<1> QED
  BY <1>5, <1>6

Agrees(in, k, text, n) ==
  /\ n <= Len(in.suggestions[k])
  /\ \A i \in 1 .. n : in.suggestions[k][i] = text[i]

Agreeing(in, text, n) == {k \in DOMAIN in.suggestions : Agrees(in, k, text, n)}

GoesOnAlike(in, k, text, n) ==
  n < Len(in.suggestions[k]) /\ in.suggestions[k][n + 1] = text[n + 1]

LEMMA AgreesFurther ==
  ASSUME NEW in, IsInput(in), NEW k \in DOMAIN in.suggestions,
         NEW text, NEW n \in Nat
  PROVE  Agrees(in, k, text, n + 1) <=>
           Agrees(in, k, text, n) /\ GoesOnAlike(in, k, text, n)
<1> DEFINE m == Len(in.suggestions[k])
<1>1. m \in Nat
  BY SuggestionTyped
<1>2. n + 1 <= m <=> n <= m /\ n < m
  BY <1>1
<1>3. 1 .. (n + 1) = (1 .. n) \cup {n + 1}
  OBVIOUS
<1> QED
  BY <1>1, <1>2, <1>3 DEF Agrees, GoesOnAlike

(* A sibling that agrees with the text in its first character.             *)
StartsAlike(bytes, text, n, a) ==
  bytes[a].label # <<>> /\ bytes[a].label[1] = text[n + 1]

(* The child that starts with the next character of a text stands for the  *)
(* suggestions that agree with the text in one character more.             *)
LEMMA SiblingSpells ==
  ASSUME NEW in, IsInput(in), NEW bytes, NEW notes, IsTrieOf(in, bytes, notes),
         NEW text, NEW n \in Nat, NEW a \in DOMAIN notes, notes[a].depth = n,
         NEW k \in notes[a].below
  PROVE  /\ k \in DOMAIN in.suggestions
         /\ n + Len(bytes[a].label) <= Len(in.suggestions[k])
         /\ \A i \in 1 .. Len(bytes[a].label) :
              in.suggestions[k][n + i] = bytes[a].label[i]
         /\ bytes[a].label = <<>> => Len(in.suggestions[k]) = n
         /\ Agrees(in, k, text, n + 1) => StartsAlike(bytes, text, n, a)
         /\ Agrees(in, k, text, n) /\ StartsAlike(bytes, text, n, a) =>
              Agrees(in, k, text, n + 1)
<1> DEFINE label == bytes[a].label
           s == in.suggestions[k]
<1>1. /\ label \in Seq(Char) /\ Len(label) \in Nat
      /\ Carries(in, label, notes[a].rank, bytes[a].leaf, n, notes[a].below)
  BY TrieIsRead, NotedNode DEF Fits
<1>2. k \in DOMAIN in.suggestions /\ Spells(in, k, n, label)
  BY <1>1 DEF Carries
<1>3. s \in Seq(Char) /\ Len(s) \in Nat
  BY <1>2, SuggestionTyped
<1>4. n + Len(label) <= Len(s) /\ \A i \in 1 .. Len(label) : s[n + i] = label[i]
  BY <1>2 DEF Spells
<1>5. ASSUME label = <<>> PROVE Len(s) = n
  <2>1. bytes[a].leaf
    BY <1>1, <1>5 DEF Carries
  <2>2. Len(s) = n + Len(label)
    BY <1>1, <2>1 DEF Carries
  <2>3. Len(label) = 0
    BY <1>5
  <2> HIDE DEF label
  <2> QED
    BY <2>2, <2>3
<1>6. ASSUME label # <<>> PROVE s[n + 1] = label[1] /\ n < Len(s)
  <2>1. Len(label) >= 1
    BY <1>1, <1>6, EmptySeq
  <2> HIDE DEF label, s
  <2> QED
    BY <1>1, <1>3, <1>4, <2>1
<1>7. Agrees(in, k, text, n + 1) <=>
        Agrees(in, k, text, n) /\ n < Len(s) /\ s[n + 1] = text[n + 1]
  <2>1. k \in DOMAIN in.suggestions
    BY <1>2
  <2> HIDE DEF label, s
  <2>2. Agrees(in, k, text, n + 1) <=>
          Agrees(in, k, text, n) /\ GoesOnAlike(in, k, text, n)
    BY <2>1, AgreesFurther
  <2> QED
    BY <2>2 DEF GoesOnAlike, s
<1>8. ~(n < n)
  OBVIOUS
<1> QED
  BY <1>2, <1>4, <1>5, <1>6, <1>7, <1>8 DEF StartsAlike

(* A search that starts where there is no node ends there. *)
LEMMA NothingToFind ==
  ASSUME NEW bytes, Len(bytes) \in Nat, NEW it \in Siblings, ~AtNode(it), NEW pred
  PROVE  FindSibling(bytes, it, pred) = it
<1> DEFINE step == [i \in Siblings |-> IF AtNode(i) /\ ~pred[i.current]
                                       THEN NextSibling(bytes, i) ELSE i]
           S == {it}
<1>1. it \in S
  OBVIOUS
<1>4. ASSUME NEW x \in S PROVE step[x] \in S
  OBVIOUS
<1>2. PICK f : IsRun(f, S, step, it)
  <2> HIDE DEF S, step
  <2> QED
    BY <1>1, <1>4, LoopRuns
<1>3. f[Len(bytes)] = it
  <2> DEFINE P == {n \in Nat : f[n] = it}
  <2>1. P \subseteq Nat /\ 0 \in P /\ \A k \in P : k + 1 \in P
    BY <1>2 DEF IsLoop, IsRun
  <2> HIDE DEF P
  <2>2. P = Nat
    BY <2>1, AllNumbers
  <2> QED
    BY <2>2 DEF P
<1> QED
  BY <1>2, <1>3 DEF FindSibling, IsRun

(* What the outer loop of a match finds: the child that goes on with the   *)
(* text, or that no suggestion does.                                       *)
IsChild(in, bytes, notes, text, n, it) ==
  IF AtNode(it)
  THEN \E a \in DOMAIN notes :
         /\ it = PosAt(notes, a)
         /\ notes[a].depth = n
         /\ StartsAlike(bytes, text, n, a)
         /\ notes[a].below = Agreeing(in, text, n + 1)
  ELSE Agreeing(in, text, n + 1) = {}

LooksForChild(bytes, notes, text, n, pred) ==
  \A a \in DOMAIN notes :
    pred[NodeAt(notes, a)] <=> StartsAlike(bytes, text, n, a)

LEMMA ChildFound ==
  ASSUME NEW in, IsInput(in), GroupedIn(in),
         NEW bytes, NEW notes, IsTrieOf(in, bytes, notes),
         NEW text, NEW n \in Nat, NEW node,
         Stands(in, bytes, notes, node, n, Agreeing(in, text, n)),
         NEW pred, LooksForChild(bytes, notes, text, n, pred)
  PROVE  IsChild(in, bytes, notes, text, n,
                 FindSibling(bytes, VisitChildren(bytes, node), pred))
<1> DEFINE more == Agreeing(in, text, n + 1)
           r == FindSibling(bytes, VisitChildren(bytes, node), pred)
<1>1. \A k \in DOMAIN in.suggestions :
        k \in more <=> Agrees(in, k, text, n) /\ GoesOnAlike(in, k, text, n)
  BY AgreesFurther DEF Agreeing
<1>2. more \subseteq Agreeing(in, text, n)
  BY <1>1 DEF Agreeing
<1>3. CASE IsLeaf(bytes, node)
  <2>1. VisitChildren(bytes, node) = NoSiblings
    BY <1>3 DEF VisitChildren
  <2>2. r = NoSiblings
    <3>1. Len(bytes) \in Nat
      BY RootChildren, TrieIsRead, NotedNode
    <3> QED
      BY <2>1, <3>1, NoNodeThere, NothingToFind
  <2>3. PICK k : Agreeing(in, text, n) = {k} /\ Len(in.suggestions[k]) = n
    BY <1>3 DEF Stands
  <2>4. ~GoesOnAlike(in, k, text, n)
    BY <2>3 DEF GoesOnAlike
  <2>5. more = {}
    BY <1>1, <1>2, <2>3, <2>4 DEF Agreeing
  <2> QED
    BY <2>2, <2>5, NoNodeThere DEF IsChild
<1>4. CASE ~IsLeaf(bytes, node)
  <2>1. PICK c \in DOMAIN notes : /\ VisitChildren(bytes, node) = PosAt(notes, c)
                                  /\ notes[c].depth = n
                                  /\ notes[c].on = Agreeing(in, text, n)
    BY <1>4 DEF Stands
  <2>2. IsResult(notes, c, pred, r)
    BY <2>1, FindSiblingFinds
  <2>3. ASSUME NEW k \in more PROVE ~Skipped(notes, n, pred, k)
    <3> SUFFICES ASSUME NEW b \in DOMAIN notes, notes[b].depth = n,
                        k \in notes[b].below, ~pred[NodeAt(notes, b)]
                 PROVE  FALSE
      BY DEF Skipped
    <3>1. Agrees(in, k, text, n + 1)
      BY <2>3 DEF Agreeing
    <3>2. StartsAlike(bytes, text, n, b)
      BY <3>1, SiblingSpells
    <3> QED
      BY <3>2 DEF LooksForChild
  <2>4. CASE AtNode(r)
    <3>1. PICK a : /\ r = PosAt(notes, a)
                   /\ Skips(notes, c, pred, a)
                   /\ pred[NodeAt(notes, a)]
      BY <2>2, <2>4 DEF IsResult
    <3>2. /\ a \in DOMAIN notes /\ notes[a].depth = n
          /\ notes[a].on \subseteq Agreeing(in, text, n)
          /\ \A k \in Agreeing(in, text, n) \ notes[a].on : Skipped(notes, n, pred, k)
      BY <2>1, <3>1 DEF Skips
    <3>3. StartsAlike(bytes, text, n, a)
      BY <3>1, <3>2 DEF LooksForChild
    <3>4. more \subseteq notes[a].on
      BY <1>2, <2>3, <3>2
    <3>5. NotedAt(in, bytes, notes, a)
      BY <3>2, TrieIsRead, NotedNode
    <3>6. /\ notes[a].below \subseteq notes[a].on
          /\ \A k \in notes[a].on \ notes[a].below : k \notin more
      <4> DEFINE w == NodeWidth(bytes[a])
                 b == a + w
      <4>1. CASE w < notes[a].end
        <5>1. Follows(in, bytes[a], notes[a], bytes[b], notes[b])
          BY <3>5, <4>1 DEF NotedAt
        <5>2. /\ notes[a].on = notes[a].below \cup notes[b].on
              /\ Differs(in, n, bytes[a].label, notes[b].on)
          BY <3>2, <5>1 DEF Follows
        <5>3. \A k \in notes[b].on : ~GoesOnAlike(in, k, text, n)
          BY <3>3, <5>2 DEF Differs, StartsAlike, GoesOnAlike
        <5>4. \A k \in notes[b].on : k \notin more
          BY <1>1, <5>3 DEF Agreeing
        <5> HIDE DEF b
        <5> QED
          BY <5>2, <5>4
      <4>2. CASE ~(w < notes[a].end)
        <5>1. notes[a].on = notes[a].below
          BY <3>5, <4>2 DEF NotedAt
        <5> QED
          BY <5>1
      <4> QED
        BY <4>1, <4>2
    <3>7. more \subseteq notes[a].below
      BY <3>4, <3>6
    <3>8. ASSUME NEW k \in notes[a].below PROVE k \in more
      <4>1. k \in DOMAIN in.suggestions /\ Agrees(in, k, text, n)
        BY <3>2, <3>6 DEF Agreeing
      <4>2. Agrees(in, k, text, n + 1)
        BY <3>2, <3>3, <4>1, SiblingSpells
      <4> QED
        BY <4>1, <4>2 DEF Agreeing
    <3>9. notes[a].below = more
      BY <3>7, <3>8
    <3> HIDE DEF r
    <3>10. IsChild(in, bytes, notes, text, n, r)
      BY <2>4, <3>1, <3>2, <3>3, <3>9 DEF IsChild
    <3> QED
      BY <3>10 DEF r
  <2>5. CASE ~AtNode(r)
    <3>1. \A k \in Agreeing(in, text, n) : Skipped(notes, n, pred, k)
      BY <2>1, <2>2, <2>5 DEF IsResult, SkipsAll
    <3>2. more = {}
      BY <1>2, <2>3, <3>1
    <3> QED
      BY <2>5, <3>2 DEF IsChild
  <2> QED
    BY <2>4, <2>5
<1> QED
  BY <1>3, <1>4

-----------------------------------------------------------------------------
(* The leaf of a text.                                                     *)

IsBest(in, text, rank) ==
  /\ \E k \in DOMAIN in.suggestions : in.suggestions[k] = text /\ in.ranks[k] = rank
  /\ \A k \in DOMAIN in.suggestions : in.suggestions[k] = text => rank <= in.ranks[k]

IsAbsent(in, text) == \A k \in DOMAIN in.suggestions : in.suggestions[k] # text

LEMMA AgreesToTheEnd ==
  ASSUME NEW in, IsInput(in), NEW k \in DOMAIN in.suggestions,
         NEW text \in Seq(Char)
  PROVE  in.suggestions[k] = text <=>
           Agrees(in, k, text, Len(text)) /\ Len(in.suggestions[k]) = Len(text)
<1> DEFINE s == in.suggestions[k]
<1>1. s \in Seq(Char) /\ Len(s) \in Nat
  BY SuggestionTyped
<1>2. Len(text) \in Nat
  BY LenProperties
<1>3. s = text => Agrees(in, k, text, Len(text)) /\ Len(s) = Len(text)
  BY <1>2 DEF Agrees
<1>4. ASSUME Agrees(in, k, text, Len(text)), Len(s) = Len(text) PROVE s = text
  <2>1. \A i \in 1 .. Len(s) : s[i] = text[i]
    BY <1>4 DEF Agrees
  <2> HIDE DEF s
  <2> QED
    BY <1>1, <1>4, <2>1, SeqEqual
<1> QED
  BY <1>3, <1>4

(* A match that ends at a leaf has found it. *)
LEMMA LeafReached ==
  ASSUME NEW in, IsInput(in), NEW bytes, NEW notes,
         NEW text \in Seq(Char), NEW node, IsLeaf(bytes, node),
         Stands(in, bytes, notes, node, Len(text), Agreeing(in, text, Len(text)))
  PROVE  IsBest(in, text, node.rank) /\ node.data # 1
<1>1. PICK k : /\ Agreeing(in, text, Len(text)) = {k}
               /\ Len(in.suggestions[k]) = Len(text)
               /\ in.ranks[k] = node.rank
  BY DEF Stands
<1>2. k \in DOMAIN in.suggestions /\ Agrees(in, k, text, Len(text))
  BY <1>1 DEF Agreeing
<1>3. in.suggestions[k] = text
  BY <1>1, <1>2, AgreesToTheEnd
<1>4. ASSUME NEW l \in DOMAIN in.suggestions, in.suggestions[l] = text
      PROVE  l = k
  <2>1. Agrees(in, l, text, Len(text))
    BY <1>4, AgreesToTheEnd
  <2> QED
    BY <1>1, <2>1 DEF Agreeing
<1>5. node.rank \in Nat
  BY DEF Stands, NodeView
<1>6. \A l \in DOMAIN in.suggestions : in.suggestions[l] = text => node.rank <= in.ranks[l]
  BY <1>1, <1>4, <1>5
<1> QED
  BY <1>1, <1>2, <1>3, <1>6 DEF IsBest, Stands

(* What find_leaf finds below a node whose labels spell the text: the leaf *)
(* without a label, which comes before the later ones of the same text.    *)
IsEnd(in, notes, text, it) ==
  IF AtNode(it)
  THEN \E a \in DOMAIN notes :
         it = PosAt(notes, a) /\ IsBest(in, text, notes[a].rank)
  ELSE IsAbsent(in, text)

LooksForEnd(bytes, notes, pred) ==
  \A a \in DOMAIN notes :
    pred[NodeAt(notes, a)] <=> bytes[a].leaf /\ bytes[a].label = <<>>

LEMMA EndFound ==
  ASSUME NEW in, IsInput(in), NEW bytes, NEW notes, IsTrieOf(in, bytes, notes),
         NEW text \in Seq(Char), NEW node, ~IsLeaf(bytes, node),
         Stands(in, bytes, notes, node, Len(text), Agreeing(in, text, Len(text))),
         NEW pred, LooksForEnd(bytes, notes, pred)
  PROVE  IsEnd(in, notes, text,
               FindSibling(bytes, VisitChildren(bytes, node), pred))
<1> DEFINE n == Len(text)
           r == FindSibling(bytes, VisitChildren(bytes, node), pred)
<1>1. n \in Nat
  BY LenProperties
<1>2. PICK c \in DOMAIN notes : /\ VisitChildren(bytes, node) = PosAt(notes, c)
                                /\ notes[c].depth = n
                                /\ notes[c].on = Agreeing(in, text, n)
  BY DEF Stands
<1>3. IsResult(notes, c, pred, r)
  BY <1>2, FindSiblingFinds
<1>4. ASSUME NEW k \in DOMAIN in.suggestions, in.suggestions[k] = text
      PROVE  k \in notes[c].on /\ ~Skipped(notes, n, pred, k)
  <2>1. Agrees(in, k, text, n) /\ Len(in.suggestions[k]) = n
    BY <1>4, AgreesToTheEnd
  <2>2. ASSUME NEW b \in DOMAIN notes, notes[b].depth = n,
               k \in notes[b].below, ~pred[NodeAt(notes, b)]
        PROVE  FALSE
    <3>1. ~(bytes[b].leaf /\ bytes[b].label = <<>>)
      BY <2>2 DEF LooksForEnd
    <3>2. /\ bytes[b].label \in Seq(Char) /\ Len(bytes[b].label) \in Nat
          /\ Carries(in, bytes[b].label, notes[b].rank, bytes[b].leaf, n, notes[b].below)
      BY <2>2, TrieIsRead, NotedNode DEF Fits
    <3>3. bytes[b].label # <<>>
      BY <3>1, <3>2 DEF Carries
    <3>4. n + Len(bytes[b].label) <= Len(in.suggestions[k])
      BY <3>2, <2>2 DEF Carries, Spells
    <3>5. Len(bytes[b].label) >= 1
      BY <3>2, <3>3, EmptySeq
    <3> DEFINE l == Len(bytes[b].label)
    <3> HIDE DEF l, n
    <3>6. l \in Nat /\ l >= 1 /\ n + l <= n
      BY <2>1, <3>2, <3>4, <3>5 DEF l
    <3> QED
      BY <1>1, <3>6
  <2> QED
    BY <1>2, <2>1, <2>2 DEF Agreeing, Skipped
<1>5. CASE AtNode(r)
  <2>1. PICK a : /\ r = PosAt(notes, a)
                 /\ Skips(notes, c, pred, a)
                 /\ pred[NodeAt(notes, a)]
    BY <1>3, <1>5 DEF IsResult
  <2>2. /\ a \in DOMAIN notes /\ notes[a].depth = n
        /\ notes[a].on \subseteq Agreeing(in, text, n)
        /\ \A k \in notes[c].on \ notes[a].on : Skipped(notes, n, pred, k)
    BY <1>2, <2>1 DEF Skips
  <2>3. bytes[a].leaf /\ bytes[a].label = <<>>
    BY <2>1, <2>2 DEF LooksForEnd
  <2>4. /\ Carries(in, <<>>, notes[a].rank, TRUE, n, notes[a].below)
        /\ \A k \in notes[a].on : notes[a].rank <= in.ranks[k]
    <3>1. Fits(in, bytes[a], notes[a])
      BY <2>2, TrieIsRead, NotedNode
    <3>2. bytes[a].leaf = TRUE
      BY <2>2, <2>3, TrieIsRead, NotedNode
    <3> QED
      BY <2>2, <2>3, <3>1, <3>2 DEF Fits
  <2>5. PICK k \in notes[a].below : /\ notes[a].below = {k}
                                    /\ Len(in.suggestions[k]) = n + Len(<<>>)
    BY <2>4 DEF Carries
  <2>6. in.ranks[k] = notes[a].rank /\ k \in DOMAIN in.suggestions
    BY <2>4, <2>5 DEF Carries
  <2>7. Len(in.suggestions[k]) = n
    <3>1. Len(<<>>) = 0
      OBVIOUS
    <3> HIDE DEF n
    <3> QED
      BY <1>1, <2>5, <3>1
  <2>8. notes[a].below \subseteq notes[a].on
    <3>1. NotedAt(in, bytes, notes, a)
      BY <2>2, TrieIsRead, NotedNode
    <3> DEFINE w == NodeWidth(bytes[a])
               b == a + w
    <3>2. \/ notes[a].on = notes[a].below
          \/ Follows(in, bytes[a], notes[a], bytes[b], notes[b])
      BY <3>1 DEF NotedAt
    <3>3. Follows(in, bytes[a], notes[a], bytes[b], notes[b]) =>
            notes[a].on = notes[a].below \cup notes[b].on
      BY DEF Follows
    <3> HIDE DEF b
    <3> QED
      BY <3>2, <3>3
  <2>9. Agrees(in, k, text, n)
    BY <2>2, <2>5, <2>8 DEF Agreeing
  <2>10. in.suggestions[k] = text
    BY <2>6, <2>7, <2>9, AgreesToTheEnd
  <2>11. \A l \in DOMAIN in.suggestions :
           in.suggestions[l] = text => notes[a].rank <= in.ranks[l]
    BY <1>4, <2>2, <2>4
  <2>12. IsBest(in, text, notes[a].rank)
    BY <2>6, <2>10, <2>11 DEF IsBest
  <2> HIDE DEF r
  <2>13. IsEnd(in, notes, text, r)
    BY <1>5, <2>1, <2>2, <2>12 DEF IsEnd
  <2> QED
    BY <2>13 DEF r
<1>6. CASE ~AtNode(r)
  <2>1. \A k \in notes[c].on : Skipped(notes, n, pred, k)
    BY <1>2, <1>3, <1>6 DEF IsResult, SkipsAll
  <2>2. IsAbsent(in, text)
    BY <1>4, <2>1 DEF IsAbsent
  <2> QED
    BY <1>6, <2>2 DEF IsEnd
<1> QED
  BY <1>5, <1>6

-----------------------------------------------------------------------------
(* TrieMatch reads a trie with the operators it has from TrieNode: they    *)
(* are those the trie is made with.                                        *)

LEMMA SameCapacity == Match!Capacity = Capacity
BY DEF Match!Capacity, Capacity, Match!Base, Base

LEMMA SameTag == ASSUME NEW n PROVE Match!TagOf(n) = TagOf(n)
BY SameCapacity DEF Match!TagOf, TagOf, Match!UInt, UInt, Match!EMPTY, EMPTY,
  Match!UINT8, UINT8, Match!UINT16, UINT16, Match!UINT64, UINT64

LEMMA SameCodewordSize ==
  ASSUME NEW tag PROVE Match!CodewordSize(tag) = CodewordSize(tag)
BY DEF Match!CodewordSize, CodewordSize, Match!EMPTY, EMPTY,
  Match!UINT8, UINT8, Match!UINT16, UINT16

LEMMA SameGroups == ASSUME NEW h PROVE Match!PutGroups(h) = PutGroups(h)
BY DEF Match!PutGroups, PutGroups

LEMMA SameWidth == ASSUME NEW h PROVE Match!NodeWidth(h) = NodeWidth(h)
<1>1. Match!OffsetSize(h.offset) = OffsetSize(h.offset)
  BY SameTag, SameCodewordSize DEF Match!OffsetSize, OffsetSize
<1>2. Match!WordTop = WordTop
  BY SameCapacity DEF Match!WordTop, WordTop
<1>3. Match!RankSize(h.rank) = RankSize(h.rank)
  BY <1>2, SameTag, SameCodewordSize, SameGroups
    DEF Match!RankSize, RankSize, Match!UINT64, UINT64
<1> QED
  BY <1>1, <1>3 DEF Match!NodeWidth, NodeWidth

LEMMA SameRoot == ASSUME NEW bytes PROVE Match!Root(bytes) = Root(bytes)
BY SameWidth DEF Match!Root, Root, Match!Node, Node, Match!Skip, Skip

LEMMA SameNext ==
  ASSUME NEW bytes, NEW it
  PROVE  Match!NextSibling(bytes, it) = NextSibling(bytes, it)
BY SameWidth DEF Match!NextSibling, NextSibling, Match!Skip, Skip, Match!Node, Node,
  Match!NullNode, NullNode, Match!NullAddress, NullAddress

LEMMA SameView ==
  ASSUME NEW bytes, NEW node
  PROVE  /\ Match!NodeView = NodeView
         /\ Match!Label(bytes, node) = Label(bytes, node)
         /\ Match!IsLeaf(bytes, node) = IsLeaf(bytes, node)
BY DEF Match!NodeView, NodeView, Match!Label, Label, Match!IsLeaf, IsLeaf

LEMMA SameChildren ==
  ASSUME NEW bytes, NEW node
  PROVE  Match!VisitChildren(bytes, node) = VisitChildren(bytes, node)
BY SameWidth, SameView DEF Match!VisitChildren, VisitChildren,
  Match!NoSiblings, NoSiblings, Match!NullNode, NullNode,
  Match!NullAddress, NullAddress, Match!Node, Node, Match!Skip, Skip

LEMMA SameAtNode == ASSUME NEW it PROVE Match!AtNode(it) = AtNode(it)
BY DEF Match!AtNode, AtNode, Match!NullAddress, NullAddress

LEMMA SameSearch ==
  ASSUME NEW bytes, NEW it, NEW pred
  PROVE  Match!FindSibling(bytes, it, pred) = FindSibling(bytes, it, pred)
<1>1. Match!Siblings = Siblings
  BY SameView DEF Match!Siblings, Siblings
<1>2. ASSUME NEW n, NEW step, NEW start
      PROVE  Match!After(n, step, start) = After(n, step, start)
  BY DEF Match!After, After
<1> DEFINE step == [i \in Siblings |-> IF AtNode(i) /\ ~pred[i.current]
                                       THEN NextSibling(bytes, i) ELSE i]
<1>3. [i \in Match!Siblings |-> IF Match!AtNode(i) /\ ~pred[i.current]
                                THEN Match!NextSibling(bytes, i) ELSE i] = step
  BY <1>1, SameAtNode, SameNext
<1>4. Match!FindSibling(bytes, it, pred) = Match!After(Len(bytes), step, it)
  BY <1>3 DEF Match!FindSibling
<1> QED
  BY <1>2, <1>4 DEF FindSibling

-----------------------------------------------------------------------------
(* What a match has found so far.                                          *)

IsPlace(bytes, notes, node) ==
  node = Root(bytes) \/ \E a \in DOMAIN notes : node = NodeAt(notes, a)

(* The suggestions B are those below the node. *)
IsBelow(in, bytes, notes, node, B) ==
  \/ node = Root(bytes) /\ B = DOMAIN in.suggestions
  \/ \E a \in DOMAIN notes : node = NodeAt(notes, a) /\ B = notes[a].below

(* Equal prefixes are neighbours in the input, and no character of the     *)
(* text is held as a negative number.                                      *)
Exact(in, text) ==
  GroupedIn(in) /\ \A i \in 1 .. Len(text) : text[i] \notin NegativeChar

(* Inside the label of the node at a. *)
IsInLabel(in, bytes, notes, text, n, node, m, a) ==
  /\ node = NodeAt(notes, a)
  /\ m \in 1 .. Len(bytes[a].label)
  /\ Exact(in, text) => /\ n = notes[a].depth + m
                        /\ notes[a].below = Agreeing(in, text, n)

AtLabel(in, bytes, notes, text, n, node, m) ==
  \E a \in DOMAIN notes : IsInLabel(in, bytes, notes, text, n, node, m, a)

(* After a label, or at the end of the text. *)
IsReached(in, bytes, notes, function, text, n, node) ==
  /\ Agreeing(in, text, n) # {}
  /\ IsBelow(in, bytes, notes, node, Agreeing(in, text, n))
  /\ \/ Stands(in, bytes, notes, node, n, Agreeing(in, text, n))
     \/ function = "prefix_match" /\ n = Len(text)

AtMatch(in, bytes, notes, function, text, n, node) ==
  /\ IsPlace(bytes, notes, node)
  /\ Exact(in, text) => IsReached(in, bytes, notes, function, text, n, node)

(* prefix_match has matched as many characters as there are suggestions    *)
(* for; find_leaf has found the best leaf of the text, or there is none.   *)
IsMatched(in, function, text, n, node, result) ==
  IF function = "prefix_match"
  THEN /\ Agreeing(in, text, n) # {}
       /\ n = Len(text) \/ Agreeing(in, text, n + 1) = {}
  ELSE IF result /\ node.data # 1
       THEN IsBest(in, text, node.rank)
       ELSE IsAbsent(in, text)

AtReturn(in, bytes, notes, function, text, n, node, result) ==
  /\ IsPlace(bytes, notes, node)
  /\ Exact(in, text) =>
       /\ IsMatched(in, function, text, n, node, result)
       /\ function = "prefix_match" =>
            IsBelow(in, bytes, notes, node, Agreeing(in, text, n))

(* The state of a match in a trie that is not empty. *)
Matches(in, bytes, notes, function, text, n, node, m, result, state) ==
  /\ state = "match"    => AtMatch(in, bytes, notes, function, text, n, node)
  /\ state = "label"    => AtLabel(in, bytes, notes, text, n, node, m)
  /\ state = "returned" => AtReturn(in, bytes, notes, function, text, n, node, result)

LEMMA PlaceIsTyped ==
  ASSUME NEW in, NEW bytes, NEW notes, IsTrieOf(in, bytes, notes),
         NEW node, IsPlace(bytes, notes, node)
  PROVE  node \in NodeView
BY RootChildren, TrieIsRead, PositionsAreTyped DEF IsPlace

(* The children of a place are noted siblings, if there are any. *)
LEMMA ChildrenOfPlace ==
  ASSUME NEW in, NEW bytes, NEW notes, IsTrieOf(in, bytes, notes),
         NEW node, IsPlace(bytes, notes, node), ~IsLeaf(bytes, node)
  PROVE  \E c \in DOMAIN notes : VisitChildren(bytes, node) = PosAt(notes, c)
<1>1. CASE node = Root(bytes)
  BY <1>1, RootChildren
<1>2. ASSUME NEW a \in DOMAIN notes, node = NodeAt(notes, a)
      PROVE  \E c \in DOMAIN notes : VisitChildren(bytes, node) = PosAt(notes, c)
  <2>1. ~bytes[a].leaf
    BY <1>2, TrieIsRead, PositionsAreTyped
  <2> QED
    BY <1>2, <2>1, TrieIsRead, ChildrenNoted
<1> QED
  BY <1>1, <1>2 DEF IsPlace

(* A sibling that is found has a note and satisfies what was looked for. *)
IsPick(notes, pred, it) ==
  \E a \in DOMAIN notes : it = PosAt(notes, a) /\ pred[NodeAt(notes, a)]

LEMMA FoundSibling ==
  ASSUME NEW in, NEW bytes, NEW notes, IsTrieOf(in, bytes, notes),
         NEW node, IsPlace(bytes, notes, node), NEW pred,
         AtNode(FindSibling(bytes, VisitChildren(bytes, node), pred))
  PROVE  IsPick(notes, pred, FindSibling(bytes, VisitChildren(bytes, node), pred))
<1> DEFINE it == FindSibling(bytes, VisitChildren(bytes, node), pred)
<1>1. CASE IsLeaf(bytes, node)
  <2>1. VisitChildren(bytes, node) = NoSiblings
    BY <1>1 DEF VisitChildren
  <2>2. Len(bytes) \in Nat
    BY RootChildren, TrieIsRead, NotedNode
  <2>3. it = NoSiblings
    BY <2>1, <2>2, NoNodeThere, NothingToFind
  <2> QED
    BY <2>3, NoNodeThere
<1>2. CASE ~IsLeaf(bytes, node)
  <2>1. PICK c \in DOMAIN notes : VisitChildren(bytes, node) = PosAt(notes, c)
    BY <1>2, ChildrenOfPlace
  <2>2. IsResult(notes, c, pred, it)
    BY <2>1, FindSiblingFinds
  <2> HIDE DEF it
  <2>3. AtNode(it)
    BY DEF it
  <2>4. IsPick(notes, pred, it)
    BY <2>2, <2>3 DEF IsResult, Skips, IsPick
  <2> QED
    BY <2>4 DEF it
<1> QED
  BY <1>1, <1>2

-----------------------------------------------------------------------------
(* The searches of a match.                                                *)

StartsWith(bytes, char) ==
  [node \in NodeView |-> /\ Label(bytes, node) # <<>>
                         /\ Head(Label(bytes, node)) = char
                         /\ char \notin NegativeChar]

LEMMA ChildSearch ==
  ASSUME NEW char
  PROVE  Match!Child(char) =
           FindSibling(trie, VisitChildren(trie, locus), StartsWith(trie, char))
<1> DEFINE pred == [node \in Match!NodeView |-> Match!StartsWith(node, char)]
<1>1. pred = StartsWith(trie, char)
  BY SameView DEF StartsWith, Match!StartsWith, Match!Equal
<1>2. Match!Child(char) =
        Match!FindSibling(trie, Match!VisitChildren(trie, locus), pred)
  BY DEF Match!Child
<1> HIDE DEF pred
<1> QED
  BY <1>1, <1>2, SameSearch, SameChildren

EndsHere(bytes) ==
  [node \in NodeView |-> IsLeaf(bytes, node) /\ Label(bytes, node) = <<>>]

LEMMA EndSearch ==
  ASSUME NEW node
  PROVE  Match!EndLeaf(node) =
           FindSibling(trie, VisitChildren(trie, node), EndsHere(trie))
<1> DEFINE pred == [n \in Match!NodeView |->
                      Match!IsLeaf(trie, n) /\ Match!Label(trie, n) = <<>>]
<1>1. pred = EndsHere(trie)
  BY SameView DEF EndsHere
<1>2. Match!EndLeaf(node) =
        Match!FindSibling(trie, Match!VisitChildren(trie, node), pred)
  BY DEF Match!EndLeaf
<1> HIDE DEF pred
<1> QED
  BY <1>1, <1>2, SameSearch, SameChildren

LEMMA StartsLooks ==
  ASSUME NEW in, NEW bytes, NEW notes, IsTrieOf(in, bytes, notes), NEW char,
         NEW a \in DOMAIN notes
  PROVE  StartsWith(bytes, char)[NodeAt(notes, a)] <=>
           /\ bytes[a].label # <<>>
           /\ bytes[a].label[1] = char
           /\ char \notin NegativeChar
<1>1. NodeAt(notes, a) \in NodeView /\ Label(bytes, NodeAt(notes, a)) = bytes[a].label
  BY TrieIsRead, PositionsAreTyped
<1>2. bytes[a].label \in Seq(Char)
  BY TrieIsRead, NotedNode
<1>3. bytes[a].label # <<>> => Head(bytes[a].label) = bytes[a].label[1]
  BY <1>2
<1> QED
  BY <1>1, <1>3 DEF StartsWith

LEMMA EndsLooks ==
  ASSUME NEW in, NEW bytes, NEW notes, IsTrieOf(in, bytes, notes)
  PROVE  LooksForEnd(bytes, notes, EndsHere(bytes))
<1> SUFFICES ASSUME NEW a \in DOMAIN notes
             PROVE  EndsHere(bytes)[NodeAt(notes, a)] <=>
                      bytes[a].leaf /\ bytes[a].label = <<>>
  BY DEF LooksForEnd
<1>1. /\ NodeAt(notes, a) \in NodeView
      /\ Label(bytes, NodeAt(notes, a)) = bytes[a].label
      /\ IsLeaf(bytes, NodeAt(notes, a)) = bytes[a].leaf
  BY TrieIsRead, PositionsAreTyped
<1> QED
  BY <1>1 DEF EndsHere

-----------------------------------------------------------------------------
(* The steps of a match.                                                   *)

(* The state of a match at work. *)
MatchTyped ==
  /\ string \in Seq(Char)
  /\ first \in 0 .. Len(string)
  /\ spelled \in 0 .. MaxLabelSize - 1
  /\ found \in BOOLEAN
  /\ finder \in {"prefix_match", "find_leaf"}
  /\ search \in {"match", "label", "returned"}

MatchingIn(notes) ==
  Matches(input, trie, notes, finder, string, first, locus, spelled, found, search)

(* No child goes on with the text. *)
LEMMA NoMoreThan ==
  ASSUME NEW in, IsInput(in), NEW text \in Seq(Char), NEW n \in Nat, n < Len(text),
         Agreeing(in, text, n + 1) = {}
  PROVE  IsAbsent(in, text)
<1> SUFFICES ASSUME NEW k \in DOMAIN in.suggestions, in.suggestions[k] = text
             PROVE  FALSE
  BY DEF IsAbsent
<1>1. Len(text) \in Nat
  BY LenProperties
<1>2. Agrees(in, k, text, Len(text)) /\ Len(in.suggestions[k]) = Len(text)
  BY AgreesToTheEnd
<1>3. n + 1 <= Len(text) /\ 1 .. (n + 1) \subseteq 1 .. Len(text)
  BY <1>1
<1>4. Agrees(in, k, text, n + 1)
  BY <1>2, <1>3 DEF Agrees
<1> QED
  BY <1>4 DEF Agreeing

LEMMA DescendKeeps ==
  ASSUME IsInput(input), NEW notes, IsTrieOf(input, trie, notes),
         MatchTyped, MatchingIn(notes), Match!Descend
  PROVE  MatchTyped' /\ Matches(input, trie, notes, finder', string', first',
                                locus', spelled', found', search')
<1> DEFINE char == string[first + 1]
           pred == StartsWith(trie, char)
           it   == FindSibling(trie, VisitChildren(trie, locus), pred)
<1>1. /\ search = "match" /\ first < Len(string)
      /\ AtNode(it) /\ locus' = it.current
      /\ spelled' = 1 /\ first' = first + 1 /\ search' = "label"
      /\ UNCHANGED <<trie, finder, string, found>>
  BY ChildSearch, SameAtNode DEF Match!Descend
<1>2. /\ IsPlace(trie, notes, locus)
      /\ Exact(input, string) => IsReached(input, trie, notes, finder, string, first, locus)
  BY <1>1 DEF MatchingIn, Matches, AtMatch
<1>3. Len(string) \in Nat /\ first \in Nat /\ first + 1 \in 1 .. Len(string)
  BY <1>1, LenProperties DEF MatchTyped
<1>4. PICK b \in DOMAIN notes : it = PosAt(notes, b) /\ trie[b].label # <<>>
  <2> HIDE DEF pred
  <2>1. IsPick(notes, pred, it)
    BY <1>1, <1>2, FoundSibling
  <2>2. PICK b \in DOMAIN notes : it = PosAt(notes, b) /\ pred[NodeAt(notes, b)]
    BY <2>1 DEF IsPick
  <2>3. trie[b].label # <<>>
    BY <2>2, StartsLooks DEF pred
  <2> QED
    BY <2>2, <2>3
<1>5. MatchTyped'
  <2>1. 1 \in 0 .. MaxLabelSize - 1
    BY MaxLabelSizeAssumption
  <2>2. first' \in 0 .. Len(string')
    BY <1>1, <1>3
  <2> QED
    BY <1>1, <2>1, <2>2 DEF MatchTyped
<1>6. ASSUME Exact(input, string)
      PROVE  \E a \in DOMAIN notes : /\ it = PosAt(notes, a)
                                     /\ notes[a].depth = first
                                     /\ trie[a].label # <<>>
                                     /\ notes[a].below = Agreeing(input, string, first + 1)
  <2>1. Stands(input, trie, notes, locus, first, Agreeing(input, string, first))
    BY <1>1, <1>2, <1>3, <1>6 DEF IsReached
  <2>2. char \notin NegativeChar /\ GroupedIn(input)
    BY <1>3, <1>6 DEF Exact
  <2>3. LooksForChild(trie, notes, string, first, pred)
    BY <2>2, StartsLooks DEF LooksForChild, StartsAlike
  <2>4. IsChild(input, trie, notes, string, first, it)
    <3> HIDE DEF pred
    <3> QED
      BY <1>3, <2>1, <2>2, <2>3, ChildFound
  <2> HIDE DEF it
  <2> QED
    BY <1>1, <2>4 DEF IsChild, StartsAlike
<1>7. AtLabel(input, trie, notes, string, first + 1, locus', 1)
  <2>1. ASSUME NEW a \in DOMAIN notes, it = PosAt(notes, a), trie[a].label # <<>>,
               Exact(input, string) =>
                 /\ notes[a].depth = first
                 /\ notes[a].below = Agreeing(input, string, first + 1)
        PROVE  AtLabel(input, trie, notes, string, first + 1, locus', 1)
    <3>1. locus' = NodeAt(notes, a)
      <4> HIDE DEF it
      <4> QED
        BY <1>1, <2>1 DEF PosAt
    <3>2. trie[a].label \in Seq(Char) /\ Len(trie[a].label) \in Nat
      BY TrieIsRead, NotedNode
    <3>3. 1 \in 1 .. Len(trie[a].label)
      BY <2>1, <3>2, EmptySeq
    <3> QED
      BY <2>1, <3>1, <3>3 DEF AtLabel, IsInLabel
  <2> QED
    BY <1>4, <1>6, <2>1
<1> QED
  BY <1>1, <1>5, <1>7 DEF Matches

LEMMA NoChildKeeps ==
  ASSUME IsInput(input), NEW notes, IsTrieOf(input, trie, notes),
         MatchTyped, MatchingIn(notes), Match!NoChild
  PROVE  MatchTyped' /\ Matches(input, trie, notes, finder', string', first',
                                locus', spelled', found', search')
<1> DEFINE char == string[first + 1]
           pred == StartsWith(trie, char)
           it   == FindSibling(trie, VisitChildren(trie, locus), pred)
<1>1. /\ search = "match" /\ first < Len(string)
      /\ ~AtNode(it)
      /\ search' = "returned" /\ found' = FALSE
      /\ UNCHANGED <<trie, finder, string, first, spelled, locus>>
  BY ChildSearch, SameAtNode DEF Match!NoChild, Match!Return
<1>2. /\ IsPlace(trie, notes, locus)
      /\ Exact(input, string) => IsReached(input, trie, notes, finder, string, first, locus)
  BY <1>1 DEF MatchingIn, Matches, AtMatch
<1>3. Len(string) \in Nat /\ first \in Nat /\ first + 1 \in 1 .. Len(string)
  BY <1>1, LenProperties DEF MatchTyped
<1>4. ASSUME Exact(input, string)
      PROVE  /\ Agreeing(input, string, first) # {}
             /\ Agreeing(input, string, first + 1) = {}
  <2>1. /\ Agreeing(input, string, first) # {}
        /\ Stands(input, trie, notes, locus, first, Agreeing(input, string, first))
    BY <1>1, <1>2, <1>3, <1>4 DEF IsReached
  <2>2. char \notin NegativeChar /\ GroupedIn(input)
    BY <1>3, <1>4 DEF Exact
  <2>3. LooksForChild(trie, notes, string, first, pred)
    BY <2>2, StartsLooks DEF LooksForChild, StartsAlike
  <2>4. IsChild(input, trie, notes, string, first, it)
    <3> HIDE DEF pred
    <3> QED
      BY <1>3, <2>1, <2>2, <2>3, ChildFound
  <2> HIDE DEF it
  <2> QED
    BY <1>1, <2>1, <2>4 DEF IsChild
<1>5. ASSUME Exact(input, string)
      PROVE  /\ IsMatched(input, finder, string, first, locus, FALSE)
             /\ IsBelow(input, trie, notes, locus, Agreeing(input, string, first))
  <2>1. string \in Seq(Char)
    BY DEF MatchTyped
  <2>2. IsAbsent(input, string)
    BY <1>1, <1>3, <1>4, <1>5, <2>1, NoMoreThan
  <2>3. IsBelow(input, trie, notes, locus, Agreeing(input, string, first))
    BY <1>2, <1>5 DEF IsReached
  <2> QED
    BY <1>4, <1>5, <2>2, <2>3 DEF IsMatched
<1> QED
  BY <1>1, <1>2, <1>5 DEF Matches, AtReturn, MatchTyped

AllGoOn(in, text, n) ==
  \A k \in Agreeing(in, text, n) : Len(in.suggestions[k]) > n

(* Going on in the label: all that is below the node goes on with it.      *)
LEMMA BelowSpells ==
  ASSUME NEW in, IsInput(in), NEW bytes, NEW notes, IsTrieOf(in, bytes, notes),
         NEW text, NEW n \in Nat, NEW m \in Nat, NEW a \in DOMAIN notes,
         m < Len(bytes[a].label), n = notes[a].depth + m,
         notes[a].below = Agreeing(in, text, n)
  PROVE  /\ Agreeing(in, text, n) # {}
         /\ bytes[a].label[m + 1] = text[n + 1] =>
              notes[a].below = Agreeing(in, text, n + 1)
         /\ bytes[a].label[m + 1] # text[n + 1] => Agreeing(in, text, n + 1) = {}
         /\ AllGoOn(in, text, n)
<1> DEFINE label == bytes[a].label
           B == notes[a].below
           d == notes[a].depth
<1>1. /\ label \in Seq(Char) /\ Len(label) \in Nat /\ notes[a] \in Note
      /\ Carries(in, label, notes[a].rank, bytes[a].leaf, d, B)
  BY TrieIsRead, NotedNode DEF Fits
<1>2. d \in Nat
  BY <1>1 DEF Note
<1>3. B # {}
  BY <1>1 DEF Carries
<1>4. ASSUME NEW k \in B
      PROVE  /\ k \in DOMAIN in.suggestions
             /\ n < Len(in.suggestions[k])
             /\ in.suggestions[k][n + 1] = label[m + 1]
  <2>1. k \in DOMAIN in.suggestions /\ Spells(in, k, d, label)
    BY <1>1 DEF Carries
  <2> DEFINE s == in.suggestions[k]
  <2>2. s \in Seq(Char) /\ Len(s) \in Nat
    BY <2>1, SuggestionTyped
  <2>3. d + Len(label) <= Len(s) /\ s[d + (m + 1)] = label[m + 1]
    <3>1. m + 1 \in 1 .. Len(label)
      BY <1>1
    <3> QED
      BY <2>1, <3>1 DEF Spells
  <2>4. d + (m + 1) = n + 1
    BY <1>2
  <2>5. n < Len(s)
    <3> HIDE DEF s, label, d
    <3>1. n = d + m /\ m < Len(label)
      BY DEF d, label
    <3> QED
      BY <1>1, <1>2, <2>2, <2>3, <3>1
  <2> QED
    BY <2>1, <2>3, <2>4, <2>5
<1>5. \A k \in DOMAIN in.suggestions :
        k \in Agreeing(in, text, n + 1) <=> k \in B /\ GoesOnAlike(in, k, text, n)
  BY AgreesFurther DEF Agreeing
<1>6. Agreeing(in, text, n + 1) \subseteq DOMAIN in.suggestions
  BY DEF Agreeing
<1>7. \A k \in B : k \in Agreeing(in, text, n + 1) <=> label[m + 1] = text[n + 1]
  BY <1>4, <1>5 DEF GoesOnAlike
<1>8. Agreeing(in, text, n + 1) \subseteq B
  BY <1>5, <1>6
<1>9. \A k \in Agreeing(in, text, n) : Len(in.suggestions[k]) > n
  <2>1. ASSUME NEW k \in B PROVE Len(in.suggestions[k]) > n
    <3>1. n < Len(in.suggestions[k]) /\ Len(in.suggestions[k]) \in Nat
      BY <1>4, SuggestionTyped
    <3> QED
      BY <3>1
  <2> QED
    BY <2>1
<1> QED
  BY <1>3, <1>7, <1>8, <1>9 DEF AllGoOn

LEMMA LabelGoesOnKeeps ==
  ASSUME IsInput(input), NEW notes, IsTrieOf(input, trie, notes),
         MatchTyped, MatchingIn(notes), Match!LabelGoesOn
  PROVE  MatchTyped' /\ Matches(input, trie, notes, finder', string', first',
                                locus', spelled', found', search')
<1>1. /\ search = "label" /\ spelled < Len(Label(trie, locus)) /\ first < Len(string)
      /\ Label(trie, locus)[spelled + 1] = string[first + 1]
      /\ first' = first + 1 /\ spelled' = spelled + 1
      /\ UNCHANGED <<trie, finder, string, locus, found, search>>
  BY SameView DEF Match!LabelGoesOn, Match!InLabel, Match!Equal
<1>2. PICK a \in DOMAIN notes :
        IsInLabel(input, trie, notes, string, first, locus, spelled, a)
  BY <1>1 DEF MatchingIn, Matches, AtLabel
<1>3. /\ Label(trie, locus) = trie[a].label
      /\ Len(trie[a].label) \in Nat /\ Len(trie[a].label) < MaxLabelSize
  BY <1>2, TrieIsRead, PositionsAreTyped, NotedNode DEF IsInLabel
<1>4. first \in Nat /\ spelled \in Nat /\ Len(string) \in Nat
  BY LenProperties DEF MatchTyped
<1>5. MatchTyped'
  <2>1. spelled + 1 \in 0 .. MaxLabelSize - 1
    BY <1>1, <1>3, <1>4, MaxLabelSizeAssumption
  <2>2. first + 1 \in 0 .. Len(string)
    BY <1>1, <1>4
  <2> QED
    BY <1>1, <2>1, <2>2 DEF MatchTyped
<1>6. ASSUME Exact(input, string)
      PROVE  /\ first + 1 = notes[a].depth + (spelled + 1)
             /\ notes[a].below = Agreeing(input, string, first + 1)
  <2>1. /\ first = notes[a].depth + spelled
        /\ notes[a].below = Agreeing(input, string, first)
    BY <1>2, <1>6 DEF IsInLabel
  <2>2. notes[a].depth \in Nat
    BY TrieIsRead, NotedNode DEF Note
  <2>3. notes[a].below = Agreeing(input, string, first + 1)
    BY <1>1, <1>3, <1>4, <2>1, BelowSpells
  <2> QED
    BY <1>4, <2>1, <2>2, <2>3
<1>7. spelled + 1 \in 1 .. Len(trie[a].label)
  BY <1>1, <1>3, <1>4
<1>8. AtLabel(input, trie, notes, string, first + 1, locus, spelled + 1)
  BY <1>2, <1>6, <1>7 DEF IsInLabel, AtLabel
<1> QED
  BY <1>1, <1>5, <1>8 DEF Matches

LEMMA LabelDiffersKeeps ==
  ASSUME IsInput(input), NEW notes, IsTrieOf(input, trie, notes),
         MatchTyped, MatchingIn(notes), Match!LabelDiffers
  PROVE  MatchTyped' /\ Matches(input, trie, notes, finder', string', first',
                                locus', spelled', found', search')
<1>1. /\ search = "label" /\ spelled < Len(Label(trie, locus)) /\ first < Len(string)
      /\ ~(/\ Label(trie, locus)[spelled + 1] = string[first + 1]
           /\ string[first + 1] \notin NegativeChar)
      /\ search' = "returned" /\ found' = FALSE
      /\ UNCHANGED <<trie, finder, string, first, spelled, locus>>
  BY SameView DEF Match!LabelDiffers, Match!InLabel, Match!Equal, Match!Return
<1>2. PICK a \in DOMAIN notes :
        IsInLabel(input, trie, notes, string, first, locus, spelled, a)
  BY <1>1 DEF MatchingIn, Matches, AtLabel
<1>3. Label(trie, locus) = trie[a].label
  BY <1>2, TrieIsRead, PositionsAreTyped DEF IsInLabel
<1>4. /\ first \in Nat /\ spelled \in Nat /\ Len(string) \in Nat
      /\ first + 1 \in 1 .. Len(string)
  BY <1>1, LenProperties DEF MatchTyped
<1>5. ASSUME Exact(input, string)
      PROVE  /\ IsMatched(input, finder, string, first, locus, FALSE)
             /\ IsBelow(input, trie, notes, locus, Agreeing(input, string, first))
  <2>1. /\ first = notes[a].depth + spelled
        /\ notes[a].below = Agreeing(input, string, first)
    BY <1>2, <1>5 DEF IsInLabel
  <2>2. trie[a].label[spelled + 1] # string[first + 1]
    BY <1>1, <1>3, <1>4, <1>5 DEF Exact
  <2>3. /\ Agreeing(input, string, first) # {}
        /\ Agreeing(input, string, first + 1) = {}
    BY <1>1, <1>3, <1>4, <2>1, <2>2, BelowSpells
  <2>4. IsAbsent(input, string)
    BY <1>1, <1>4, <2>3, NoMoreThan DEF MatchTyped
  <2>5. IsBelow(input, trie, notes, locus, Agreeing(input, string, first))
    BY <1>2, <2>1 DEF IsInLabel, IsBelow
  <2> QED
    BY <2>3, <2>4, <2>5 DEF IsMatched
<1>6. IsPlace(trie, notes, locus)
  BY <1>2 DEF IsInLabel, IsPlace
<1> QED
  BY <1>1, <1>5, <1>6 DEF Matches, AtReturn, MatchTyped

LEMMA LabelEndsKeeps ==
  ASSUME IsInput(input), NEW notes, IsTrieOf(input, trie, notes),
         MatchTyped, MatchingIn(notes), Match!LabelEnds
  PROVE  MatchTyped' /\ Matches(input, trie, notes, finder', string', first',
                                locus', spelled', found', search')
<1> DEFINE label == Label(trie, locus)
           inside == finder = "find_leaf" /\ spelled < Len(label)
<1>1. /\ search = "label"
      /\ spelled = Len(label) \/ first = Len(string)
      /\ UNCHANGED <<trie, finder, string, first, spelled, locus>>
      /\ IF inside THEN search' = "returned" /\ found' = FALSE
                   ELSE search' = "match" /\ found' = found
  BY SameView DEF Match!LabelEnds, Match!EndsInLabel, Match!Return
<1>2. PICK a \in DOMAIN notes :
        IsInLabel(input, trie, notes, string, first, locus, spelled, a)
  BY <1>1 DEF MatchingIn, Matches, AtLabel
<1>3. /\ locus = NodeAt(notes, a) /\ label = trie[a].label
      /\ spelled \in 1 .. Len(label) /\ Len(label) \in Nat
  BY <1>2, TrieIsRead, PositionsAreTyped, NotedNode DEF IsInLabel
<1>4. first \in Nat /\ spelled \in Nat /\ Len(string) \in Nat
  BY LenProperties DEF MatchTyped
<1>5. IsPlace(trie, notes, locus)
  BY <1>3 DEF IsPlace
<1>6. ASSUME Exact(input, string)
      PROVE  /\ first = notes[a].depth + spelled
             /\ notes[a].below = Agreeing(input, string, first)
             /\ Agreeing(input, string, first) # {}
             /\ IsBelow(input, trie, notes, locus, Agreeing(input, string, first))
  <2>1. /\ first = notes[a].depth + spelled
        /\ notes[a].below = Agreeing(input, string, first)
    BY <1>2, <1>6 DEF IsInLabel
  <2>2. Carries(input, trie[a].label, notes[a].rank, trie[a].leaf,
                notes[a].depth, notes[a].below)
    BY TrieIsRead, NotedNode DEF Fits
  <2>3. Agreeing(input, string, first) # {}
    BY <2>1, <2>2 DEF Carries
  <2> QED
    BY <1>3, <2>1, <2>3 DEF IsBelow
<1>7. CASE inside
  <2>1. first = Len(string) /\ spelled < Len(label)
    BY <1>1, <1>3, <1>7
  <2>2. ASSUME Exact(input, string) PROVE IsAbsent(input, string)
    <3>1. AllGoOn(input, string, first)
      <4>1. /\ spelled < Len(trie[a].label)
            /\ first = notes[a].depth + spelled
            /\ notes[a].below = Agreeing(input, string, first)
        BY <1>3, <1>6, <2>1, <2>2
      <4> HIDE DEF label
      <4> QED
        BY <1>4, <4>1, BelowSpells
    <3> SUFFICES ASSUME NEW k \in DOMAIN input.suggestions,
                        input.suggestions[k] = string
                 PROVE  FALSE
      BY DEF IsAbsent
    <3>2. /\ Agrees(input, k, string, Len(string))
          /\ Len(input.suggestions[k]) = Len(string)
      BY AgreesToTheEnd DEF MatchTyped
    <3>3. k \in Agreeing(input, string, first)
      BY <2>1, <3>2 DEF Agreeing
    <3>4. Len(string) > first
      BY <3>1, <3>2, <3>3 DEF AllGoOn
    <3> QED
      BY <1>4, <2>1, <3>4
  <2>3. Exact(input, string) => IsMatched(input, finder, string, first, locus, FALSE)
    BY <1>7, <2>2 DEF IsMatched
  <2> QED
    BY <1>1, <1>5, <1>7, <2>3 DEF Matches, AtReturn, MatchTyped
<1>8. CASE ~inside
  <2>1. ASSUME Exact(input, string)
        PROVE  IsReached(input, trie, notes, finder, string, first, locus)
    <3>1. CASE spelled = Len(label)
      <4>1. Stands(input, trie, notes, locus,
                   notes[a].depth + Len(trie[a].label), notes[a].below)
        BY <1>3, NodeStands
      <4>2. first = notes[a].depth + Len(trie[a].label)
        BY <1>3, <1>6, <2>1, <3>1
      <4> QED
        BY <1>6, <2>1, <4>1, <4>2 DEF IsReached
    <3>2. CASE spelled # Len(label)
      <4>1. first = Len(string) /\ spelled < Len(label)
        BY <1>1, <1>3, <3>2
      <4>2. finder = "prefix_match"
        BY <1>8, <4>1 DEF MatchTyped
      <4> QED
        BY <1>6, <2>1, <4>1, <4>2 DEF IsReached
    <3> QED
      BY <3>1, <3>2
  <2>2. AtMatch(input, trie, notes, finder, string, first, locus)
    BY <1>5, <2>1 DEF AtMatch
  <2> QED
    BY <1>1, <1>8, <2>2 DEF Matches, MatchTyped
<1> QED
  BY <1>7, <1>8

LEMMA StringEndsKeeps ==
  ASSUME IsInput(input), NEW notes, IsTrieOf(input, trie, notes),
         MatchTyped, MatchingIn(notes), Match!StringEnds
  PROVE  MatchTyped' /\ Matches(input, trie, notes, finder', string', first',
                                locus', spelled', found', search')
<1> DEFINE it == FindSibling(trie, VisitChildren(trie, locus), EndsHere(trie))
           below == finder = "find_leaf" /\ ~IsLeaf(trie, locus)
<1>1. /\ search = "match" /\ first = Len(string)
      /\ search' = "returned"
      /\ UNCHANGED <<trie, finder, string, first, spelled>>
      /\ IF below
         THEN /\ found' = AtNode(it)
              /\ locus' = IF AtNode(it) THEN it.current ELSE locus
         ELSE /\ found' = (finder = "find_leaf")
              /\ locus' = locus
  BY EndSearch, SameAtNode, SameView DEF Match!StringEnds, Match!Return
<1>2. /\ IsPlace(trie, notes, locus)
      /\ Exact(input, string) => IsReached(input, trie, notes, finder, string, first, locus)
  BY <1>1 DEF MatchingIn, Matches, AtMatch
<1>3. string \in Seq(Char) /\ finder \in {"prefix_match", "find_leaf"}
  BY DEF MatchTyped
<1>4. found' \in BOOLEAN
  BY <1>1 DEF AtNode
<1>5. ASSUME Exact(input, string), finder = "find_leaf"
      PROVE  Stands(input, trie, notes, locus, Len(string),
                    Agreeing(input, string, Len(string)))
  BY <1>1, <1>2, <1>5 DEF IsReached
<1>6. IsPlace(trie, notes, locus')
  <2>1. CASE below /\ AtNode(it)
    <3>1. IsPick(notes, EndsHere(trie), it)
      BY <1>2, <2>1, FoundSibling
    <3>2. locus' = it.current
      BY <1>1, <2>1
    <3> HIDE DEF it
    <3> QED
      BY <3>1, <3>2 DEF IsPick, PosAt, IsPlace
  <2>2. CASE ~(below /\ AtNode(it))
    <3>1. locus' = locus
      BY <1>1, <2>2
    <3> QED
      BY <1>2, <3>1
  <2> QED
    BY <2>1, <2>2
<1>7. ASSUME Exact(input, string)
      PROVE  IsMatched(input, finder, string, first, locus', found')
  <2>1. CASE finder = "prefix_match"
    BY <1>1, <1>2, <1>7, <2>1 DEF IsMatched, IsReached
  <2>2. CASE finder = "find_leaf" /\ IsLeaf(trie, locus)
    <3>1. found' = TRUE /\ locus' = locus
      BY <1>1, <2>2
    <3>2. IsBest(input, string, locus.rank) /\ locus.data # 1
      BY <1>3, <1>5, <1>7, <2>2, LeafReached
    <3> QED
      BY <2>2, <3>1, <3>2 DEF IsMatched
  <2>3. CASE below
    <3>1. IsEnd(input, notes, string, it)
      BY <1>3, <1>5, <1>7, <2>3, EndFound, EndsLooks
    <3>2. CASE AtNode(it)
      <4>1. found' = TRUE /\ locus' = it.current
        BY <1>1, <2>3, <3>2
      <4>2. PICK a \in DOMAIN notes :
              it = PosAt(notes, a) /\ IsBest(input, string, notes[a].rank)
        BY <3>1, <3>2 DEF IsEnd
      <4>3. a # 1
        BY TrieIsRead, NotedNode
      <4>4. locus'.data = a /\ locus'.rank = notes[a].rank
        <5> HIDE DEF it
        <5> QED
          BY <4>1, <4>2 DEF PosAt, NodeAt
      <4> QED
        BY <2>3, <4>1, <4>2, <4>3, <4>4 DEF IsMatched
    <3>3. CASE ~AtNode(it)
      <4>1. found' = FALSE /\ IsAbsent(input, string)
        BY <1>1, <2>3, <3>1, <3>3 DEF IsEnd
      <4> QED
        BY <2>3, <4>1 DEF IsMatched
    <3> QED
      BY <3>2, <3>3
  <2> QED
    BY <1>3, <2>1, <2>2, <2>3
<1>8. ASSUME Exact(input, string), finder = "prefix_match"
      PROVE  IsBelow(input, trie, notes, locus', Agreeing(input, string, first))
  BY <1>1, <1>2, <1>8 DEF IsReached
<1> QED
  BY <1>1, <1>4, <1>6, <1>7, <1>8 DEF Matches, AtReturn, MatchTyped

-----------------------------------------------------------------------------
(* A match in an empty trie finds nothing.                                 *)

FindsNothing(bytes, n, node, state) ==
  bytes = LeafRootHeader /\ n = 0 /\ node = Root(bytes) /\ state # "label"

LEMMA EmptyKeeps ==
  ASSUME FindsNothing(trie, first, locus, search), MatchTyped, Match!Next
  PROVE  MatchTyped' /\ FindsNothing(trie, first', locus', search')
<1> DEFINE bytes == LeafRootHeader
<1>1. /\ trie = bytes /\ first = 0 /\ locus = Root(bytes) /\ search # "label"
      /\ IsLeaf(bytes, locus) /\ Len(bytes) \in Nat
  BY EmptyRootSeen DEF FindsNothing
<1>2. VisitChildren(bytes, locus) = NoSiblings
  BY <1>1 DEF VisitChildren
<1>3. \A char : ~AtNode(Match!Child(char))
  <2> SUFFICES ASSUME NEW char PROVE ~AtNode(Match!Child(char))
    OBVIOUS
  <2>1. FindSibling(bytes, NoSiblings, StartsWith(trie, char)) = NoSiblings
    BY <1>1, NoNodeThere, NothingToFind
  <2> QED
    BY <1>1, <1>2, <2>1, NoNodeThere, ChildSearch
<1>4. CASE Match!Descend
  BY <1>3, <1>4, SameAtNode DEF Match!Descend
<1>5. CASE Match!NoChild
  BY <1>1, <1>5 DEF Match!NoChild, Match!Return, FindsNothing, MatchTyped
<1>6. CASE Match!LabelGoesOn \/ Match!LabelDiffers \/ Match!LabelEnds
  BY <1>1, <1>6 DEF Match!LabelGoesOn, Match!LabelDiffers, Match!LabelEnds, Match!InLabel
<1>7. CASE Match!StringEnds
  <2>1. /\ locus' = locus /\ search' = "returned" /\ found' = (finder = "find_leaf")
        /\ UNCHANGED <<trie, finder, string, first, spelled>>
    BY <1>1, <1>7, SameView DEF Match!StringEnds, Match!Return
  <2> QED
    BY <1>1, <2>1 DEF FindsNothing, MatchTyped
<1> QED
  BY <1>4, <1>5, <1>6, <1>7 DEF Match!Next

-----------------------------------------------------------------------------
(* The invariant of the calls that match.                                  *)

(* What the answer says of the match that has returned. *)
Answered ==
  /\ call \in {"mismatch", "count", "score"}
  /\ call = "mismatch" => answer = first
  /\ call = "count" => answer = IF FoundLeaf THEN 1 ELSE 0
  /\ call = "score" => answer = IF FoundLeaf THEN locus.rank ELSE NoScore

CallHolds ==
  /\ call \in {"none", "begin", "complete", "mismatch", "count", "score"}
  /\ call = "none" => search = "none"
  /\ search = "none" => /\ finder = "none" /\ string \in Seq(Char)
                        /\ first = 0 /\ spelled = 0 /\ locus = NullNode
                        /\ found = FALSE /\ answer = NoAnswer
  /\ search # "none" =>
       /\ pc = "done"
       /\ \/ finder = "prefix_match" /\ call \in {"complete", "mismatch"}
          \/ finder = "find_leaf" /\ call \in {"count", "score"}
  /\ answer # NoAnswer => search = "returned" /\ Answered

MatchHolds ==
  search # "none" =>
    /\ MatchTyped
    /\ IF suggestions = <<>>
       THEN FindsNothing(trie, first, locus, search)
       ELSE \E notes : IsTrieOf(input, trie, notes) /\ MatchingIn(notes)

(* Nothing is built any more once a trie is there. *)
LEMMA BuildEnds == Next => pc # "done"
BY DEF Next, ThrowSizes, NextSuggestion, MergeLevel, Extend, LastMerge,
       MakeRoot, BuildEmpty

LEMMA NullIsSame == Match!NullNode = NullNode
BY DEF Match!NullNode, NullNode, Match!NullAddress, NullAddress

LEMMA CallsStart == TrieInit => CallHolds /\ MatchHolds
BY NullIsSame, EmptySeq DEF TrieInit, ReaderInit, Match!Init, CallHolds, MatchHolds, NoAnswer

(* The steps of a match: what they leave alone. *)
LEMMA MatchMoves ==
  Match!Next => /\ search \in {"match", "label"}
                /\ search' \in {"match", "label", "returned"}
                /\ UNCHANGED <<trie, finder, string>>
BY DEF Match!Next, Match!Descend, Match!NoChild, Match!LabelGoesOn,
       Match!LabelDiffers, Match!LabelEnds, Match!StringEnds, Match!InLabel,
       Match!Return

LEMMA MatchNextKeeps ==
  ASSUME IsInput(input), NEW notes, IsTrieOf(input, trie, notes),
         MatchTyped, MatchingIn(notes), Match!Next
  PROVE  MatchTyped' /\ Matches(input, trie, notes, finder', string', first',
                                locus', spelled', found', search')
<1>1. CASE Match!Descend
  BY <1>1, DescendKeeps
<1>2. CASE Match!NoChild
  BY <1>2, NoChildKeeps
<1>3. CASE Match!LabelGoesOn
  BY <1>3, LabelGoesOnKeeps
<1>4. CASE Match!LabelDiffers
  BY <1>4, LabelDiffersKeeps
<1>5. CASE Match!LabelEnds
  BY <1>5, LabelEndsKeeps
<1>6. CASE Match!StringEnds
  BY <1>6, StringEndsKeeps
<1> QED
  BY <1>1, <1>2, <1>3, <1>4, <1>5, <1>6 DEF Match!Next

(* Steps that leave a match alone. *)
LEMMA MatchIdle ==
  ASSUME MatchHolds, UNCHANGED <<input, matchVars>>,
         search # "none" => UNCHANGED trie
  PROVE  MatchHolds'
<1>1. CASE search = "none"
  BY <1>1 DEF MatchHolds, matchVars
<1>2. CASE search # "none"
  <2>1. /\ UNCHANGED <<finder, string, first, locus, spelled, found, search>>
        /\ UNCHANGED <<input, trie>>
    BY <1>2 DEF matchVars
  <2>2. MatchTyped'
    BY <1>2, <2>1 DEF MatchHolds, MatchTyped
  <2>3. CASE suggestions = <<>>
    <3>1. FindsNothing(trie, first, locus, search)
      BY <1>2, <2>3 DEF MatchHolds
    <3>2. suggestions' = <<>>
      BY <2>1, <2>3 DEF suggestions
    <3>3. FindsNothing(trie, first, locus, search)'
      BY <2>1, <3>1 DEF FindsNothing
    <3> QED
      BY <2>2, <3>2, <3>3 DEF MatchHolds
  <2>4. CASE suggestions # <<>>
    <3>1. PICK notes : IsTrieOf(input, trie, notes) /\ MatchingIn(notes)
      BY <1>2, <2>4 DEF MatchHolds
    <3>2. suggestions' # <<>>
      BY <2>1, <2>4 DEF suggestions
    <3>3. IsTrieOf(input', trie', notes) /\ MatchingIn(notes)'
      BY <2>1, <3>1 DEF MatchingIn
    <3> QED
      BY <2>2, <3>2, <3>3 DEF MatchHolds
  <2> QED
    BY <2>3, <2>4
<1> QED
  BY <1>1, <1>2

LEMMA MatchStarts ==
  ASSUME Inv, Contents, CallHolds, NEW operation, NEW function, NEW argument \in Queries,
         \/ function = "prefix_match" /\ operation \in {"complete", "mismatch"}
         \/ function = "find_leaf" /\ operation \in {"count", "score"},
         CallMatch(operation, function, argument)
  PROVE  CallHolds' /\ MatchHolds'
<1>1. /\ pc = "done" /\ call = "none" /\ call' = operation
      /\ search = "none" /\ search' = "match"
      /\ finder' = function /\ string' = argument /\ locus' = Root(trie)
      /\ UNCHANGED <<vars, first, spelled, found, answer>>
  BY SameRoot DEF CallMatch, Calls, Match!Start, builderVars
<1>2. /\ first = 0 /\ spelled = 0 /\ found = FALSE /\ answer = NoAnswer
  BY <1>1 DEF CallHolds
<1>3. UNCHANGED <<input, trie, pc>>
  BY <1>1 DEF vars
<1>4. CallHolds'
  BY <1>1, <1>2, <1>3 DEF CallHolds
<1>5. argument \in Seq(Char) /\ Len(argument) \in Nat
  BY QueriesAssumption, LenProperties
<1>6. MatchTyped'
  <2>1. 0 \in 0 .. MaxLabelSize - 1 /\ 0 \in 0 .. Len(argument)
    BY <1>5, MaxLabelSizeAssumption
  <2> QED
    BY <1>1, <1>2, <1>5, <2>1 DEF MatchTyped
<1>7. HoldsInput(input, trie)
  BY <1>1 DEF Contents
<1>8. CASE suggestions = <<>>
  <2>1. trie = LeafRootHeader
    BY <1>7, <1>8 DEF HoldsInput, suggestions
  <2>2. FindsNothing(trie, first, locus, search)'
    BY <1>1, <1>2, <1>3, <2>1 DEF FindsNothing
  <2>3. suggestions' = <<>>
    BY <1>3, <1>8 DEF suggestions
  <2> QED
    BY <1>4, <1>6, <2>2, <2>3 DEF MatchHolds
<1>9. CASE suggestions # <<>>
  <2>1. PICK notes : IsTrieOf(input, trie, notes)
    BY <1>7, <1>9 DEF HoldsInput, suggestions
  <2>2. Agreeing(input, argument, 0) = DOMAIN input.suggestions
    <3>1. \A k \in DOMAIN input.suggestions : Agrees(input, k, argument, 0)
      <4>1. IsInput(input)
        BY InputIsTyped
      <4>2. \A k \in DOMAIN input.suggestions : 0 <= Len(input.suggestions[k])
        BY <4>1, SuggestionTyped
      <4> QED
        BY <4>2 DEF Agrees
    <3> QED
      BY <3>1 DEF Agreeing
  <2>3. DOMAIN input.suggestions # {}
    <3>1. input.suggestions \in Seq(Seq(Char)) /\ input.suggestions # <<>>
      BY <1>9, InputIsTyped DEF IsInput, suggestions
    <3>2. 1 \in 1 .. Len(input.suggestions)
      BY <3>1, EmptySeq, LenProperties
    <3> QED
      BY <3>1, <3>2, LenProperties
  <2>4. Stands(input, trie, notes, Root(trie), 0, DOMAIN input.suggestions)
    BY <2>1, RootStands
  <2>5. IsReached(input, trie, notes, function, argument, 0, Root(trie))
    BY <2>2, <2>3, <2>4 DEF IsReached, IsBelow
  <2>6. AtMatch(input, trie, notes, function, argument, 0, Root(trie))
    BY <2>5 DEF AtMatch, IsPlace
  <2>7. MatchingIn(notes)'
    BY <1>1, <1>2, <1>3, <2>6 DEF MatchingIn, Matches
  <2>8. suggestions' # <<>> /\ IsTrieOf(input', trie', notes)
    BY <1>3, <1>9, <2>1 DEF suggestions
  <2> QED
    BY <1>4, <1>6, <2>7, <2>8 DEF MatchHolds
<1> QED
  BY <1>8, <1>9

LEMMA MatchStepKeeps ==
  ASSUME Inv, CallHolds, MatchHolds, MatchStep
  PROVE  CallHolds' /\ MatchHolds'
<1>1. /\ Match!Next /\ UNCHANGED <<vars, call, answer>>
  BY DEF MatchStep, builderVars
<1>2. /\ search \in {"match", "label"}
      /\ search' \in {"match", "label", "returned"}
      /\ UNCHANGED <<trie, finder, string>>
  BY <1>1, MatchMoves
<1>3. answer = NoAnswer
  BY <1>2 DEF CallHolds
<1>4. UNCHANGED <<input, trie, pc>>
  BY <1>1 DEF vars
<1>5. CallHolds'
  BY <1>1, <1>2, <1>3, <1>4 DEF CallHolds
<1>6. IsInput(input)
  BY InputIsTyped
<1>7. CASE suggestions = <<>>
  <2>1. FindsNothing(trie, first, locus, search) /\ MatchTyped
    BY <1>2, <1>7 DEF MatchHolds
  <2>2. MatchTyped' /\ FindsNothing(trie, first', locus', search')
    BY <1>1, <2>1, EmptyKeeps
  <2>3. suggestions' = <<>> /\ FindsNothing(trie, first, locus, search)'
    BY <1>4, <1>7, <2>2 DEF suggestions
  <2> QED
    BY <1>5, <2>2, <2>3 DEF MatchHolds
<1>8. CASE suggestions # <<>>
  <2>1. PICK notes : IsTrieOf(input, trie, notes) /\ MatchingIn(notes)
    BY <1>2, <1>8 DEF MatchHolds
  <2>2. MatchTyped
    BY <1>2 DEF MatchHolds
  <2>3. MatchTyped' /\ Matches(input, trie, notes, finder', string', first',
                               locus', spelled', found', search')
    BY <1>1, <1>6, <2>1, <2>2, MatchNextKeeps
  <2>4. MatchingIn(notes)' /\ IsTrieOf(input', trie', notes) /\ suggestions' # <<>>
    BY <1>4, <1>8, <2>1, <2>3 DEF MatchingIn, suggestions
  <2> QED
    BY <1>5, <2>3, <2>4 DEF MatchHolds
<1> QED
  BY <1>7, <1>8

(* Steps that leave the calls, and the bytes once there are some, alone. *)
LEMMA CallIdle ==
  ASSUME CallHolds, MatchHolds, UNCHANGED <<input, matchVars, call, answer>>,
         search # "none" => UNCHANGED <<trie, pc>>
  PROVE  CallHolds' /\ MatchHolds'
<1>1. UNCHANGED <<finder, string, first, locus, spelled, found, search>>
  BY DEF matchVars
<1>2. MatchHolds'
  BY MatchIdle
<1>3. CallHolds'
  BY <1>1 DEF CallHolds, Answered, FoundLeaf, NoAnswer
<1> QED
  BY <1>2, <1>3

LEMMA AnswerKeeps ==
  ASSUME CallHolds, MatchHolds, ReturnMismatch \/ ReturnCount \/ ReturnScore
  PROVE  CallHolds' /\ MatchHolds'
<1>1. /\ search = "returned"
      /\ UNCHANGED <<vars, matchVars, call>>
      /\ \/ call = "mismatch" /\ answer' = first
         \/ call = "count" /\ answer' = IF FoundLeaf THEN 1 ELSE 0
         \/ call = "score" /\ answer' = IF FoundLeaf THEN locus.rank ELSE NoScore
  BY DEF ReturnMismatch, ReturnCount, ReturnScore, Answer, builderVars
<1>2. /\ UNCHANGED <<finder, string, first, locus, spelled, found, search>>
      /\ UNCHANGED <<input, trie, pc, call>>
  BY <1>1 DEF matchVars, vars
<1>3. MatchHolds'
  BY <1>1, <1>2, MatchIdle
<1>4. FoundLeaf' = FoundLeaf
  BY <1>2 DEF FoundLeaf
<1>5. Answered'
  BY <1>1, <1>2, <1>4 DEF Answered
<1>6. CallHolds'
  BY <1>1, <1>2, <1>5 DEF CallHolds
<1> QED
  BY <1>3, <1>6

(* begin, and complete in an empty trie, match nothing. *)
LEMMA OpensKeep ==
  ASSUME CallHolds, MatchHolds,
         CallBegin \/ \E q \in Queries : CallCompleteOfEmpty(q)
  PROVE  CallHolds' /\ MatchHolds'
<1>1. /\ call = "none" /\ call' \in {"begin", "complete"}
      /\ UNCHANGED <<vars, finder, first, locus, spelled, found, search, answer>>
      /\ string' = string \/ string' \in Queries
  BY DEF CallBegin, CallCompleteOfEmpty, Calls, builderVars, matchVars
<1>2. search = "none" /\ search' = "none" /\ string' \in Seq(Char)
  BY <1>1, QueriesAssumption DEF CallHolds
<1>3. CallHolds'
  BY <1>1, <1>2 DEF CallHolds
<1>4. MatchHolds'
  BY <1>2 DEF MatchHolds
<1> QED
  BY <1>3, <1>4

LEMMA CallsKeep ==
  Inv /\ Contents /\ CallHolds /\ MatchHolds /\ [TrieNext]_allVars =>
    (CallHolds /\ MatchHolds)'
<1> SUFFICES ASSUME Inv, Contents, CallHolds, MatchHolds, [TrieNext]_allVars
             PROVE  CallHolds' /\ MatchHolds'
  OBVIOUS
<1>1. CASE Build
  <2>1. Next /\ UNCHANGED <<matchVars, call, answer>>
    BY <1>1 DEF Build
  <2>2. pc # "done"
    BY <2>1, BuildEnds
  <2>3. search = "none"
    BY <2>2 DEF CallHolds
  <2>4. UNCHANGED input
    BY <2>1 DEF Next, ThrowSizes, NextSuggestion, MergeLevel, Extend, LastMerge,
                MakeRoot, BuildEmpty, Throw
  <2> QED
    BY <2>1, <2>3, <2>4, CallIdle
<1>2. CASE CallBegin \/ \E q \in Queries : CallCompleteOfEmpty(q)
  BY <1>2, OpensKeep
<1>3. ASSUME NEW q \in Queries,
             CallComplete(q) \/ CallMismatch(q) \/ CallCount(q) \/ CallScore(q)
      PROVE  CallHolds' /\ MatchHolds'
  <2>1. CASE CallComplete(q)
    <3>1. CallMatch("complete", "prefix_match", q)
      BY <2>1 DEF CallComplete
    <3> QED
      BY <3>1, MatchStarts
  <2>2. CASE CallMismatch(q)
    <3>1. CallMatch("mismatch", "prefix_match", q)
      BY <2>2 DEF CallMismatch
    <3> QED
      BY <3>1, MatchStarts
  <2>3. CASE CallCount(q)
    <3>1. CallMatch("count", "find_leaf", q)
      BY <2>3 DEF CallCount
    <3> QED
      BY <3>1, MatchStarts
  <2>4. CASE CallScore(q)
    <3>1. CallMatch("score", "find_leaf", q)
      BY <2>4 DEF CallScore
    <3> QED
      BY <3>1, MatchStarts
  <2> QED
    BY <1>3, <2>1, <2>2, <2>3, <2>4
<1>4. CASE MatchStep
  BY <1>4, MatchStepKeeps
<1>5. CASE OpenCompletions \/ Increment \/ AdvanceStep \/ UNCHANGED allVars
  <2>1. UNCHANGED <<vars, matchVars, call, answer>>
    BY <1>5 DEF OpenCompletions, Increment, AdvanceStep, builderVars, allVars
  <2>2. UNCHANGED <<input, trie, pc>>
    BY <2>1 DEF vars
  <2> QED
    BY <2>1, <2>2, CallIdle
<1>6. CASE ReturnMismatch \/ ReturnCount \/ ReturnScore
  BY <1>6, AnswerKeeps
<1> QED
  BY <1>1, <1>2, <1>3, <1>4, <1>5, <1>6 DEF TrieNext, Read

(* The reader changes nothing the builder made. *)
LEMMA BuildsOnly == TrieSpec => Spec
<1>1. TrieInit => Init
  BY DEF TrieInit
<1>2. [TrieNext]_allVars => [Next]_vars
  <2> SUFFICES ASSUME [TrieNext]_allVars PROVE [Next]_vars
    OBVIOUS
  <2>1. CASE Build
    BY <2>1 DEF Build
  <2>2. CASE Read
    BY <2>2 DEF Read, CallBegin, CallComplete, CallCompleteOfEmpty, CallMismatch,
      CallCount, CallScore, CallMatch, MatchStep, OpenCompletions, ReturnMismatch,
      ReturnCount, ReturnScore, Answer, Increment, AdvanceStep, builderVars
  <2>3. CASE UNCHANGED allVars
    BY <2>3 DEF allVars
  <2> QED
    BY <2>1, <2>2, <2>3 DEF TrieNext
<1> QED
  BY <1>1, <1>2, PTL DEF TrieSpec, Spec

(* What prefix_match and find_leaf have found, and what the call that made *)
(* them go is about to answer, agree with the input.                       *)
THEOREM CallsHold == TrieSpec => [](CallHolds /\ MatchHolds)
<1>1. TrieSpec => []Inv
  BY BuildsOnly, Invariant, PTL
<1>2. TrieSpec => []Contents
  BY BuildsOnly, ContentsHold, PTL
<1> QED
  BY <1>1, <1>2, CallsStart, CallsKeep, PTL DEF TrieSpec

-----------------------------------------------------------------------------
(* The answers.                                                            *)

LEMMA PrefixAgrees ==
  ASSUME NEW in, IsInput(in), NEW k \in DOMAIN in.suggestions,
         NEW text \in Seq(Char), NEW n \in 0 .. Len(text)
  PROVE  IsPrefix(SubSeq(text, 1, n), in.suggestions[k]) <=> Agrees(in, k, text, n)
<1> DEFINE s == in.suggestions[k]
           p == SubSeq(text, 1, n)
<1>1. s \in Seq(Char) /\ Len(s) \in Nat
  BY SuggestionTyped
<1>2. Len(text) \in Nat /\ n \in Nat /\ n <= Len(text)
  BY LenProperties
<1>3. p \in Seq(Char) /\ Len(p) = n /\ \A i \in 1 .. n : p[i] = text[i]
  BY <1>2
<1> HIDE DEF p, s
<1>4. SubSeq(p, 1, n) = p
  <2>1. SubSeq(p, 1, n) \in Seq(Char) /\ Len(SubSeq(p, 1, n)) = n
    BY <1>2, <1>3
  <2>2. \A i \in 1 .. n : SubSeq(p, 1, n)[i] = p[i]
    BY <1>2, <1>3
  <2> QED
    BY <1>3, <2>1, <2>2, SeqEqual
<1>5. ASSUME n <= Len(s)
      PROVE  p = SubSeq(s, 1, n) <=> \A i \in 1 .. n : s[i] = text[i]
  <2> DEFINE q == SubSeq(s, 1, n)
  <2>1. q \in Seq(Char) /\ Len(q) = n /\ \A i \in 1 .. n : q[i] = s[i]
    BY <1>1, <1>2, <1>5
  <2> HIDE DEF q
  <2>2. p = q => \A i \in 1 .. n : s[i] = text[i]
    BY <1>3, <2>1
  <2>3. ASSUME \A i \in 1 .. n : s[i] = text[i] PROVE p = q
    <3>1. \A i \in 1 .. Len(p) : p[i] = q[i]
      BY <1>3, <2>1, <2>3
    <3> QED
      BY <1>3, <2>1, <3>1, SeqEqual
  <2> QED
    BY <2>2, <2>3 DEF q
<1> QED
  BY <1>3, <1>4, <1>5 DEF IsPrefix, Agrees, p, s

(* A suggestion that agrees with the text agrees with every prefix of it. *)
LEMMA AgreesLess ==
  ASSUME NEW in, IsInput(in), NEW k \in DOMAIN in.suggestions, NEW text,
         NEW n \in Nat, NEW m \in Nat, m <= n, Agrees(in, k, text, n)
  PROVE  Agrees(in, k, text, m)
<1>1. Len(in.suggestions[k]) \in Nat
  BY SuggestionTyped
<1> QED
  BY <1>1 DEF Agrees

(* The largest of some numbers. *)
LEMMA LargestNumber ==
  ASSUME NEW S, S \subseteq Nat, NEW m \in S, \A n \in S : n <= m
  PROVE  Max(S) = m
<1>1. \A n \in S : m >= n
  OBVIOUS
<1>2. \A x \in S : (\A y \in S : x >= y) => x = m
  OBVIOUS
<1> QED
  BY <1>1, <1>2 DEF Max

LEMMA EntryOf ==
  /\ \A e \in InputEntries : \E k \in DOMAIN input.suggestions :
       e.string = input.suggestions[k] /\ e.rank = input.ranks[k]
  /\ \A k \in DOMAIN input.suggestions : \E e \in InputEntries :
       e.string = input.suggestions[k] /\ e.rank = input.ranks[k]
<1>1. ASSUME NEW e \in InputEntries
      PROVE  \E k \in DOMAIN input.suggestions :
               e.string = input.suggestions[k] /\ e.rank = input.ranks[k]
  <2>1. PICK k \in DOMAIN input.suggestions :
          e = [string |-> input.suggestions[k], rank |-> input.ranks[k]]
    BY DEF InputEntries, suggestions, ranks
  <2> QED
    BY <2>1
<1>2. ASSUME NEW k \in DOMAIN input.suggestions
      PROVE  \E e \in InputEntries :
               e.string = input.suggestions[k] /\ e.rank = input.ranks[k]
  <2> DEFINE e == [string |-> input.suggestions[k], rank |-> input.ranks[k]]
  <2>1. e \in InputEntries
    BY DEF InputEntries, suggestions, ranks
  <2>2. e.string = input.suggestions[k] /\ e.rank = input.ranks[k]
    OBVIOUS
  <2> QED
    BY <2>1, <2>2
<1> QED
  BY <1>1, <1>2

LEMMA AnswerIsLongest ==
  ASSUME Inv, CallHolds, MatchHolds, Exact(input, string)
  PROVE  MismatchIsLongest
<1> SUFFICES ASSUME call = "mismatch", answer # NoAnswer
             PROVE  answer = Max({n \in 0 .. Len(string) :
                                    n = 0 \/ \E e \in InputEntries :
                                      IsPrefix(SubSeq(string, 1, n), e.string)})
  BY DEF MismatchIsLongest
<1> DEFINE S == {n \in 0 .. Len(string) :
                   n = 0 \/ \E e \in InputEntries :
                     IsPrefix(SubSeq(string, 1, n), e.string)}
<1>1. search = "returned" /\ answer = first /\ finder = "prefix_match"
  BY DEF CallHolds, Answered
<1>2. MatchTyped
  BY <1>1 DEF MatchHolds
<1>3. string \in Seq(Char) /\ Len(string) \in Nat /\ first \in 0 .. Len(string)
  BY <1>2, LenProperties DEF MatchTyped
<1>4. IsInput(input)
  BY InputIsTyped
<1>5. S = {n \in 0 .. Len(string) :
             n = 0 \/ \E k \in DOMAIN input.suggestions : Agrees(input, k, string, n)}
  <2>1. ASSUME NEW n \in 0 .. Len(string)
        PROVE  (\E e \in InputEntries : IsPrefix(SubSeq(string, 1, n), e.string)) <=>
                 \E k \in DOMAIN input.suggestions : Agrees(input, k, string, n)
    <3>1. \A k \in DOMAIN input.suggestions :
            IsPrefix(SubSeq(string, 1, n), input.suggestions[k]) <=>
              Agrees(input, k, string, n)
      BY <1>3, <1>4, PrefixAgrees
    <3>2. ASSUME NEW e \in InputEntries, IsPrefix(SubSeq(string, 1, n), e.string)
          PROVE  \E k \in DOMAIN input.suggestions : Agrees(input, k, string, n)
      BY <3>1, <3>2, EntryOf
    <3>3. ASSUME NEW k \in DOMAIN input.suggestions, Agrees(input, k, string, n)
          PROVE  \E e \in InputEntries : IsPrefix(SubSeq(string, 1, n), e.string)
      BY <3>1, <3>3, EntryOf
    <3> QED
      BY <3>2, <3>3
  <2> QED
    BY <2>1
<1> HIDE DEF S
<1>6. S \subseteq Nat
  BY <1>3, <1>5
<1>7. CASE suggestions = <<>>
  <2>1. first = 0
    BY <1>1, <1>7 DEF MatchHolds, FindsNothing
  <2>2. DOMAIN input.suggestions = {}
    BY <1>7 DEF suggestions
  <2>3. S = {0}
    BY <1>3, <1>5, <2>2
  <2> QED
    BY <1>1, <1>6, <2>1, <2>3, LargestNumber DEF S
<1>8. CASE suggestions # <<>>
  <2>1. PICK notes : MatchingIn(notes)
    BY <1>1, <1>8 DEF MatchHolds
  <2>2. /\ Agreeing(input, string, first) # {}
        /\ first = Len(string) \/ Agreeing(input, string, first + 1) = {}
    BY <1>1, <2>1 DEF MatchingIn, Matches, AtReturn, IsMatched
  <2>3. first \in S
    BY <1>3, <1>5, <2>2 DEF Agreeing
  <2>4. ASSUME NEW n \in S PROVE n <= first
    <3>1. n \in 0 .. Len(string) /\ n \in Nat /\ first \in Nat
      BY <1>3, <1>5
    <3> SUFFICES ASSUME n > first PROVE FALSE
      BY <3>1
    <3>2. PICK k \in DOMAIN input.suggestions : Agrees(input, k, string, n)
      BY <1>5, <3>1
    <3>3. first + 1 <= n /\ first + 1 \in Nat /\ first # Len(string)
      BY <1>3, <3>1
    <3>4. Agrees(input, k, string, first + 1)
      BY <1>4, <3>1, <3>2, <3>3, AgreesLess
    <3> QED
      BY <2>2, <3>3, <3>4 DEF Agreeing
  <2>5. Max(S) = first
    BY <1>6, <2>3, <2>4, LargestNumber
  <2> QED
    BY <1>1, <2>5 DEF S
<1> QED
  BY <1>7, <1>8

LEMMA AnswerIsBest ==
  ASSUME Inv, CallHolds, MatchHolds, Exact(input, string)
  PROVE  LeafIsFound
<1> DEFINE equal == {e.rank : e \in {f \in InputEntries : f.string = string}}
<1> SUFFICES ASSUME answer # NoAnswer
             PROVE  /\ call = "count" => answer = IF equal = {} THEN 0 ELSE 1
                    /\ call = "score" =>
                         answer = IF equal = {} THEN NoScore ELSE Min(equal)
  BY DEF LeafIsFound
<1> SUFFICES ASSUME call \in {"count", "score"}
             PROVE  /\ call = "count" => answer = IF equal = {} THEN 0 ELSE 1
                    /\ call = "score" =>
                         answer = IF equal = {} THEN NoScore ELSE Min(equal)
  OBVIOUS
<1>1. search = "returned" /\ finder = "find_leaf" /\ Answered
  BY DEF CallHolds
<1>2. equal = {input.ranks[k] : k \in {l \in DOMAIN input.suggestions :
                                         input.suggestions[l] = string}}
  <2>1. \A x : x \in equal <=>
          \E k \in DOMAIN input.suggestions :
            input.suggestions[k] = string /\ x = input.ranks[k]
    BY EntryOf
  <2> HIDE DEF equal
  <2> QED
    BY <2>1
<1> HIDE DEF equal
<1>3. /\ FoundLeaf => IsBest(input, string, locus.rank)
      /\ ~FoundLeaf => IsAbsent(input, string)
  <2>1. CASE suggestions = <<>>
    <3>1. FindsNothing(trie, first, locus, search)
      BY <1>1, <2>1 DEF MatchHolds
    <3>2. ~FoundLeaf
      BY <3>1 DEF FindsNothing, FoundLeaf
    <3>3. DOMAIN input.suggestions = {}
      BY <2>1 DEF suggestions
    <3> QED
      BY <3>2, <3>3 DEF IsAbsent
  <2>2. CASE suggestions # <<>>
    <3>1. PICK notes : IsTrieOf(input, trie, notes) /\ MatchingIn(notes)
      BY <1>1, <2>2 DEF MatchHolds
    <3>2. IsMatched(input, finder, string, first, locus, found)
      BY <1>1, <3>1 DEF MatchingIn, Matches, AtReturn
    <3>3. Root(trie).data = 1
      BY <3>1, RootChildren
    <3>4. FoundLeaf <=> found /\ locus.data # 1
      BY <3>3 DEF FoundLeaf
    <3> QED
      BY <1>1, <3>2, <3>4 DEF IsMatched
  <2> QED
    BY <2>1, <2>2
<1>4. CASE FoundLeaf
  <2>1. IsBest(input, string, locus.rank)
    BY <1>3, <1>4
  <2>2. locus.rank \in equal /\ \A r \in equal : locus.rank <= r
    BY <1>2, <2>1 DEF IsBest
  <2>3. equal \subseteq Nat
    <3>1. CASE suggestions = <<>>
      <4>1. DOMAIN input.suggestions = {}
        BY <3>1 DEF suggestions
      <4> QED
        BY <1>2, <2>2, <4>1
    <3>2. CASE suggestions # <<>>
      <4>1. Len(suggestions) = Len(ranks)
        BY <1>1, <3>2 DEF Inv, OnlySizesThrow, CallHolds
      <4>2. /\ input.suggestions \in Seq(Seq(Char))
            /\ input.ranks \in Seq(Nat)
        BY InputIsTyped DEF IsInput
      <4>3. \A k \in DOMAIN input.suggestions : input.ranks[k] \in Nat
        BY <4>1, <4>2, LenProperties, ElementOfSeq DEF suggestions, ranks
      <4>4. equal \subseteq Nat
        BY <1>2, <4>3
      <4> QED
        BY <2>2, <4>4
    <3> QED
      BY <3>1, <3>2
  <2>4. Min(equal) = locus.rank
    BY <2>2, <2>3, SmallestNumber
  <2>5. equal # {}
    BY <2>2
  <2> QED
    BY <1>1, <1>4, <2>4, <2>5 DEF Answered
<1>5. CASE ~FoundLeaf
  <2>1. equal = {}
    BY <1>2, <1>3, <1>5 DEF IsAbsent
  <2> QED
    BY <1>1, <1>5, <2>1 DEF Answered
<1> QED
  BY <1>4, <1>5

-----------------------------------------------------------------------------
(* The way to the leaf of a suggestion.                                    *)

(* The nodes that suggestion k is on. *)
Chain(notes, k) == {a \in DOMAIN notes : k \in notes[a].on}

(* The last of them, and the next of any other. *)
IsLast(bytes, notes, k, a) == k \in notes[a].below /\ bytes[a].leaf

GoesTo(bytes, notes, k, a) ==
  IF k \in notes[a].below THEN a + notes[a].kids ELSE a + NodeWidth(bytes[a])

(* The bounds of a note are distances. *)
LEMMA SpansTyped ==
  ASSUME NEW in, NEW bytes, NEW notes, IsTrieOf(in, bytes, notes),
         NEW a \in DOMAIN notes
  PROVE  /\ a \in Nat /\ a >= 2 /\ a <= Len(bytes) /\ Len(bytes) \in Nat
         /\ notes[a].kids \in Nat /\ notes[a].end \in Nat
         /\ notes[a].stop \in Nat /\ notes[a].all \in Nat
         /\ NodeWidth(bytes[a]) \in Nat \ {0}
         /\ NodeWidth(bytes[a]) <= notes[a].end
         /\ notes[a].end <= notes[a].kids
         /\ notes[a].kids <= notes[a].stop
         /\ notes[a].stop <= notes[a].all
         /\ Spans(bytes, notes, a)
<1>1. /\ a \in 2 .. Len(bytes) /\ a \in Nat /\ Len(bytes) \in Nat
      /\ NodeWidth(bytes[a]) \in Nat \ {0}
      /\ notes[a] \in Note /\ NotedAt(in, bytes, notes, a)
  BY TrieIsRead, NotedNode
<1>2. Spans(bytes, notes, a)
  BY DEF IsTrieOf, IsNoted
<1>3. NodeWidth(bytes[a]) <= notes[a].end
  BY <1>1 DEF NotedAt
<1>4. /\ notes[a].kids \in Nat /\ notes[a].end \in Nat
      /\ notes[a].stop \in Nat /\ notes[a].all \in Nat
  BY <1>1 DEF Note
<1>5. /\ notes[a].end <= notes[a].kids
      /\ notes[a].kids <= notes[a].stop
      /\ notes[a].stop <= notes[a].all
  BY <1>2 DEF Spans
<1> QED
  BY <1>1, <1>2, <1>3, <1>4, <1>5

(* From a node on the way the next one is one step away. *)
Leads(bytes, notes, k, a, b) ==
  /\ b \in Chain(notes, k)
  /\ a < b
  /\ PosAt(notes, b) \in Steps(bytes, PosAt(notes, a))
  /\ b + notes[b].all <= a + notes[a].all
  /\ k \in notes[a].below => b + notes[b].all = a + notes[a].stop

LEMMA ChainGoesOn ==
  ASSUME NEW in, NEW bytes, NEW notes, IsTrieOf(in, bytes, notes),
         NEW k, NEW a \in Chain(notes, k), ~IsLast(bytes, notes, k, a)
  PROVE  Leads(bytes, notes, k, a, GoesTo(bytes, notes, k, a))
<1> DEFINE w == NodeWidth(bytes[a])
           n == notes[a]
<1>1. a \in DOMAIN notes /\ k \in n.on
  BY DEF Chain
<1>2. /\ a \in Nat /\ w \in Nat \ {0} /\ n.kids \in Nat /\ n.stop \in Nat
      /\ n.all \in Nat /\ n.stop <= n.all /\ Spans(bytes, notes, a)
      /\ NotedAt(in, bytes, notes, a) /\ bytes[a].leaf \in BOOLEAN
  BY <1>1, SpansTyped, TrieIsRead, NotedNode
<1>3. PosAt(notes, a).current = NodeAt(notes, a)
  BY DEF PosAt
<1>4. CASE k \in n.below
  <2> DEFINE c == a + n.kids
  <2>1. ~bytes[a].leaf
    BY <1>4 DEF IsLast
  <2>2. /\ c \in DOMAIN notes /\ a < c
        /\ Begins(bytes[c], notes[c], n.rank, n.depth + Len(bytes[a].label), n.below)
        /\ VisitChildren(bytes, NodeAt(notes, a)) = PosAt(notes, c)
    BY <1>1, <2>1, TrieIsRead, ChildrenNoted
  <2>3. c \in Chain(notes, k)
    BY <1>4, <2>2 DEF Begins, Chain
  <2>4. PosAt(notes, c) \in Siblings /\ AtNode(PosAt(notes, c))
    BY <2>2, TrieIsRead, PositionsAreTyped
  <2>5. PosAt(notes, c) \in Steps(bytes, PosAt(notes, a))
    BY <1>3, <2>2, <2>4 DEF Steps
  <2>6. n.kids + notes[c].all = n.stop /\ notes[c].all \in Nat
    BY <1>2, <2>1, <2>2, SpansTyped DEF Spans
  <2>7. c + notes[c].all = a + n.stop /\ c + notes[c].all <= a + n.all
    <3> DEFINE x == n.kids
               y == notes[c].all
    <3>1. c + y = (a + x) + y /\ x + y = n.stop /\ x \in Nat /\ y \in Nat
      BY <1>2, <2>6
    <3> HIDE DEF x, y, c, n
    <3> QED
      BY <1>2, <3>1 DEF y
  <2>8. GoesTo(bytes, notes, k, a) = c
    BY <1>4 DEF GoesTo
  <2> HIDE DEF c
  <2> QED
    BY <2>2, <2>3, <2>5, <2>7, <2>8 DEF Leads
<1>5. CASE k \notin n.below
  <2> DEFINE b == a + w
  <2>1. w < n.end
    BY <1>1, <1>2, <1>5 DEF NotedAt
  <2>2. b \in DOMAIN notes /\ NextSibling(bytes, PosAt(notes, a)) = PosAt(notes, b)
    BY <1>1, <2>1, TrieIsRead, NextNoted
  <2>3. n.on = n.below \cup notes[b].on
    BY <1>2, <2>1 DEF NotedAt, Follows
  <2>4. b \in Chain(notes, k) /\ a < b
    BY <1>1, <1>2, <1>5, <2>2, <2>3 DEF Chain
  <2>5. PosAt(notes, b) \in Siblings /\ AtNode(PosAt(notes, b))
    BY <2>2, TrieIsRead, PositionsAreTyped
  <2>6. PosAt(notes, b) \in Steps(bytes, PosAt(notes, a))
    BY <2>2, <2>5 DEF Steps
  <2>7. w + notes[b].all = n.all /\ notes[b].all \in Nat
    BY <1>2, <2>1, <2>2, SpansTyped DEF Spans
  <2>8. b + notes[b].all <= a + n.all
    <3> DEFINE y == notes[b].all
    <3>1. b + y = (a + w) + y /\ w + y = n.all /\ y \in Nat
      BY <2>7
    <3> HIDE DEF w, y, b, n
    <3> QED
      BY <1>2, <3>1 DEF y
  <2>9. GoesTo(bytes, notes, k, a) = b
    BY <1>5 DEF GoesTo
  <2> HIDE DEF b
  <2> QED
    BY <1>5, <2>4, <2>6, <2>8, <2>9 DEF Leads
<1> QED
  BY <1>4, <1>5

(* Every node on the way but the first has one before it. *)
LEMMA ChainComesFrom ==
  ASSUME NEW in, NEW bytes, NEW notes, IsTrieOf(in, bytes, notes),
         NEW k, NEW a \in Chain(notes, k), a # 2
  PROVE  \E b \in Chain(notes, k) :
           b < a /\ ~IsLast(bytes, notes, k, b) /\ GoesTo(bytes, notes, k, b) = a
<1>1. a \in DOMAIN notes /\ k \in notes[a].on
  BY DEF Chain
<1>2. PICK b \in DOMAIN notes :
        /\ b < a
        /\ \/ a = b + NodeWidth(bytes[b]) /\ NodeWidth(bytes[b]) < notes[b].end
           \/ a = b + notes[b].kids /\ ~bytes[b].leaf
  BY <1>1 DEF IsTrieOf, IsNoted, Entered
<1>3. NotedAt(in, bytes, notes, b)
  BY TrieIsRead, NotedNode
<1>4. CASE a = b + NodeWidth(bytes[b]) /\ NodeWidth(bytes[b]) < notes[b].end
  <2>1. notes[b].on = notes[b].below \cup notes[a].on /\ notes[b].below \cap notes[a].on = {}
    BY <1>3, <1>4 DEF NotedAt, Follows
  <2>2. k \in notes[b].on /\ k \notin notes[b].below
    BY <1>1, <2>1
  <2> QED
    BY <1>2, <1>4, <2>2 DEF Chain, IsLast, GoesTo
<1>5. CASE a = b + notes[b].kids /\ ~bytes[b].leaf
  <2>1. notes[a].on = notes[b].below
    BY <1>3, <1>5 DEF NotedAt, Begins
  <2>2. notes[b].below \subseteq notes[b].on
    BY <1>3 DEF NotedAt, Follows
  <2> QED
    BY <1>1, <1>2, <1>5, <2>1, <2>2 DEF Chain, IsLast, GoesTo
<1> QED
  BY <1>2, <1>4, <1>5

(* The way is a single one. *)
LEMMA ChainIsOrdered ==
  ASSUME NEW in, NEW bytes, NEW notes, IsTrieOf(in, bytes, notes), NEW k
  PROVE  \A a, c \in Chain(notes, k) :
           a < c => ~IsLast(bytes, notes, k, a) /\ GoesTo(bytes, notes, k, a) <= c
<1> DEFINE C == Chain(notes, k)
           Fine(a, c) == ~IsLast(bytes, notes, k, a) /\ GoesTo(bytes, notes, k, a) <= c
           T == {c \in C : \E a \in C : a < c /\ ~Fine(a, c)}
<1> SUFFICES ASSUME T # {} PROVE FALSE
  OBVIOUS
<1>1. \A a \in C : a \in Nat /\ a >= 2
  BY SpansTyped DEF Chain
<1>2. T \subseteq Nat
  BY <1>1
<1> HIDE DEF T
<1>3. PICK c \in T : \A d \in T : c <= d
  BY <1>2, LeastNumber
<1>4. PICK a \in C : a < c /\ ~Fine(a, c)
  BY <1>3 DEF T
<1>5. c \in C /\ c # 2 /\ c \in Nat /\ a \in Nat
  BY <1>1, <1>3, <1>4 DEF T
<1>6. PICK b \in C : /\ b < c /\ ~IsLast(bytes, notes, k, b)
                     /\ GoesTo(bytes, notes, k, b) = c
  BY <1>5, ChainComesFrom
<1>7. b \in Nat
  BY <1>1
<1> HIDE DEF Fine
<1>8. \A d, e \in C : d < e /\ e < c => Fine(d, e)
  <2>1. \A e \in C : e < c => e \notin T
    BY <1>1, <1>3, <1>5
  <2> QED
    BY <2>1 DEF T
<1>9. CASE b = a
  <2>1. Fine(a, c)
    BY <1>5, <1>6, <1>9 DEF Fine
  <2> QED
    BY <1>4, <2>1
<1>10. CASE a < b
  <2>1. Fine(a, b)
    BY <1>6, <1>8, <1>10
  <2>2. ~IsLast(bytes, notes, k, a) /\ GoesTo(bytes, notes, k, a) <= b
    BY <2>1 DEF Fine
  <2>3. GoesTo(bytes, notes, k, a) \in Nat
    <3>1. Leads(bytes, notes, k, a, GoesTo(bytes, notes, k, a))
      BY <2>2, ChainGoesOn
    <3> QED
      BY <1>1, <3>1 DEF Leads
  <2>4. Fine(a, c)
    BY <1>5, <1>6, <1>7, <2>2, <2>3 DEF Fine
  <2> QED
    BY <1>4, <2>4
<1>11. CASE b < a
  <2>1. Fine(b, a)
    BY <1>4, <1>8, <1>11
  <2>2. c <= a
    BY <1>6, <2>1 DEF Fine
  <2> QED
    BY <1>4, <1>5, <2>2
<1> QED
  BY <1>5, <1>7, <1>9, <1>10, <1>11

(* What holds at a node of the way, and goes on to the next, holds of all  *)
(* that come later.                                                        *)
LEMMA ChainInduction ==
  ASSUME NEW in, NEW bytes, NEW notes, IsTrieOf(in, bytes, notes), NEW k,
         NEW a \in Chain(notes, k), NEW P, a \in P,
         \A b \in Chain(notes, k) :
           a <= b /\ b \in P /\ ~IsLast(bytes, notes, k, b) =>
             GoesTo(bytes, notes, k, b) \in P
  PROVE  \A c \in Chain(notes, k) : a <= c => c \in P
<1> DEFINE C == Chain(notes, k)
           T == {c \in C : a <= c /\ c \notin P}
<1> SUFFICES ASSUME T # {} PROVE FALSE
  OBVIOUS
<1>1. \A b \in C : b \in Nat /\ b >= 2
  BY SpansTyped DEF Chain
<1>2. T \subseteq Nat
  BY <1>1
<1> HIDE DEF T
<1>3. PICK c \in T : \A d \in T : c <= d
  BY <1>2, LeastNumber
<1>4. c \in C /\ a <= c /\ c \notin P /\ c # a /\ c \in Nat /\ a \in Nat
  BY <1>1, <1>3 DEF T
<1>5. c # 2 /\ a < c
  BY <1>1, <1>4
<1>6. PICK b \in C : /\ b < c /\ ~IsLast(bytes, notes, k, b)
                     /\ GoesTo(bytes, notes, k, b) = c
  BY <1>4, <1>5, ChainComesFrom
<1>7. b \in Nat
  BY <1>1
<1>8. CASE b < a
  <2>1. GoesTo(bytes, notes, k, b) <= a
    BY <1>8, ChainIsOrdered
  <2> QED
    BY <1>4, <1>5, <1>6, <2>1
<1>9. CASE a <= b
  <2>1. b \notin T
    BY <1>3, <1>4, <1>6, <1>7
  <2>2. b \in P
    BY <1>9, <2>1 DEF T
  <2> QED
    BY <1>4, <1>6, <1>9, <2>2
<1> QED
  BY <1>4, <1>7, <1>8, <1>9

(* The leaf of a suggestion ends its way. *)
LEMMA LeafIsLast ==
  ASSUME NEW in, NEW bytes, NEW notes, IsTrieOf(in, bytes, notes),
         NEW d, NEW k, LeafOf(bytes, notes, d, k)
  PROVE  /\ d \in Chain(notes, k)
         /\ IsLast(bytes, notes, k, d)
         /\ \A c \in Chain(notes, k) :
              /\ c <= d
              /\ c # d => ~IsLast(bytes, notes, k, c) /\ GoesTo(bytes, notes, k, c) <= d
<1>1. d \in DOMAIN notes /\ bytes[d].leaf /\ notes[d].below = {k}
  BY DEF LeafOf
<1>2. NotedAt(in, bytes, notes, d)
  BY <1>1, TrieIsRead, NotedNode
<1>3. notes[d].below \subseteq notes[d].on
  BY <1>2 DEF NotedAt, Follows
<1>4. d \in Chain(notes, k) /\ IsLast(bytes, notes, k, d)
  BY <1>1, <1>3 DEF Chain, IsLast
<1>5. ASSUME NEW c \in Chain(notes, k)
      PROVE  /\ c <= d
             /\ c # d => ~IsLast(bytes, notes, k, c) /\ GoesTo(bytes, notes, k, c) <= d
  <2>1. c \in Nat /\ d \in Nat
    BY <1>1, SpansTyped DEF Chain
  <2>2. ~(d < c)
    BY <1>4, ChainIsOrdered
  <2>3. c < d => ~IsLast(bytes, notes, k, c) /\ GoesTo(bytes, notes, k, c) <= d
    BY <1>4, ChainIsOrdered
  <2> QED
    BY <2>1, <2>2, <2>3
<1> QED
  BY <1>4, <1>5

(* No suggestion has two. *)
LEMMA LeafIsOne ==
  ASSUME NEW in, NEW bytes, NEW notes, IsTrieOf(in, bytes, notes),
         NEW k, NEW d, LeafOf(bytes, notes, d, k), NEW e, LeafOf(bytes, notes, e, k)
  PROVE  d = e
<1>1. d \in Chain(notes, k) /\ e \in Chain(notes, k) /\ e <= d
  BY LeafIsLast
<1>2. d <= e
  BY <1>1, LeafIsLast
<1>3. d \in Nat /\ e \in Nat
  BY <1>1, SpansTyped DEF Chain
<1> QED
  BY <1>1, <1>2, <1>3

(* The way does not leave the subtries of a node and its later siblings. *)
LEMMA ChainStaysInside ==
  ASSUME NEW in, NEW bytes, NEW notes, IsTrieOf(in, bytes, notes), NEW k,
         NEW a \in Chain(notes, k), NEW c \in Chain(notes, k), a <= c
  PROVE  c + notes[c].all <= a + notes[a].all
<1> DEFINE P == {b \in Chain(notes, k) : b + notes[b].all <= a + notes[a].all}
<1>1. \A b \in Chain(notes, k) : b \in Nat /\ notes[b].all \in Nat
  BY SpansTyped DEF Chain
<1>2. a \in P
  BY <1>1
<1>3. ASSUME NEW b \in Chain(notes, k), a <= b, b \in P, ~IsLast(bytes, notes, k, b)
      PROVE  GoesTo(bytes, notes, k, b) \in P
  <2> DEFINE g == GoesTo(bytes, notes, k, b)
  <2>1. Leads(bytes, notes, k, b, g)
    BY <1>3, ChainGoesOn
  <2>2. g \in Chain(notes, k) /\ g + notes[g].all <= b + notes[b].all
    BY <2>1 DEF Leads
  <2> HIDE DEF g
  <2>3. /\ g + notes[g].all \in Nat /\ b + notes[b].all \in Nat
        /\ a + notes[a].all \in Nat
    BY <1>1, <2>2
  <2>4. b + notes[b].all <= a + notes[a].all
    BY <1>3
  <2>5. g \in P
    BY <2>2, <2>3, <2>4
  <2> QED
    BY <2>5 DEF g
<1> HIDE DEF P
<1>4. c \in P
  BY <1>2, <1>3, ChainInduction
<1> QED
  BY <1>4 DEF P

(* Below a node it stays in its own subtrie. *)
LEMMA LeafIsInside ==
  ASSUME NEW in, NEW bytes, NEW notes, IsTrieOf(in, bytes, notes),
         NEW d, NEW k, LeafOf(bytes, notes, d, k),
         NEW a \in DOMAIN notes, k \in notes[a].below, a # d
  PROVE  /\ ~bytes[a].leaf
         /\ a + notes[a].kids <= d
         /\ d < a + notes[a].stop
<1>1. NotedAt(in, bytes, notes, a)
  BY TrieIsRead, NotedNode
<1>2. a \in Chain(notes, k)
  BY <1>1 DEF NotedAt, Follows, Chain
<1>3. ~IsLast(bytes, notes, k, a) /\ GoesTo(bytes, notes, k, a) <= d
  BY <1>2, LeafIsLast
<1> DEFINE c == a + notes[a].kids
<1>4. GoesTo(bytes, notes, k, a) = c
  BY DEF GoesTo
<1>5. Leads(bytes, notes, k, a, c)
  BY <1>2, <1>3, <1>4, ChainGoesOn
<1>6. c \in Chain(notes, k) /\ c + notes[c].all = a + notes[a].stop /\ c <= d
  BY <1>3, <1>4, <1>5 DEF Leads
<1> HIDE DEF c
<1>7. d \in Chain(notes, k)
  BY LeafIsLast
<1>8. d + notes[d].all <= c + notes[c].all
  BY <1>6, <1>7, ChainStaysInside
<1>9. /\ d \in Nat /\ notes[d].all \in Nat /\ notes[d].stop <= notes[d].all
      /\ notes[d].kids <= notes[d].stop /\ notes[d].end <= notes[d].kids
      /\ NodeWidth(bytes[d]) <= notes[d].end /\ NodeWidth(bytes[d]) \in Nat \ {0}
      /\ notes[d].stop \in Nat /\ notes[d].kids \in Nat /\ notes[d].end \in Nat
  BY <1>7, SpansTyped DEF Chain
<1>10. notes[d].all >= 1
  BY <1>9
<1>11. a \in Nat /\ notes[a].stop \in Nat /\ c \in Nat /\ notes[c].all \in Nat
  BY <1>6, SpansTyped DEF Chain
<1>12. d < a + notes[a].stop
  BY <1>6, <1>8, <1>9, <1>10, <1>11
<1> QED
  BY <1>3, <1>6, <1>12 DEF IsLast, c

-----------------------------------------------------------------------------
(* What an iterator can still get to.                                      *)

(* The steps from a node with a note lead to suggestions that are on it. *)
LEMMA StepsStayOn ==
  ASSUME NEW in, NEW bytes, NEW notes, IsTrieOf(in, bytes, notes),
         NEW a \in DOMAIN notes, NEW s \in Steps(bytes, PosAt(notes, a))
  PROVE  \E b \in DOMAIN notes : s = PosAt(notes, b) /\ notes[b].on \subseteq notes[a].on
<1> DEFINE b == a + NodeWidth(bytes[a])
           c == a + notes[a].kids
<1>1. NotedAt(in, bytes, notes, a)
  BY TrieIsRead, NotedNode
<1>2. PosAt(notes, a).current = NodeAt(notes, a)
  BY DEF PosAt
<1>3. AtNode(s) /\ (s = NextSibling(bytes, PosAt(notes, a))
                    \/ s = VisitChildren(bytes, NodeAt(notes, a)))
  BY <1>2 DEF Steps
<1>4. CASE s = NextSibling(bytes, PosAt(notes, a))
  <2>1. NodeWidth(bytes[a]) < notes[a].end /\ b \in DOMAIN notes /\ s = PosAt(notes, b)
    BY <1>3, <1>4, TrieIsRead, NextNoted
  <2>2. notes[a].on = notes[a].below \cup notes[b].on
    BY <1>1, <2>1 DEF NotedAt, Follows
  <2> HIDE DEF b
  <2> QED
    BY <2>1, <2>2
<1>5. CASE s = VisitChildren(bytes, NodeAt(notes, a))
  <2>1. ~bytes[a].leaf
    <3>1. bytes[a].leaf => VisitChildren(bytes, NodeAt(notes, a)) = NoSiblings
      BY TrieIsRead, PositionsAreTyped DEF VisitChildren
    <3> QED
      BY <1>3, <1>5, <3>1, NoNodeThere
  <2>2. /\ c \in DOMAIN notes /\ s = PosAt(notes, c)
        /\ Begins(bytes[c], notes[c], notes[a].rank,
                  notes[a].depth + Len(bytes[a].label), notes[a].below)
    BY <1>5, <2>1, TrieIsRead, ChildrenNoted
  <2>3. notes[c].on = notes[a].below
    BY <2>2 DEF Begins
  <2>4. notes[a].below \subseteq notes[a].on
    BY <1>1 DEF NotedAt, Follows
  <2> HIDE DEF c
  <2> QED
    BY <2>2, <2>3, <2>4
<1> QED
  BY <1>3, <1>4, <1>5

AddressesOf(positions) == {x.current.data : x \in positions}

(* The leaf of a suggestion is among the positions at some steps from a    *)
(* node with a note if it is on that node, and only then.                  *)
LEMMA WithinOn ==
  ASSUME NEW in, NEW bytes, NEW notes, IsTrieOf(in, bytes, notes),
         NEW within, IsWithin(bytes, within), NEW n \in Nat,
         NEW a \in DOMAIN notes, NEW d, NEW k, LeafOf(bytes, notes, d, k),
         d \in AddressesOf(within[n][PosAt(notes, a)])
  PROVE  k \in notes[a].on
<1> DEFINE Fine(m) ==
             \A c \in DOMAIN notes : \A x \in within[m][PosAt(notes, c)] :
               \E b \in DOMAIN notes : /\ x = PosAt(notes, b)
                                      /\ notes[b].on \subseteq notes[c].on
           P == {m \in Nat : Fine(m)}
<1>1. \A c \in DOMAIN notes : PosAt(notes, c) \in Siblings
  BY TrieIsRead, PositionsAreTyped
<1>2. 0 \in P
  BY <1>1 DEF IsWithin
<1>3. ASSUME NEW m \in P PROVE m + 1 \in P
  <2> SUFFICES ASSUME NEW c \in DOMAIN notes, NEW x \in within[m + 1][PosAt(notes, c)]
               PROVE  \E b \in DOMAIN notes : /\ x = PosAt(notes, b)
                                             /\ notes[b].on \subseteq notes[c].on
    OBVIOUS
  <2>1. within[m + 1][PosAt(notes, c)] =
          {PosAt(notes, c)}
            \cup UNION {within[m][s] : s \in Steps(bytes, PosAt(notes, c))}
    BY <1>1 DEF IsWithin
  <2>2. CASE x = PosAt(notes, c)
    BY <2>2
  <2>3. ASSUME NEW s \in Steps(bytes, PosAt(notes, c)), x \in within[m][s]
        PROVE  \E b \in DOMAIN notes : /\ x = PosAt(notes, b)
                                      /\ notes[b].on \subseteq notes[c].on
    <3>1. PICK e \in DOMAIN notes : s = PosAt(notes, e) /\ notes[e].on \subseteq notes[c].on
      BY StepsStayOn
    <3>2. PICK b \in DOMAIN notes : x = PosAt(notes, b) /\ notes[b].on \subseteq notes[e].on
      BY <2>3, <3>1
    <3> QED
      BY <3>1, <3>2
  <2> QED
    BY <2>1, <2>2, <2>3
<1>4. P = Nat
  <2>1. P \subseteq Nat
    OBVIOUS
  <2> HIDE DEF P
  <2> QED
    BY <1>2, <1>3, <2>1, AllNumbers
<1>5. PICK x \in within[n][PosAt(notes, a)] : x.current.data = d
  BY DEF AddressesOf
<1>6. PICK b \in DOMAIN notes : x = PosAt(notes, b) /\ notes[b].on \subseteq notes[a].on
  BY <1>4
<1>7. b = d
  BY <1>5, <1>6 DEF PosAt, NodeAt
<1>8. k \in notes[d].on
  BY LeafIsLast DEF Chain
<1> QED
  BY <1>6, <1>7, <1>8

LEMMA OnIsWithin ==
  ASSUME NEW in, NEW bytes, NEW notes, IsTrieOf(in, bytes, notes),
         NEW within, IsWithin(bytes, within), NEW n \in Nat,
         NEW a \in DOMAIN notes, NEW d, NEW k, LeafOf(bytes, notes, d, k),
         k \in notes[a].on, d <= a + n
  PROVE  d \in AddressesOf(within[n][PosAt(notes, a)])
<1> DEFINE Reached(m) == within[m][PosAt(notes, a)]
           P == {m \in Nat : \A b \in Chain(notes, k) :
                               a <= b /\ b <= a + m => PosAt(notes, b) \in Reached(m)}
<1>1. \A b \in Chain(notes, k) : b \in Nat /\ b >= 2
  BY SpansTyped DEF Chain
<1>2. a \in Chain(notes, k) /\ a \in Nat /\ a >= 2
  BY <1>1 DEF Chain
<1>3. PosAt(notes, a) \in Siblings
  BY TrieIsRead, PositionsAreTyped
<1>4. \A m \in Nat : /\ Reached(m) \subseteq Reached(m + 1)
                     /\ \A y \in Reached(m) : Steps(bytes, y) \subseteq Reached(m + 1)
  BY <1>3, WithinGrows
<1>5. Reached(0) = {PosAt(notes, a)}
  BY <1>3 DEF IsWithin
<1> HIDE DEF Reached
<1>6. 0 \in P
  <2>1. \A b \in Chain(notes, k) : a <= b /\ b <= a + 0 => b = a
    BY <1>1, <1>2
  <2> QED
    BY <1>5, <2>1
<1>7. ASSUME NEW m \in P PROVE m + 1 \in P
  <2>1. m \in Nat /\ m + 1 \in Nat
    OBVIOUS
  <2>2. ASSUME NEW b \in Chain(notes, k), a <= b, b <= a + (m + 1)
        PROVE  PosAt(notes, b) \in Reached(m + 1)
    <3>1. b \in Nat
      BY <1>1
    <3>2. CASE b <= a + m
      BY <1>4, <2>1, <2>2, <3>2
    <3>3. CASE ~(b <= a + m)
      <4>1. b = a + (m + 1) /\ b # 2 /\ a < b
        BY <1>2, <2>1, <2>2, <3>1, <3>3
      <4>2. PICK e \in Chain(notes, k) :
              e < b /\ ~IsLast(bytes, notes, k, e) /\ GoesTo(bytes, notes, k, e) = b
        <5>1. b # 2
          BY <4>1
        <5> HIDE <4>1
        <5> QED
          BY <5>1, ChainComesFrom
      <4>3. e \in Nat
        BY <1>1
      <4>4. a <= e
        <5>1. e < a => GoesTo(bytes, notes, k, e) <= a
          BY <1>2, ChainIsOrdered
        <5> QED
          BY <1>2, <3>1, <4>1, <4>2, <4>3, <5>1
      <4>5. e <= a + m
        BY <1>2, <2>1, <4>1, <4>2, <4>3
      <4>6. PosAt(notes, e) \in Reached(m)
        BY <4>4, <4>5
      <4>7. PosAt(notes, b) \in Steps(bytes, PosAt(notes, e))
        BY <4>2, ChainGoesOn DEF Leads
      <4> QED
        BY <1>4, <2>1, <4>6, <4>7
    <3> QED
      BY <3>2, <3>3
  <2> QED
    BY <2>1, <2>2
<1>8. P = Nat
  <2>1. P \subseteq Nat
    OBVIOUS
  <2> HIDE DEF P
  <2> QED
    BY <1>6, <1>7, <2>1, AllNumbers
<1>9. d \in Chain(notes, k) /\ a <= d
  BY <1>2, LeafIsLast
<1>10. PosAt(notes, d) \in Reached(n)
  BY <1>8, <1>9
<1>11. PosAt(notes, d).current.data = d
  BY DEF PosAt, NodeAt
<1>12. d \in AddressesOf(Reached(n))
  BY <1>10, <1>11 DEF AddressesOf
<1> QED
  BY <1>12 DEF Reached

(* The leaves of a trie, from left to right, are those of its suggestions. *)
LEMMA LeavesOfTrie ==
  ASSUME NEW in, IsInput(in), NEW bytes, NEW notes, IsTrieOf(in, bytes, notes)
  PROVE  Paired(Leaves(bytes, Root(bytes), <<>>), LeafRecord, DOMAIN in.suggestions,
                LeafEnds(in, bytes, notes, <<>>, 0))
<1> DEFINE root == Root(bytes)
<1>1. /\ root \in NodeView /\ root.data = 1 /\ ~IsLeaf(bytes, root)
      /\ 2 \in DOMAIN notes /\ notes[2].depth = 0
      /\ notes[2].on = DOMAIN in.suggestions
      /\ VisitChildren(bytes, root) = PosAt(notes, 2)
  BY RootChildren
<1>2. AtNode(Only(root))
  BY RootSteps
<1>3. bytes[1] = RootHead /\ NodeWidth(RootHead) = 1
  BY RootBytes DEF IsTrieOf
<1>4. Label(bytes, root) = <<>>
  BY <1>1, <1>3 DEF Label, RootHead
<1> HIDE DEF root
<1>5. <<>> \in Seq(Char) /\ <<>> \o <<>> = <<>>
  OBVIOUS
<1>6. Label(bytes, root) \in Seq(Char) /\ NodeWidth(bytes[root.data]) \in Nat
  BY <1>1, <1>3, <1>4, <1>5
<1>7. Paired(Leaves(bytes, root, <<>>), LeafRecord, notes[2].on,
             LeafEnds(in, bytes, notes, <<>> \o Label(bytes, root), notes[2].depth))
  BY <1>1, <1>2, <1>5, <1>6, TrieIsRead, ChildLeaves
<1> QED
  BY <1>1, <1>4, <1>5, <1>7 DEF root

LEMMA LeafExists ==
  ASSUME NEW in, IsInput(in), NEW bytes, NEW notes, IsTrieOf(in, bytes, notes),
         NEW k \in DOMAIN in.suggestions
  PROVE  \E d : LeafOf(bytes, notes, d, k)
<1> DEFINE leaves == Leaves(bytes, Root(bytes), <<>>)
           R == LeafEnds(in, bytes, notes, <<>>, 0)
<1>1. PICK f : Pairs(leaves, LeafRecord, DOMAIN in.suggestions, R, f)
  BY LeavesOfTrie DEF Paired
<1> HIDE DEF leaves, R
<1>2. PICK i \in 1 .. Len(leaves) : f[i] = k
  BY <1>1 DEF Pairs
<1>3. <<leaves[i], f[i]>> \in R
  BY <1>1 DEF Pairs
<1>4. LeafOf(bytes, notes, leaves[i].data, k)
  BY <1>2, <1>3 DEF R, LeafEnds
<1> QED
  BY <1>4

LEMMA RanksOfAll ==
  ASSUME NEW in, IsInput(in), NEW bytes, NEW notes, IsTrieOf(in, bytes, notes),
         NEW k \in DOMAIN in.suggestions
  PROVE  in.ranks[k] \in Nat
<1>1. PICK d : LeafOf(bytes, notes, d, k)
  BY LeafExists
<1>2. d \in DOMAIN notes /\ k \in notes[d].below
  BY <1>1 DEF LeafOf
<1>3. Fits(in, bytes[d], notes[d])
  BY <1>2, TrieIsRead, NotedNode
<1>4. k \in DOMAIN in.ranks
  BY <1>2, <1>3 DEF Fits, Carries
<1> QED
  BY <1>4 DEF IsInput

-----------------------------------------------------------------------------
(* The iterators over siblings that a visit of the leaves works with.      *)

Alone(bytes, node) == [current |-> node, end |-> Skip(bytes, node.data)]

IsItem(bytes, notes, it) ==
  \/ it = Alone(bytes, Root(bytes))
  \/ \E a \in DOMAIN notes :
       it = PosAt(notes, a) \/ it = Alone(bytes, NodeAt(notes, a))

(* The suggestions that it will get to, and those below its first node. *)
Own(in, notes, it) ==
  IF it.current.data = 1 THEN DOMAIN in.suggestions
  ELSE IF it = PosAt(notes, it.current.data) THEN notes[it.current.data].on
  ELSE notes[it.current.data].below

Below(in, notes, it) ==
  IF it.current.data = 1 THEN DOMAIN in.suggestions
  ELSE notes[it.current.data].below

(* The rest of an iteration is one over the suggestions B. *)
IsRest(in, bytes, notes, it, B) ==
  /\ it \in Siblings
  /\ IF AtNode(it)
     THEN IsItem(bytes, notes, it) /\ Own(in, notes, it) = B
     ELSE B = {}

LEMMA OwnOfRoot ==
  ASSUME NEW in, NEW bytes, NEW notes, IsTrieOf(in, bytes, notes)
  PROVE  LET it == Alone(bytes, Root(bytes))
         IN  /\ it.current = Root(bytes) /\ it.current.data = 1
             /\ it \in Siblings /\ AtNode(it) /\ it.end = 2
             /\ Own(in, notes, it) = DOMAIN in.suggestions
             /\ Below(in, notes, it) = DOMAIN in.suggestions
<1>1. Root(bytes) \in NodeView /\ Root(bytes).data = 1
  BY RootChildren
<1>2. bytes[1] = RootHead /\ NodeWidth(RootHead) = 1
  BY RootBytes DEF IsTrieOf
<1>3. Skip(bytes, 1) = 2
  BY <1>2 DEF Skip
<1>4. Alone(bytes, Root(bytes)) = [current |-> Root(bytes), end |-> 2]
  BY <1>1, <1>3 DEF Alone
<1> QED
  BY <1>1, <1>4 DEF Siblings, AtNode, NullAddress, Own, Below

LEMMA OwnOfPos ==
  ASSUME NEW in, NEW bytes, NEW notes, IsTrieOf(in, bytes, notes),
         NEW a \in DOMAIN notes
  PROVE  LET it == PosAt(notes, a)
         IN  /\ it.current = NodeAt(notes, a) /\ it.current.data = a
             /\ it \in Siblings /\ AtNode(it)
             /\ Own(in, notes, it) = notes[a].on
             /\ Below(in, notes, it) = notes[a].below
<1>1. a \in Nat /\ a >= 2
  BY SpansTyped
<1>2. PosAt(notes, a) \in Siblings /\ AtNode(PosAt(notes, a))
  BY TrieIsRead, PositionsAreTyped
<1>3. /\ PosAt(notes, a).current = NodeAt(notes, a)
      /\ PosAt(notes, a).current.data = a
  BY DEF PosAt, NodeAt
<1> QED
  BY <1>1, <1>2, <1>3 DEF Own, Below

LEMMA OwnOfAlone ==
  ASSUME NEW in, NEW bytes, NEW notes, IsTrieOf(in, bytes, notes),
         NEW a \in DOMAIN notes
  PROVE  LET it == Alone(bytes, NodeAt(notes, a))
         IN  /\ it.current = NodeAt(notes, a) /\ it.current.data = a
             /\ it \in Siblings /\ AtNode(it)
             /\ it.end = a + NodeWidth(bytes[a])
             /\ Own(in, notes, it) = notes[a].below
             /\ Below(in, notes, it) = notes[a].below
<1> DEFINE w == NodeWidth(bytes[a])
           it == Alone(bytes, NodeAt(notes, a))
<1>1. a \in Nat /\ a >= 2 /\ w \in Nat \ {0} /\ notes[a].end \in Nat
  BY SpansTyped
<1>2. NodeAt(notes, a) \in NodeView
  BY TrieIsRead, PositionsAreTyped
<1>3. NodeAt(notes, a).data = a
  BY DEF NodeAt
<1>4. it.current = NodeAt(notes, a) /\ it.end = a + w /\ it.current.data = a
  BY <1>3 DEF Alone, Skip
<1>5. it \in Siblings /\ AtNode(it)
  BY <1>1, <1>2, <1>3 DEF Alone, Skip, Siblings, AtNode, NullAddress
<1>6. ASSUME it = PosAt(notes, a) PROVE notes[a].on = notes[a].below
  <2>1. PosAt(notes, a).end = a + notes[a].end
    BY DEF PosAt
  <2>2. notes[a].end = w
    <3> DEFINE e == notes[a].end
    <3>1. a + e = a + w /\ e \in Nat
      BY <1>1, <1>4, <1>6, <2>1
    <3> HIDE DEF e, w
    <3>2. e = w
      BY <1>1, <3>1
    <3> QED
      BY <3>2 DEF e, w
  <2>3. NotedAt(in, bytes, notes, a)
    BY TrieIsRead, NotedNode
  <2> QED
    BY <1>1, <2>2, <2>3 DEF NotedAt
<1> HIDE DEF it
<1>7. Own(in, notes, it) = notes[a].below /\ Below(in, notes, it) = notes[a].below
  BY <1>1, <1>4, <1>6 DEF Own, Below
<1> QED
  BY <1>4, <1>5, <1>7 DEF it

(* The suggestions on and below a node with a note. *)
LEMMA NotedOwn ==
  ASSUME NEW in, NEW bytes, NEW notes, IsTrieOf(in, bytes, notes),
         NEW a \in DOMAIN notes
  PROVE  /\ notes[a].below # {} /\ notes[a].below \subseteq notes[a].on
         /\ notes[a].on \subseteq DOMAIN in.suggestions
         /\ \A k \in notes[a].on : notes[a].rank <= in.ranks[k]
<1>1. NotedAt(in, bytes, notes, a) /\ Fits(in, bytes[a], notes[a])
  BY TrieIsRead, NotedNode
<1>2. notes[a].below # {} /\ \A k \in notes[a].on : notes[a].rank <= in.ranks[k]
  BY <1>1 DEF Fits, Carries
<1>3. notes[a].below \subseteq notes[a].on
  BY <1>1 DEF NotedAt, Follows
<1>4. notes[a].on \subseteq DOMAIN in.suggestions
  <2> DEFINE D == DOMAIN in.suggestions
             T == {c \in DOMAIN notes : ~(notes[c].on \subseteq D)}
  <2> SUFFICES ASSUME T # {} PROVE FALSE
    OBVIOUS
  <2>1. \A c \in DOMAIN notes : c \in Nat /\ c >= 2
    BY SpansTyped
  <2>2. T \subseteq Nat
    BY <2>1
  <2> HIDE DEF T
  <2>3. PICK c \in T : \A e \in T : c <= e
    BY <2>2, LeastNumber
  <2>4. c \in DOMAIN notes /\ ~(notes[c].on \subseteq D) /\ c \in Nat
    BY <2>1, <2>3 DEF T
  <2>5. c # 2
    BY <2>4, RootChildren
  <2>6. PICK k \in notes[c].on : k \notin D
    BY <2>4
  <2>7. c \in Chain(notes, k)
    BY <2>4, <2>6 DEF Chain
  <2>8. PICK b \in Chain(notes, k) : b < c
    BY <2>5, <2>7, ChainComesFrom
  <2>9. b \in DOMAIN notes /\ k \in notes[b].on
    BY <2>8 DEF Chain
  <2>10. b \in Nat /\ b \in T
    BY <2>1, <2>6, <2>9 DEF T
  <2> QED
    BY <2>3, <2>4, <2>8, <2>10
<1> QED
  BY <1>2, <1>3, <1>4

(* What an item stands for. *)
LEMMA ItemTyped ==
  ASSUME NEW in, IsInput(in), NEW bytes, NEW notes, IsTrieOf(in, bytes, notes),
         NEW it, IsItem(bytes, notes, it)
  PROVE  /\ it \in Siblings /\ AtNode(it)
         /\ Own(in, notes, it) \subseteq DOMAIN in.suggestions
         /\ Below(in, notes, it) \subseteq Own(in, notes, it)
         /\ Below(in, notes, it) # {}
         /\ \A k \in Own(in, notes, it) :
              it.current.rank <= in.ranks[k] /\ in.ranks[k] \in Nat
         /\ it.current.data \in Nat /\ it.current.rank \in Nat
<1>1. \A k \in DOMAIN in.suggestions : in.ranks[k] \in Nat
  BY RanksOfAll
<1>2. CASE it = Alone(bytes, Root(bytes))
  <2>1. /\ it.current = Root(bytes) /\ it \in Siblings /\ AtNode(it)
        /\ Own(in, notes, it) = DOMAIN in.suggestions
        /\ Below(in, notes, it) = DOMAIN in.suggestions
    BY <1>2, OwnOfRoot
  <2>2. 2 \in DOMAIN notes /\ notes[2].on = DOMAIN in.suggestions
    BY RootChildren
  <2>3. DOMAIN in.suggestions # {}
    BY <2>2, NotedOwn
  <2>4. Root(bytes).rank = 0
    <3>1. bytes[1] = RootHead
      BY DEF IsTrieOf
    <3> QED
      BY <3>1 DEF Root, Node, RootHead
  <2> HIDE <1>2
  <2>5. it.current.data \in Nat /\ it.current.rank \in Nat
    BY <2>1 DEF Siblings, NodeView
  <2> QED
    BY <1>1, <2>1, <2>3, <2>4, <2>5
<1>3. ASSUME NEW a \in DOMAIN notes,
             it = PosAt(notes, a) \/ it = Alone(bytes, NodeAt(notes, a))
      PROVE  /\ it \in Siblings /\ AtNode(it)
             /\ Own(in, notes, it) \subseteq DOMAIN in.suggestions
             /\ Below(in, notes, it) \subseteq Own(in, notes, it)
             /\ Below(in, notes, it) # {}
             /\ \A k \in Own(in, notes, it) :
                  it.current.rank <= in.ranks[k] /\ in.ranks[k] \in Nat
             /\ it.current.data \in Nat /\ it.current.rank \in Nat
  <2>1. /\ it \in Siblings /\ AtNode(it) /\ it.current = NodeAt(notes, a)
        /\ Own(in, notes, it) \in {notes[a].on, notes[a].below}
        /\ Below(in, notes, it) = notes[a].below
    BY <1>3, OwnOfPos, OwnOfAlone
  <2>2. it.current.rank = notes[a].rank
    BY <2>1 DEF NodeAt
  <2>3. /\ notes[a].below # {} /\ notes[a].below \subseteq notes[a].on
        /\ notes[a].on \subseteq DOMAIN in.suggestions
        /\ \A k \in notes[a].on : notes[a].rank <= in.ranks[k]
    BY NotedOwn
  <2>4. it.current.data \in Nat /\ it.current.rank \in Nat
    BY <2>1 DEF Siblings, NodeView
  <2> QED
    BY <1>1, <2>1, <2>2, <2>3, <2>4
<1> QED
  BY <1>2, <1>3 DEF IsItem

(* ++ leaves what is not below the first node. *)
LEMMA ItemNext ==
  ASSUME NEW in, NEW bytes, NEW notes, IsTrieOf(in, bytes, notes),
         NEW it, IsItem(bytes, notes, it)
  PROVE  IsRest(in, bytes, notes, NextSibling(bytes, it),
                Own(in, notes, it) \ Below(in, notes, it))
<1> DEFINE next == NextSibling(bytes, it)
<1>1. ASSUME it \in Siblings, it.current.data \in Nat, it.end \in Nat,
             Skip(bytes, it.current.data) = it.end
      PROVE  next \in Siblings /\ ~AtNode(next)
  <2>1. ~(Skip(bytes, it.current.data) < it.end)
    BY <1>1
  <2>2. next = [it EXCEPT !.current = NullNode]
    BY <2>1 DEF NextSibling
  <2>3. NullNode \in NodeView /\ NullNode.data = NullAddress
    BY DEF NullNode, NodeView, NullAddress
  <2>4. next = [current |-> NullNode, end |-> it.end]
    BY <1>1, <2>2 DEF Siblings
  <2> QED
    BY <1>1, <2>3, <2>4 DEF Siblings, AtNode
<1>2. CASE it = Alone(bytes, Root(bytes))
  <2>1. /\ it \in Siblings /\ it.current.data = 1 /\ it.end = 2
        /\ Own(in, notes, it) = Below(in, notes, it)
    BY <1>2, OwnOfRoot
  <2>2. Skip(bytes, 1) = 2
    BY RootBytes DEF IsTrieOf, Skip
  <2>3. next \in Siblings /\ ~AtNode(next)
    BY <1>1, <2>1, <2>2
  <2> HIDE <1>2 DEF next
  <2> QED
    BY <2>1, <2>3 DEF IsRest, next
<1>3. ASSUME NEW a \in DOMAIN notes, it = Alone(bytes, NodeAt(notes, a))
      PROVE  IsRest(in, bytes, notes, next, Own(in, notes, it) \ Below(in, notes, it))
  <2>1. /\ it \in Siblings /\ it.current.data = a /\ it.end = a + NodeWidth(bytes[a])
        /\ Own(in, notes, it) = Below(in, notes, it)
    BY <1>3, OwnOfAlone
  <2>2. a \in Nat /\ NodeWidth(bytes[a]) \in Nat /\ Skip(bytes, a) = a + NodeWidth(bytes[a])
    BY SpansTyped DEF Skip
  <2> HIDE <1>3
  <2>3. next \in Siblings /\ ~AtNode(next)
    BY <1>1, <2>1, <2>2
  <2> HIDE DEF next
  <2> QED
    BY <2>1, <2>3 DEF IsRest
<1>4. ASSUME NEW a \in DOMAIN notes, it = PosAt(notes, a)
      PROVE  IsRest(in, bytes, notes, next, Own(in, notes, it) \ Below(in, notes, it))
  <2> DEFINE b == a + NodeWidth(bytes[a])
  <2>1. Own(in, notes, it) = notes[a].on /\ Below(in, notes, it) = notes[a].below
    BY <1>4, OwnOfPos
  <2>2. NotedAt(in, bytes, notes, a)
    BY TrieIsRead, NotedNode
  <2>3. CASE NodeWidth(bytes[a]) < notes[a].end
    <3>1. b \in DOMAIN notes /\ next = PosAt(notes, b)
      BY <1>4, <2>3, TrieIsRead, NextNoted
    <3>2. notes[a].on = notes[a].below \cup notes[b].on
            /\ notes[a].below \cap notes[b].on = {}
      BY <2>2, <2>3 DEF NotedAt, Follows
    <3>3. /\ next \in Siblings /\ AtNode(next)
          /\ Own(in, notes, next) = notes[b].on
      BY <3>1, OwnOfPos
    <3>4. IsItem(bytes, notes, next)
      BY <3>1 DEF IsItem
    <3> HIDE <1>4 DEF next, b
    <3>5. notes[b].on = notes[a].on \ notes[a].below
      BY <3>2
    <3> QED
      BY <2>1, <3>3, <3>4, <3>5 DEF IsRest
  <2>4. CASE ~(NodeWidth(bytes[a]) < notes[a].end)
    <3>1. next \in Siblings /\ ~AtNode(next)
      BY <1>4, <2>4, TrieIsRead, NextNoted
    <3>2. notes[a].on = notes[a].below
      BY <2>2, <2>4 DEF NotedAt
    <3> HIDE <1>4 DEF next
    <3> QED
      BY <2>1, <3>1, <3>2 DEF IsRest
  <2> QED
    BY <2>3, <2>4
<1> QED
  BY <1>2, <1>3, <1>4 DEF IsItem

(* A leaf is that of one suggestion. *)
LEMMA ItemLeaf ==
  ASSUME NEW in, NEW bytes, NEW notes, IsTrieOf(in, bytes, notes),
         NEW it, IsItem(bytes, notes, it), IsLeaf(bytes, it.current)
  PROVE  \E k \in DOMAIN in.suggestions :
           /\ Below(in, notes, it) = {k}
           /\ LeafOf(bytes, notes, it.current.data, k)
           /\ it.current = NodeAt(notes, it.current.data)
           /\ in.ranks[k] = it.current.rank
<1>1. it # Alone(bytes, Root(bytes))
  BY RootChildren, OwnOfRoot
<1>2. PICK a \in DOMAIN notes : it = PosAt(notes, a) \/ it = Alone(bytes, NodeAt(notes, a))
  BY <1>1 DEF IsItem
<1>3. /\ it.current = NodeAt(notes, a) /\ it.current.data = a
      /\ Below(in, notes, it) = notes[a].below
  BY <1>2, OwnOfPos, OwnOfAlone
<1> HIDE <1>2
<1>4. bytes[a].leaf
  BY <1>3, TrieIsRead, PositionsAreTyped
<1>5. Fits(in, bytes[a], notes[a])
  BY TrieIsRead, NotedNode
<1>6. PICK k \in notes[a].below : notes[a].below = {k} /\ in.ranks[k] = notes[a].rank
  BY <1>4, <1>5 DEF Fits, Carries
<1>7. k \in DOMAIN in.suggestions
  BY <1>5, <1>6 DEF Fits, Carries
<1>8. LeafOf(bytes, notes, a, k)
  BY <1>4, <1>6 DEF LeafOf
<1>9. it.current.rank = notes[a].rank
  BY <1>3 DEF NodeAt
<1> QED
  BY <1>3, <1>6, <1>7, <1>8, <1>9

(* The children of another node have all that is below it. *)
LEMMA ItemChildren ==
  ASSUME NEW in, NEW bytes, NEW notes, IsTrieOf(in, bytes, notes),
         NEW it, IsItem(bytes, notes, it), ~IsLeaf(bytes, it.current)
  PROVE  \E c \in DOMAIN notes :
           /\ VisitChildren(bytes, it.current) = PosAt(notes, c)
           /\ notes[c].on = Below(in, notes, it)
<1>1. CASE it = Alone(bytes, Root(bytes))
  <2>1. it.current = Root(bytes) /\ Below(in, notes, it) = DOMAIN in.suggestions
    BY <1>1, OwnOfRoot
  <2> QED
    BY <2>1, RootChildren
<1>2. ASSUME NEW a \in DOMAIN notes, it = PosAt(notes, a) \/ it = Alone(bytes, NodeAt(notes, a))
      PROVE  \E c \in DOMAIN notes :
               /\ VisitChildren(bytes, it.current) = PosAt(notes, c)
               /\ notes[c].on = Below(in, notes, it)
  <2>1. it.current = NodeAt(notes, a) /\ Below(in, notes, it) = notes[a].below
    BY <1>2, OwnOfPos, OwnOfAlone
  <2>2. ~bytes[a].leaf
    BY <2>1, TrieIsRead, PositionsAreTyped
  <2> DEFINE c == a + notes[a].kids
  <2>3. /\ c \in DOMAIN notes
        /\ Begins(bytes[c], notes[c], notes[a].rank,
                  notes[a].depth + Len(bytes[a].label), notes[a].below)
        /\ VisitChildren(bytes, NodeAt(notes, a)) = PosAt(notes, c)
    BY <2>2, TrieIsRead, ChildrenNoted
  <2>4. notes[c].on = notes[a].below
    BY <2>3 DEF Begins
  <2> HIDE DEF c
  <2> QED
    BY <2>1, <2>3, <2>4
<1> QED
  BY <1>1, <1>2 DEF IsItem

(* Items that share no suggestion stand at different nodes. *)
LEMMA ItemsDiffer ==
  ASSUME NEW in, IsInput(in), NEW bytes, NEW notes, IsTrieOf(in, bytes, notes),
         NEW x, IsItem(bytes, notes, x), NEW y, IsItem(bytes, notes, y),
         Own(in, notes, x) \cap Own(in, notes, y) = {}
  PROVE  x.current.data # y.current.data
<1>1. /\ Below(in, notes, x) \subseteq Own(in, notes, x)
      /\ Below(in, notes, y) \subseteq Own(in, notes, y)
      /\ Below(in, notes, x) # {}
  BY ItemTyped
<1>2. x.current.data = y.current.data => Below(in, notes, x) = Below(in, notes, y)
  BY DEF Below
<1> QED
  BY <1>1, <1>2

(* An item gets to the leaves of its own suggestions and to no other. *)
LEMMA ItemReaches ==
  ASSUME NEW in, NEW bytes, NEW notes, IsTrieOf(in, bytes, notes),
         NEW it, IsItem(bytes, notes, it),
         NEW k \in DOMAIN in.suggestions, NEW d, LeafOf(bytes, notes, d, k)
  PROVE  d \in AddressesOf(PositionsFrom(bytes, it)) <=> k \in Own(in, notes, it)
<1>1. PICK within : IsReach(bytes, within)
  BY WithinExists
<1>2. IsWithin(bytes, within)
  BY <1>1 DEF IsReach
<1>3. d \in DOMAIN notes /\ notes[d].below = {k} /\ bytes[d].leaf
  BY DEF LeafOf
<1>4. d \in Nat /\ d >= 2 /\ d <= Len(bytes) /\ Len(bytes) \in Nat
  BY <1>3, SpansTyped
<1> DEFINE n == Len(bytes)
           m == Len(bytes) - 1
<1>5. n \in Nat /\ m \in Nat /\ n = m + 1
  BY <1>4
<1>6. ASSUME NEW a \in DOMAIN notes
      PROVE  /\ d \in AddressesOf(within[n][PosAt(notes, a)]) <=> k \in notes[a].on
             /\ d \in AddressesOf(within[m][PosAt(notes, a)]) <=> k \in notes[a].on
  <2>1. a \in Nat /\ a >= 2
    BY SpansTyped
  <2>2. d <= a + n /\ d <= a + m
    BY <1>4, <1>5, <2>1
  <2> HIDE DEF n, m
  <2>3. /\ d \in AddressesOf(within[n][PosAt(notes, a)]) => k \in notes[a].on
        /\ d \in AddressesOf(within[m][PosAt(notes, a)]) => k \in notes[a].on
    BY <1>2, <1>5, WithinOn
  <2>4. /\ k \in notes[a].on => d \in AddressesOf(within[n][PosAt(notes, a)])
        /\ k \in notes[a].on => d \in AddressesOf(within[m][PosAt(notes, a)])
    BY <1>2, <1>5, <2>2, OnIsWithin
  <2> QED
    BY <2>3, <2>4
<1> HIDE DEF n, m
<1>7. ASSUME AtNode(it) PROVE PositionsFrom(bytes, it) = within[n][it]
  BY <1>1, <1>7 DEF IsReach, n
<1>8. ASSUME NEW a \in DOMAIN notes, it = PosAt(notes, a)
      PROVE  d \in AddressesOf(PositionsFrom(bytes, it)) <=> k \in Own(in, notes, it)
  <2>1. AtNode(it) /\ Own(in, notes, it) = notes[a].on
    BY <1>8, OwnOfPos
  <2> QED
    BY <1>6, <1>7, <1>8, <2>1
(* One without siblings goes to its children only. *)
<1>9. ASSUME it \in Siblings, AtNode(it), ~AtNode(NextSibling(bytes, it)),
             Own(in, notes, it) = Below(in, notes, it),
             it.current.data = d <=> it.current.data = d /\ k \in Below(in, notes, it),
             IsLeaf(bytes, it.current) /\ k \in Below(in, notes, it) =>
               it.current.data = d
      PROVE  d \in AddressesOf(PositionsFrom(bytes, it)) <=> k \in Own(in, notes, it)
  <2>1. within[n][it] = {it} \cup UNION {within[m][s] : s \in Steps(bytes, it)}
    BY <1>2, <1>5, <1>9 DEF IsWithin
  <2>2. CASE IsLeaf(bytes, it.current)
    <3>1. VisitChildren(bytes, it.current) = NoSiblings
      BY <2>2 DEF VisitChildren
    <3>2. Steps(bytes, it) = {}
      BY <1>9, <3>1, NoNodeThere DEF Steps
    <3>3. within[n][it] = {it}
      BY <2>1, <3>2
    <3>4. AddressesOf(within[n][it]) = {it.current.data}
      BY <3>3 DEF AddressesOf
    <3> QED
      BY <1>7, <1>9, <2>2, <3>4
  <2>3. CASE ~IsLeaf(bytes, it.current)
    <3>1. PICK c \in DOMAIN notes :
            /\ VisitChildren(bytes, it.current) = PosAt(notes, c)
            /\ notes[c].on = Below(in, notes, it)
      BY <2>3, ItemChildren
    <3>2. PosAt(notes, c) \in Siblings /\ AtNode(PosAt(notes, c))
      BY TrieIsRead, PositionsAreTyped
    <3>3. Steps(bytes, it) = {PosAt(notes, c)}
      BY <1>9, <3>1, <3>2 DEF Steps
    <3>4. within[n][it] = {it} \cup within[m][PosAt(notes, c)]
      BY <2>1, <3>3
    <3>5. d \in AddressesOf(within[n][it]) <=>
            it.current.data = d \/ d \in AddressesOf(within[m][PosAt(notes, c)])
      BY <3>4 DEF AddressesOf
    <3>6. d \in AddressesOf(within[m][PosAt(notes, c)]) <=> k \in Below(in, notes, it)
      BY <1>6, <3>1
    <3> QED
      BY <1>7, <1>9, <3>5, <3>6
  <2> QED
    BY <2>2, <2>3
<1>10. ASSUME NEW a \in DOMAIN notes, it = Alone(bytes, NodeAt(notes, a))
       PROVE  d \in AddressesOf(PositionsFrom(bytes, it)) <=> k \in Own(in, notes, it)
  <2>1. /\ it.current = NodeAt(notes, a) /\ it.current.data = a
        /\ it \in Siblings /\ AtNode(it)
        /\ Own(in, notes, it) = notes[a].below /\ Below(in, notes, it) = notes[a].below
    BY <1>10, OwnOfAlone
  <2>2. IsRest(in, bytes, notes, NextSibling(bytes, it), {})
    BY <2>1, ItemNext
  <2>3. ~AtNode(NextSibling(bytes, it))
    <3> DEFINE next == NextSibling(bytes, it)
    <3>1. CASE AtNode(next)
      <4>1. IsItem(bytes, notes, next) /\ Own(in, notes, next) = {}
        BY <2>2, <3>1 DEF IsRest
      <4> HIDE DEF next
      <4>2. next # Alone(bytes, Root(bytes))
        BY <4>1, OwnOfRoot, <1>3, LeafIsLast
      <4>3. PICK b \in DOMAIN notes : Own(in, notes, next) \in {notes[b].on, notes[b].below}
        BY <4>1, <4>2, OwnOfPos, OwnOfAlone DEF IsItem
      <4> QED
        BY <4>1, <4>3, NotedOwn
    <3> QED
      BY <3>1
  <2>4. a = d => k \in notes[a].below
    BY <1>3
  <2>5. IsLeaf(bytes, it.current) /\ k \in notes[a].below => a = d
    <3>1. IsLeaf(bytes, it.current) = bytes[a].leaf
      BY <2>1, TrieIsRead, PositionsAreTyped
    <3>2. a # d /\ k \in notes[a].below => ~bytes[a].leaf
      BY LeafIsInside
    <3> QED
      BY <3>1, <3>2
  <2> HIDE <1>10
  <2> QED
    BY <1>9, <2>1, <2>3, <2>4, <2>5
<1>11. CASE it = Alone(bytes, Root(bytes))
  <2>1. /\ it.current = Root(bytes) /\ it.current.data = 1
        /\ it \in Siblings /\ AtNode(it)
        /\ Own(in, notes, it) = DOMAIN in.suggestions
        /\ Below(in, notes, it) = DOMAIN in.suggestions
    BY <1>11, OwnOfRoot
  <2>2. ~IsLeaf(bytes, it.current)
    BY <2>1, RootChildren
  <2>3. ~AtNode(NextSibling(bytes, it))
    <3> DEFINE next == NextSibling(bytes, it)
    <3>1. Skip(bytes, 1) = 2 /\ it.end = 2
      BY <1>11, OwnOfRoot, RootBytes DEF IsTrieOf, Skip
    <3>2. next = [it EXCEPT !.current = NullNode]
      BY <2>1, <3>1 DEF NextSibling
    <3>3. next.current = NullNode
      BY <2>1, <3>2 DEF Siblings
    <3> QED
      BY <3>3 DEF AtNode, NullNode
  <2> HIDE <1>11
  <2> QED
    BY <1>4, <1>9, <2>1, <2>2, <2>3
<1> QED
  BY <1>8, <1>10, <1>11 DEF IsItem

-----------------------------------------------------------------------------
(* The entries of some suggestions.                                        *)

(* Without one of them. *)
LEMMA BagShrinks ==
  ASSUME NEW in, NEW B, IsFiniteSet(B), NEW j \in B
  PROVE  BagFrom(in, B \ {j}) = BagFrom(in, B) (-) SetToBag({EntryIn(in, j)})
<1> DEFINE C == B \ {j}
           x == EntryIn(in, j)
           old == BagFrom(in, B)
           one == SetToBag({x})
           N(D, e) == Cardinality({k \in D : EntryIn(in, k) = e})
           less == [e \in DOMAIN old |-> IF e \in DOMAIN one THEN old[e] - one[e] ELSE old[e]]
<1>1. B = C \cup {j} /\ j \notin C
  OBVIOUS
<1>2. /\ DOMAIN old = {EntryIn(in, k) : k \in B}
      /\ \A e \in DOMAIN old : old[e] = N(B, e)
  BY DEF BagFrom
<1>3. DOMAIN one = {x} /\ one[x] = 1
  BY DEF SetToBag
<1>4. old (-) one = [e \in {d \in DOMAIN less : less[d] > 0} |-> less[e]]
  BY DEF (-)
<1>5. ASSUME NEW e
      PROVE  /\ N(B, e) \in Nat /\ N(C, e) \in Nat
             /\ N(B, e) = N(C, e) + IF e = x THEN 1 ELSE 0
             /\ e \in {EntryIn(in, k) : k \in C} <=> N(C, e) > 0
  <2> DEFINE K == {k \in C : EntryIn(in, k) = e}
  <2>1. IsFiniteSet(K) /\ Cardinality(K) \in Nat
    <3>1. K \subseteq B
      OBVIOUS
    <3> HIDE DEF K
    <3> QED
      BY <3>1, FS_Subset, FS_CardinalityType
  <2>2. e \in {EntryIn(in, k) : k \in C} <=> Cardinality(K) > 0
    <3>1. e \in {EntryIn(in, k) : k \in C} <=> K # {}
      OBVIOUS
    <3> HIDE DEF K
    <3> QED
      BY <2>1, <3>1, FS_EmptySet
  <2>3. CASE e = x
    <3>1. {k \in B : EntryIn(in, k) = e} = K \cup {j} /\ j \notin K
      BY <1>1, <2>3
    <3> HIDE DEF K
    <3>2. Cardinality(K \cup {j}) = Cardinality(K) + 1
      BY <2>1, <3>1, FS_AddElement
    <3>3. N(B, e) = Cardinality(K) + 1
      BY <3>1, <3>2
    <3>4. N(C, e) = Cardinality(K)
      BY DEF K
    <3> HIDE DEF N, C, x
    <3> QED
      BY <2>1, <2>2, <2>3, <3>3, <3>4
  <2>4. CASE e # x
    <3>1. {k \in B : EntryIn(in, k) = e} = K
      BY <1>1, <2>4
    <3>2. N(B, e) = Cardinality(K)
      BY <3>1
    <3>3. N(C, e) = Cardinality(K)
      OBVIOUS
    <3> HIDE DEF N, C, x, K
    <3> QED
      BY <2>1, <2>2, <2>4, <3>2, <3>3
  <2> QED
    BY <2>3, <2>4
<1>6. BagFrom(in, C) = [e \in {EntryIn(in, k) : k \in C} |-> N(C, e)]
  BY DEF BagFrom
<1>7. {EntryIn(in, k) : k \in C} \subseteq DOMAIN old /\ x \in DOMAIN old
  BY <1>2
<1> DEFINE E == {EntryIn(in, k) : k \in C}
<1> HIDE DEF N, C, old, one, x, E
<1>8. \A e \in DOMAIN old : less[e] = N(C, e)
  <2> SUFFICES ASSUME NEW e \in DOMAIN old PROVE less[e] = N(C, e)
    OBVIOUS
  <2>1. /\ N(B, e) \in Nat /\ N(C, e) \in Nat
        /\ N(B, e) = N(C, e) + IF e = x THEN 1 ELSE 0
    BY <1>5
  <2>2. old[e] = N(B, e)
    BY <1>2
  <2>3. CASE e = x
    <3>1. less[e] = N(B, e) - 1
      BY <1>3, <2>2, <2>3
    <3> QED
      BY <2>1, <2>3, <3>1
  <2>4. CASE e # x
    <3>1. less[e] = N(B, e)
      BY <1>3, <2>2, <2>4
    <3> QED
      BY <2>1, <2>4, <3>1
  <2> QED
    BY <2>3, <2>4
<1>9. DOMAIN less = DOMAIN old
  OBVIOUS
<1>10. {d \in DOMAIN less : less[d] > 0} = E
  <2> HIDE DEF less
  <2>1. \A d \in DOMAIN old : less[d] > 0 <=> d \in E
    BY <1>5, <1>8 DEF E
  <2> QED
    BY <1>7, <1>9, <2>1 DEF E
<1>11. \A e \in E : less[e] = N(C, e)
  BY <1>7, <1>8 DEF E
<1> HIDE DEF less
<1>12. old (-) one = [e \in E |-> N(C, e)]
  BY <1>4, <1>10, <1>11
<1> QED
  BY <1>6, <1>12 DEF C, old, one, x, E

(* The entries of the leaves at some addresses. *)
LEMMA EntriesAre ==
  ASSUME IsInput(input), NEW notes, IsTrieOf(input, trie, notes),
         NEW addresses \in SUBSET Nat, NEW B \in SUBSET DOMAIN suggestions,
         \A k \in DOMAIN suggestions : \A d :
           LeafOf(trie, notes, d, k) => (d \in addresses <=> k \in B)
  PROVE  EntriesAt[Leaves(trie, Root(trie), <<>>)][addresses] = BagFrom(input, B)
<1> DEFINE leaves == Leaves(trie, Root(trie), <<>>)
           R == LeafEnds(input, trie, notes, <<>>, 0)
           n == Len(leaves)
           there == {i \in 1 .. n : leaves[i].data \in addresses}
<1>1. DOMAIN suggestions = DOMAIN input.suggestions
  BY DEF suggestions
<1>2. PICK f : Pairs(leaves, LeafRecord, DOMAIN input.suggestions, R, f)
  BY LeavesOfTrie DEF Paired
<1>3. leaves \in Seq(LeafRecord) /\ n \in Nat /\ DOMAIN leaves = 1 .. n
  <2> HIDE DEF leaves
  <2>1. leaves \in Seq(LeafRecord)
    BY <1>2 DEF Pairs
  <2>2. n \in Nat /\ DOMAIN leaves = 1 .. n
    BY <1>2, PairsIntoRange
  <2> QED
    BY <2>1, <2>2
<1>4. EntriesAt[leaves][addresses] =
        [e \in {leaves[i].entry : i \in there} |->
           Cardinality({i \in there : leaves[i].entry = e})]
  <2>1. leaves \in Seq([data : Nat, entry : Entry])
    BY <1>3 DEF LeafRecord
  <2> HIDE DEF leaves
  <2> QED
    BY <1>3, <2>1 DEF EntriesAt
<1>5. ASSUME NEW i \in 1 .. n
      PROVE  /\ f[i] \in DOMAIN suggestions
             /\ leaves[i].entry = EntryIn(input, f[i])
             /\ leaves[i].data \in addresses <=> f[i] \in B
  <2> HIDE DEF leaves
  <2>1. f[i] \in DOMAIN input.suggestions /\ <<leaves[i], f[i]>> \in R
    BY <1>2, <1>3 DEF Pairs
  <2>2. /\ leaves[i].entry = EndIn(input, <<>>, 0, f[i])
        /\ LeafOf(trie, notes, leaves[i].data, f[i])
    BY <2>1 DEF LeafEnds
  <2>3. input.suggestions[f[i]] \in Seq(Char)
    BY <2>1, SuggestionTyped
  <2>4. <<>> \in Seq(Char) /\ Len(<<>>) = 0
    OBVIOUS
  <2>5. Spells(input, f[i], 0, <<>>)
    BY <2>3, <2>4 DEF Spells
  <2>6. <<>> \o Rest(input, f[i], 0) = input.suggestions[f[i]]
    BY <2>1, <2>4, <2>5, SpelledThenRest
  <2>7. leaves[i].entry = EntryIn(input, f[i])
    BY <2>2, <2>6 DEF EndIn, EntryIn
  <2> QED
    BY <1>1, <2>1, <2>2, <2>7
<1>6. /\ \A i, j \in 1 .. n : f[i] = f[j] => i = j
      /\ \A k \in B : \E i \in 1 .. n : f[i] = k
  <2> HIDE DEF leaves
  <2> QED
    BY <1>1, <1>2 DEF Pairs
<1>7. \A i : i \in there <=> i \in 1 .. n /\ f[i] \in B
  BY <1>5
<1>8. \A i \in there : leaves[i].entry = EntryIn(input, f[i])
  BY <1>5
<1>9. there \subseteq 1 .. n
  OBVIOUS
<1> HIDE DEF there, leaves, n
<1>10. {leaves[i].entry : i \in there} = {EntryIn(input, k) : k \in B}
  <2>1. \A i \in there : \E k \in B : leaves[i].entry = EntryIn(input, k)
    BY <1>7, <1>8
  <2>2. \A k \in B : \E i \in there : leaves[i].entry = EntryIn(input, k)
    BY <1>6, <1>7, <1>8
  <2> QED
    BY <2>1, <2>2
<1>11. ASSUME NEW e
       PROVE  Cardinality({i \in there : leaves[i].entry = e})
                = Cardinality({k \in B : EntryIn(input, k) = e})
  <2> DEFINE I == {i \in there : leaves[i].entry = e}
             K == {k \in B : EntryIn(input, k) = e}
             g == [i \in I |-> f[i]]
  <2>1. IsFiniteSet(I)
    <3>1. IsFiniteSet(1 .. n)
      BY <1>3, FS_Interval
    <3>2. I \subseteq 1 .. n
      BY <1>9
    <3> HIDE DEF I
    <3> QED
      BY <3>1, <3>2, FS_Subset
  <2>2. g \in [I -> K]
    <3>1. \A i \in I : f[i] \in K
      BY <1>7, <1>8
    <3> HIDE DEF I, K
    <3> QED
      BY <3>1
  <2>3. \A i, j \in I : g[i] = g[j] => i = j
    BY <1>6, <1>9
  <2>4. \A k \in K : \E i \in I : g[i] = k
    <3> SUFFICES ASSUME NEW k \in K PROVE \E i \in I : g[i] = k
      OBVIOUS
    <3>1. PICK i \in 1 .. n : f[i] = k
      BY <1>6
    <3>2. i \in I
      BY <1>7, <1>8, <3>1
    <3> HIDE DEF I, K
    <3>3. g[i] = k
      BY <3>1, <3>2
    <3> QED
      BY <3>2, <3>3
  <2> HIDE DEF I, K, g
  <2>5. g \in Bijection(I, K)
    BY <2>2, <2>3, <2>4 DEF Bijection, Injection, Surjection, IsInjective
  <2>6. ExistsBijection(I, K)
    BY <2>5 DEF ExistsBijection
  <2>7. Cardinality(I) = Cardinality(K)
    BY <2>1, <2>6, FS_Bijection
  <2> QED
    BY <2>7 DEF I, K
<1>12. EntriesAt[leaves][addresses] = BagFrom(input, B)
  <2> DEFINE N(e) == Cardinality({i \in there : leaves[i].entry = e})
             M(e) == Cardinality({k \in B : EntryIn(input, k) = e})
             S == {EntryIn(input, k) : k \in B}
  <2>1. EntriesAt[leaves][addresses] = [e \in S |-> N(e)]
    BY <1>4, <1>10
  <2>2. BagFrom(input, B) = [e \in S |-> M(e)]
    BY DEF BagFrom
  <2>3. \A e : N(e) = M(e)
    BY <1>11
  <2> HIDE DEF N, M, S
  <2> QED
    BY <2>1, <2>2, <2>3
<1> QED
  BY <1>12 DEF leaves

(* Nothing is found at no address. *)
LEMMA NothingAt ==
  ASSUME Leaves(trie, Root(trie), <<>>) \in Seq(LeafRecord)
  PROVE  EntriesAt[Leaves(trie, Root(trie), <<>>)][{}] = EmptyBag
<1> DEFINE leaves == Leaves(trie, Root(trie), <<>>)
           N(e) == Cardinality({i \in {j \in DOMAIN leaves : leaves[j].data \in {}} :
                                  leaves[i].entry = e})
<1>1. leaves \in Seq([data : Nat, entry : Entry])
  BY DEF LeafRecord
<1> HIDE DEF leaves
<1>2. EntriesAt[leaves][{}] =
        [e \in {leaves[i].entry : i \in {j \in DOMAIN leaves : leaves[j].data \in {}}} |-> N(e)]
  BY <1>1 DEF EntriesAt
<1>3. {leaves[i].entry : i \in {j \in DOMAIN leaves : leaves[j].data \in {}}} = {}
  OBVIOUS
<1> HIDE DEF N
<1>4. EntriesAt[leaves][{}] = [e \in {} |-> N(e)]
  BY <1>2, <1>3
<1>5. EntriesAt[leaves][{}] = [e \in {} |-> 1]
  BY <1>4
<1> QED
  BY <1>5 DEF leaves, EmptyBag, SetToBag

LEMMA LeavesOfNothing ==
  Leaves(LeafRootHeader, Root(LeafRootHeader), <<>>) \in Seq(LeafRecord)
<1> DEFINE bytes == LeafRootHeader
           root == Root(LeafRootHeader)
           zero == 0
           none == <<>>
<1>1. /\ IsLeaf(bytes, root) /\ root \in NodeView /\ root.data = 1
      /\ Len(bytes) = 1 /\ bytes[1] = LeafHead /\ NodeWidth(LeafHead) = 1
  BY EmptyRootSeen, RootBytes
<1>2. /\ AtNode(Only(root)) /\ Label(bytes, root) = none
      /\ NodeWidth(bytes[root.data]) \in Nat
  BY <1>1 DEF AtNode, Only, NullAddress, Label, LeafHead
<1>3. none \in Seq(Char) /\ none \o none = none
  OBVIOUS
<1>4. PICK within : AreListed(bytes, within)
  BY LeavesListed
<1>5. Only(root).current = root
  BY DEF Only
<1> HIDE DEF bytes, root, none
<1>6. ListedBelow(bytes, Only(root), none, within[zero]) = <<LeafAt(Only(root), none)>>
  BY <1>1, <1>2, <1>3, <1>5 DEF ListedBelow
<1>7. LeafAt(Only(root), none) \in LeafRecord
  BY <1>1, <1>3, <1>5 DEF LeafAt, LeafRecord, Entry, NodeView
<1>8. ListedBelow(bytes, Only(root), none, within[zero]) \in Seq(LeafRecord)
  BY <1>6, <1>7
<1>9. /\ zero \in Nat /\ zero + 1 = Len(bytes) /\ Len(bytes) \in Nat \ {0}
      /\ root \in NodeView /\ AtNode(Only(root)) /\ NodeWidth(bytes[root.data]) \in Nat
      /\ none \in Seq(Char) /\ AreListed(bytes, within)
      /\ ListedBelow(bytes, Only(root), none, within[zero]) \in Seq(LeafRecord)
  BY <1>1, <1>2, <1>3, <1>4, <1>8
<1> HIDE DEF zero
<1>10. Leaves(bytes, root, none) = ListedBelow(bytes, Only(root), none, within[zero])
  BY ONLY <1>9, OnlyListed
<1> QED
  BY <1>8, <1>10 DEF bytes, root, none

LEMMA LeavesTyped ==
  ASSUME IsInput(input), HoldsInput(input, trie)
  PROVE  Leaves(trie, Root(trie), <<>>) \in Seq(LeafRecord)
<1>1. CASE input.suggestions = <<>>
  BY <1>1, LeavesOfNothing DEF HoldsInput
<1>2. CASE input.suggestions # <<>>
  <2>1. PICK notes : IsTrieOf(input, trie, notes)
    BY <1>2 DEF HoldsInput
  <2>2. Paired(Leaves(trie, Root(trie), <<>>), LeafRecord, DOMAIN input.suggestions,
               LeafEnds(input, trie, notes, <<>>, 0))
    BY <2>1, LeavesOfTrie
  <2> QED
    BY <2>2 DEF Paired, Pairs
<1> QED
  BY <1>1, <1>2

(* The addresses that iterators can still get to. *)
LEMMA AddressesAre ==
  ASSUME Len(trie) \in Nat, NEW it \in Siblings
  PROVE  /\ AddressesFrom[it] = AddressesOf(PositionsFrom(trie, it))
         /\ AddressesFrom[it] \subseteq Nat
         /\ ~AtNode(it) => AddressesFrom[it] = {}
<1>1. AddressesFrom[it] = {node.data : node \in {x.current : x \in PositionsFrom(trie, it)}}
  BY DEF AddressesFrom, NodesFrom
<1>2. PICK within : IsReach(trie, within)
  BY WithinExists
<1>3. PositionsFrom(trie, it) = IF AtNode(it) THEN within[Len(trie)][it] ELSE {}
  BY <1>2 DEF IsReach
<1>4. AddressesFrom[it] = AddressesOf(PositionsFrom(trie, it))
  <2>1. \A d : d \in AddressesFrom[it] <=> d \in AddressesOf(PositionsFrom(trie, it))
    BY <1>1 DEF AddressesOf
  <2> QED
    BY <1>1, <2>1 DEF AddressesOf
<1>5. AddressesOf(PositionsFrom(trie, it)) \subseteq Nat
  <2>1. PositionsFrom(trie, it) \subseteq Siblings
    <3>1. CASE AtNode(it)
      <4>1. PositionsFrom(trie, it) = within[Len(trie)][it]
        BY <1>3, <3>1
      <4> QED
        BY <1>2, <4>1 DEF IsReach, IsWithin
    <3> QED
      BY <1>3, <3>1
  <2>2. \A x \in Siblings : x.current.data \in Nat
    BY DEF Siblings, NodeView
  <2> QED
    BY <2>1, <2>2 DEF AddressesOf
<1>6. ~AtNode(it) => AddressesOf(PositionsFrom(trie, it)) = {}
  BY <1>3 DEF AddressesOf
<1> QED
  BY <1>4, <1>5, <1>6

(* The suggestions of some iterators. *)
Owned(in, notes, its) ==
  UNION {Own(in, notes, it) : it \in {x \in its : AtNode(x)}}

(* What they still lead to. *)
LEMMA OwedAre ==
  ASSUME IsInput(input), NEW notes, IsTrieOf(input, trie, notes),
         NEW its, its \subseteq Siblings,
         \A it \in its : AtNode(it) => IsItem(trie, notes, it)
  PROVE  EntriesAt[Leaves(trie, Root(trie), <<>>)][UNION {AddressesFrom[it] : it \in its}]
           = BagFrom(input, Owned(input, notes, its))
<1> DEFINE addresses == UNION {AddressesFrom[it] : it \in its}
           B == Owned(input, notes, its)
<1>0. Len(trie) \in Nat
  BY RootChildren, TrieIsRead, NotedNode
<1>1. addresses \in SUBSET Nat
  BY <1>0, AddressesAre
<1>2. B \subseteq DOMAIN input.suggestions
  BY ItemTyped DEF Owned
<1>3. ASSUME NEW k \in DOMAIN input.suggestions, NEW d, LeafOf(trie, notes, d, k)
      PROVE  d \in addresses <=> k \in B
  <2>1. ASSUME NEW it \in its, AtNode(it)
        PROVE  d \in AddressesFrom[it] <=> k \in Own(input, notes, it)
    <3>1. IsItem(trie, notes, it)
      BY <2>1
    <3>2. AddressesFrom[it] = AddressesOf(PositionsFrom(trie, it))
      BY <1>0, AddressesAre
    <3> QED
      BY <1>3, <3>1, <3>2, ItemReaches
  <2>2. \A it \in its : ~AtNode(it) => AddressesFrom[it] = {}
    BY <1>0, AddressesAre
  <2>3. d \in addresses <=> \E it \in its : AtNode(it) /\ d \in AddressesFrom[it]
    BY <2>2
  <2>4. k \in B <=> \E it \in its : AtNode(it) /\ k \in Own(input, notes, it)
    BY DEF Owned
  <2> QED
    BY <2>1, <2>3, <2>4
<1> HIDE DEF addresses, B
<1>4. EntriesAt[Leaves(trie, Root(trie), <<>>)][addresses] = BagFrom(input, B)
  BY <1>1, <1>2, <1>3, EntriesAre DEF suggestions
<1> QED
  BY <1>4 DEF addresses, B

-----------------------------------------------------------------------------
(* The string of a leaf, which is spelled from the root down to it.        *)

(* Heads. *)
HeadOf(bytes, siblings, d) ==
  LET positions == SiblingPositions(bytes, siblings)
      later == {n \in 2 .. Len(positions) : positions[n].current.first_child > d}
  IN  IF later = {} THEN Last(positions).current
      ELSE positions[Min(later) - 1].current

(* The children of the siblings stand in the order of the siblings. *)
LEMMA NextStands ==
  ASSUME NEW in, NEW bytes, NEW notes, IsTrieOf(in, bytes, notes),
         NEW it, NEW f, IsWalk(bytes, it, f),
         NEW n \in Nat, NEW a \in DOMAIN notes, f[n] = PosAt(notes, a)
  PROVE  LET b == a + NodeWidth(bytes[a])
         IN  IF NodeWidth(bytes[a]) < notes[a].end
             THEN /\ b \in DOMAIN notes /\ f[n + 1] = PosAt(notes, b)
                  /\ b + notes[b].kids = a + notes[a].stop
                  /\ b + notes[b].end = a + notes[a].end
                  /\ notes[b].depth = notes[a].depth
                  /\ notes[a].on = notes[a].below \cup notes[b].on
             ELSE ~AtNode(f[n + 1]) /\ notes[a].on = notes[a].below
<1> DEFINE w == NodeWidth(bytes[a])
           b == a + w
<1>1. /\ a \in Nat /\ w \in Nat \ {0} /\ notes[a].stop \in Nat
      /\ notes[a].end \in Nat /\ Spans(bytes, notes, a)
      /\ NotedAt(in, bytes, notes, a)
  BY SpansTyped, TrieIsRead, NotedNode
<1>2. AtNode(f[n]) /\ f[n + 1] = NextSibling(bytes, PosAt(notes, a))
  BY TrieIsRead, PositionsAreTyped DEF IsWalk
<1>3. CASE w < notes[a].end
  <2>1. b \in DOMAIN notes /\ f[n + 1] = PosAt(notes, b)
    BY <1>2, <1>3, TrieIsRead, NextNoted
  <2>2. /\ w + notes[b].end = notes[a].end
        /\ notes[b].depth = notes[a].depth
        /\ notes[a].on = notes[a].below \cup notes[b].on
    BY <1>1, <1>3 DEF NotedAt, Follows
  <2>3. w + notes[b].kids = notes[a].stop
    BY <1>1, <1>3 DEF Spans
  <2>4. notes[b].kids \in Nat /\ notes[b].end \in Nat
    BY <2>1, SpansTyped
  <2>5. b + notes[b].kids = a + notes[a].stop /\ b + notes[b].end = a + notes[a].end
    <3> DEFINE y == notes[b].kids
               z == notes[b].end
    <3>1. /\ b + y = (a + w) + y /\ w + y = notes[a].stop /\ y \in Nat
          /\ b + z = (a + w) + z /\ w + z = notes[a].end /\ z \in Nat
      BY <2>2, <2>3, <2>4
    <3> HIDE DEF w, y, z, b
    <3> QED
      BY <1>1, <3>1 DEF y, z
  <2> QED
    BY <1>3, <2>1, <2>2, <2>5
<1>4. CASE ~(w < notes[a].end)
  <2>1. ~AtNode(f[n + 1])
    BY <1>2, <1>4, TrieIsRead, NextNoted
  <2>2. notes[a].on = notes[a].below
    BY <1>1, <1>4 DEF NotedAt
  <2> QED
    BY <1>4, <2>1, <2>2
<1> QED
  BY <1>3, <1>4

(* Every later sibling has its children behind the subtrie of this one. *)
StandsBehind(bytes, notes, a, it) ==
  AtNode(it) => \E b \in DOMAIN notes :
                  it = PosAt(notes, b) /\ a + notes[a].stop <= b + notes[b].kids

LEMMA LaterStand ==
  ASSUME NEW in, NEW bytes, NEW notes, IsTrieOf(in, bytes, notes),
         NEW it, NEW f, IsWalk(bytes, it, f),
         NEW m \in Nat, NEW a \in DOMAIN notes, f[m] = PosAt(notes, a)
  PROVE  \A n \in Nat : StandsBehind(bytes, notes, a, f[(m + 1) + n])
<1> DEFINE P == {n \in Nat : StandsBehind(bytes, notes, a, f[(m + 1) + n])}
<1>1. \A b \in DOMAIN notes : /\ b \in Nat /\ notes[b].kids \in Nat /\ notes[b].stop \in Nat
                              /\ notes[b].kids <= notes[b].stop
  BY SpansTyped
<1>2. 0 \in P
  <2> DEFINE b == a + NodeWidth(bytes[a])
  <2>1. (m + 1) + 0 = m + 1
    OBVIOUS
  <2>2. AtNode(f[m + 1]) =>
          /\ b \in DOMAIN notes /\ f[m + 1] = PosAt(notes, b)
          /\ b + notes[b].kids = a + notes[a].stop
    BY NextStands
  <2> HIDE DEF b
  <2>3. a + notes[a].stop \in Nat
    BY <1>1
  <2>4. StandsBehind(bytes, notes, a, f[m + 1])
    BY <2>2, <2>3 DEF StandsBehind
  <2> QED
    BY <2>1, <2>4
<1>3. ASSUME NEW n \in P PROVE n + 1 \in P
  <2> DEFINE i == (m + 1) + n
  <2>1. n \in Nat /\ i \in Nat /\ (m + 1) + (n + 1) = i + 1
    OBVIOUS
  <2>2. StandsBehind(bytes, notes, a, f[i])
    OBVIOUS
  <2> HIDE DEF i
  <2>3. CASE ~AtNode(f[i])
    <3>1. f[i + 1] = f[i]
      BY <2>1, <2>3 DEF IsWalk
    <3> QED
      BY <2>1, <2>2, <3>1
  <2>4. CASE AtNode(f[i])
    <3>1. PICK b \in DOMAIN notes :
            f[i] = PosAt(notes, b) /\ a + notes[a].stop <= b + notes[b].kids
      BY <2>2, <2>4 DEF StandsBehind
    <3> DEFINE c == b + NodeWidth(bytes[b])
    <3>2. AtNode(f[i + 1]) =>
            /\ c \in DOMAIN notes /\ f[i + 1] = PosAt(notes, c)
            /\ c + notes[c].kids = b + notes[b].stop
      BY <2>1, <3>1, NextStands
    <3> HIDE DEF c
    <3>3. a + notes[a].stop <= b + notes[b].stop
      BY <1>1, <3>1
    <3>4. StandsBehind(bytes, notes, a, f[i + 1])
      BY <3>2, <3>3 DEF StandsBehind
    <3> QED
      BY <2>1, <3>4
  <2> QED
    BY <2>3, <2>4
<1>4. P \subseteq Nat
  OBVIOUS
<1> HIDE DEF P
<1>5. P = Nat
  BY <1>2, <1>3, <1>4, AllNumbers
<1> QED
  BY <1>5 DEF P

(* The sibling at a, which the walk from c gets to in n steps: suggestion  *)
(* k is on it, and no sibling before has its children behind those of a.   *)
Passes(notes, f, c, k, n, a) ==
  /\ f[n] = PosAt(notes, a)
  /\ a \in Chain(notes, k)
  /\ notes[a].depth = notes[c].depth
  /\ a + notes[a].end = c + notes[c].end
  /\ c + n <= a
  /\ \A i \in 0 .. n : /\ AtNode(f[i])
                       /\ f[i].current.first_child \in 0 .. a + notes[a].kids

LEMMA PassesOn ==
  ASSUME NEW in, NEW bytes, NEW notes, IsTrieOf(in, bytes, notes),
         NEW c \in DOMAIN notes, NEW f, IsWalk(bytes, PosAt(notes, c), f),
         NEW k, NEW n \in Nat, NEW a, Passes(notes, f, c, k, n, a),
         k \notin notes[a].below
  PROVE  \E b : Passes(notes, f, c, k, n + 1, b)
<1> DEFINE w == NodeWidth(bytes[a])
           b == a + w
<1>1. /\ a \in DOMAIN notes /\ k \in notes[a].on /\ f[n] = PosAt(notes, a)
      /\ notes[a].depth = notes[c].depth
      /\ a + notes[a].end = c + notes[c].end
      /\ c + n <= a
      /\ \A i \in 0 .. n : /\ AtNode(f[i])
                           /\ f[i].current.first_child \in 0 .. a + notes[a].kids
  BY DEF Passes, Chain
<1>2. /\ a \in Nat /\ w \in Nat \ {0} /\ c \in Nat
      /\ notes[a].kids \in Nat /\ notes[a].stop \in Nat
      /\ notes[a].kids <= notes[a].stop
  BY <1>1, SpansTyped
<1>3. /\ b \in DOMAIN notes /\ f[n + 1] = PosAt(notes, b)
      /\ b + notes[b].kids = a + notes[a].stop
      /\ b + notes[b].end = a + notes[a].end
      /\ notes[b].depth = notes[a].depth
      /\ k \in notes[b].on
  BY <1>1, NextStands
<1>4. AtNode(f[n + 1]) /\ f[n + 1].current.first_child = b + notes[b].kids
  BY <1>3, TrieIsRead, PositionsAreTyped DEF PosAt, NodeAt
<1>5. c + (n + 1) <= b
  BY <1>1, <1>2
<1>6. ASSUME NEW i \in 0 .. n + 1
      PROVE  AtNode(f[i]) /\ f[i].current.first_child \in 0 .. b + notes[b].kids
  <2>1. CASE i = n + 1
    <3>1. b + notes[b].kids \in Nat
      BY <1>2, <1>3
    <3> QED
      BY <1>4, <2>1, <3>1
  <2>2. CASE i \in 0 .. n
    <3>1. AtNode(f[i]) /\ f[i].current.first_child \in 0 .. a + notes[a].kids
      BY <1>1, <2>2
    <3> QED
      BY <1>2, <1>3, <3>1
  <2> QED
    BY <2>1, <2>2
<1> HIDE DEF b
<1>7. Passes(notes, f, c, k, n + 1, b)
  BY <1>1, <1>3, <1>5, <1>6 DEF Passes, Chain
<1> QED
  BY <1>7

(* The walk passes a sibling that suggestion k is below. *)
LEMMA HeadPassed ==
  ASSUME NEW in, NEW bytes, NEW notes, IsTrieOf(in, bytes, notes),
         NEW c \in DOMAIN notes, NEW f, IsWalk(bytes, PosAt(notes, c), f),
         NEW k \in notes[c].on
  PROVE  \E n \in Nat : \E a : Passes(notes, f, c, k, n, a) /\ k \in notes[a].below
<1> DEFINE Passed(n) == \E a : Passes(notes, f, c, k, n, a)
           P == {n \in Nat : Passed(n)}
<1> SUFFICES ASSUME \A n \in Nat : \A a : Passes(notes, f, c, k, n, a) =>
                                            k \notin notes[a].below
             PROVE  FALSE
  OBVIOUS
<1>1. c \in Nat /\ Len(bytes) \in Nat /\ c >= 2
  BY SpansTyped
<1>2. 0 \in P
  <2>1. f[0] = PosAt(notes, c) /\ c \in Chain(notes, k)
    BY DEF IsWalk, Chain
  <2>2. AtNode(f[0]) /\ f[0].current.first_child = c + notes[c].kids
    BY <2>1, TrieIsRead, PositionsAreTyped DEF PosAt, NodeAt
  <2>3. c + notes[c].kids \in Nat
    BY <1>1, SpansTyped
  <2>4. \A i \in 0 .. 0 : i = 0
    OBVIOUS
  <2>5. Passes(notes, f, c, k, 0, c)
    BY <1>1, <2>1, <2>2, <2>3, <2>4 DEF Passes
  <2> QED
    BY <2>5
<1>3. \A n \in P : n + 1 \in P
  BY PassesOn
<1> HIDE DEF Passed
<1>4. P = Nat
  <2>1. P \subseteq Nat
    OBVIOUS
  <2> HIDE DEF P
  <2> QED
    BY <1>2, <1>3, <2>1, AllNumbers
<1>5. Passed(Len(bytes))
  BY <1>1, <1>4
<1>6. PICK a : Passes(notes, f, c, k, Len(bytes), a)
  BY <1>5 DEF Passed
<1>7. a \in DOMAIN notes /\ c + Len(bytes) <= a
  BY <1>6 DEF Passes, Chain
<1>8. a \in Nat /\ a <= Len(bytes)
  BY <1>7, SpansTyped
<1> QED
  BY <1>1, <1>7, <1>8

(* Heads finds it. *)
LEMMA HeadFound ==
  ASSUME NEW in, NEW bytes, NEW notes, IsTrieOf(in, bytes, notes),
         NEW d, NEW k, LeafOf(bytes, notes, d, k),
         NEW c \in DOMAIN notes, k \in notes[c].on, c + notes[c].end <= d
  PROVE  \E a \in DOMAIN notes :
           /\ HeadOf(bytes, PosAt(notes, c), d) = NodeAt(notes, a)
           /\ k \in notes[a].below /\ notes[a].depth = notes[c].depth
           /\ c <= a /\ a < d
<1> DEFINE it == PosAt(notes, c)
           positions == SiblingPositions(bytes, it)
           later == {n \in 2 .. Len(positions) : positions[n].current.first_child > d}
<1>1. PICK f : IsWalk(bytes, it, f)
  BY WalkExists
<1>2. PICK m \in Nat : \E a : Passes(notes, f, c, k, m, a) /\ k \in notes[a].below
  BY <1>1, HeadPassed
<1>3. PICK a : Passes(notes, f, c, k, m, a) /\ k \in notes[a].below
  BY <1>2
<1>4. /\ a \in DOMAIN notes /\ k \in notes[a].on /\ f[m] = PosAt(notes, a)
      /\ notes[a].depth = notes[c].depth
      /\ a + notes[a].end = c + notes[c].end
      /\ c + m <= a
      /\ \A i \in 0 .. m : /\ AtNode(f[i])
                           /\ f[i].current.first_child \in 0 .. a + notes[a].kids
  BY <1>3 DEF Passes, Chain
<1>5. /\ a \in Nat /\ c \in Nat /\ d \in Nat /\ Len(bytes) \in Nat
      /\ notes[a].kids \in Nat /\ notes[a].stop \in Nat /\ notes[a].end \in Nat
      /\ notes[a].end >= 1
  <2>1. d \in DOMAIN notes
    BY DEF LeafOf
  <2>2. /\ a \in Nat /\ c \in Nat /\ d \in Nat /\ Len(bytes) \in Nat
        /\ notes[a].kids \in Nat /\ notes[a].stop \in Nat /\ notes[a].end \in Nat
        /\ NodeWidth(bytes[a]) \in Nat \ {0} /\ NodeWidth(bytes[a]) <= notes[a].end
    BY <1>4, <2>1, SpansTyped
  <2> QED
    BY <2>2
<1>6. c <= a /\ a < d
  <2>1. a + notes[a].end <= d
    BY <1>4
  <2> QED
    BY <1>4, <1>5, <2>1
<1>7. a + notes[a].kids <= d /\ d < a + notes[a].stop
  BY <1>3, <1>4, <1>5, <1>6, LeafIsInside
<1>8. PICK n : IsCount(bytes, it, n)
  BY <1>1, WalkStops
<1>9. PICK count : /\ IsCount(bytes, it, count)
                   /\ positions = [i \in 1 .. count |-> SiblingAt(bytes, it, i - 1)]
  BY <1>8, PositionsCounted
<1> HIDE DEF positions, it
<1>10. count \in Nat /\ \A i \in 0 .. count : AtNode(f[i]) <=> i < count
  <2>1. count \in 0 .. Len(bytes)
    BY <1>9 DEF IsCount
  <2>2. count \in Nat /\ \A i \in 0 .. count : i \in Nat
    BY <1>5, <2>1
  <2> QED
    BY <1>1, <1>9, <2>2 DEF IsCount, IsWalk
<1>11. Len(positions) = count /\ \A i \in 1 .. count : positions[i] = f[i - 1]
  <2>1. \A i \in 1 .. count : i - 1 \in Nat
    BY <1>10
  <2>2. \A i \in 1 .. count : SiblingAt(bytes, it, i - 1) = f[i - 1]
    BY <1>1, <2>1 DEF IsWalk
  <2>3. positions = [i \in 1 .. count |-> f[i - 1]]
    BY <1>9, <2>2
  <2> QED
    BY <1>10, <2>3
<1>12. m + 1 <= count
  <2> SUFFICES ASSUME count <= m PROVE FALSE
    BY <1>10
  <2>1. count \in 0 .. m /\ count \in 0 .. count
    BY <1>10
  <2>2. AtNode(f[count])
    BY <1>4, <2>1
  <2> QED
    BY <1>10, <2>1, <2>2
<1>13. \A i \in 1 .. count : positions[i].current.first_child > d <=> m + 1 < i
  <2> SUFFICES ASSUME NEW i \in 1 .. count
               PROVE  f[i - 1].current.first_child > d <=> m + 1 < i
    BY <1>11
  <2>1. CASE i <= m + 1
    <3>1. i - 1 \in 0 .. m
      BY <1>10, <2>1
    <3>2. f[i - 1].current.first_child \in 0 .. a + notes[a].kids
      BY <1>4, <3>1
    <3> QED
      BY <1>5, <1>7, <1>10, <2>1, <3>2
  <2>2. CASE m + 1 < i
    <3> DEFINE j == i - (m + 2)
    <3>1. j \in Nat /\ (m + 1) + j = i - 1 /\ i - 1 \in 0 .. count /\ i - 1 < count
      BY <1>10, <2>2
    <3> HIDE DEF j
    <3>2. StandsBehind(bytes, notes, a, f[i - 1])
      <4>1. StandsBehind(bytes, notes, a, f[(m + 1) + j])
        BY <1>1, <1>4, <3>1, LaterStand
      <4> QED
        BY <3>1, <4>1
    <3>3. AtNode(f[i - 1])
      BY <1>10, <3>1
    <3>4. PICK b \in DOMAIN notes :
            f[i - 1] = PosAt(notes, b) /\ a + notes[a].stop <= b + notes[b].kids
      BY <3>2, <3>3 DEF StandsBehind
    <3>5. f[i - 1].current.first_child = b + notes[b].kids
      BY <3>4 DEF PosAt, NodeAt
    <3>6. b \in Nat /\ notes[b].kids \in Nat
      BY SpansTyped
    <3>7. b + notes[b].kids > d
      BY <1>5, <1>7, <3>4, <3>6
    <3> QED
      BY <2>2, <3>5, <3>7
  <2> QED
    BY <1>10, <2>1, <2>2
<1>14. later = {i \in 2 .. count : m + 1 < i}
  BY <1>10, <1>11, <1>13
<1>15. HeadOf(bytes, it, d) = positions[m + 1].current
  <2>1. HeadOf(bytes, it, d) =
          IF later = {} THEN Last(positions).current ELSE positions[Min(later) - 1].current
    BY DEF HeadOf, positions
  <2> HIDE DEF later
  <2>2. CASE m + 1 = count
    <3>1. later = {}
      BY <1>14, <2>2
    <3>2. Last(positions) = positions[m + 1]
      BY <1>11, <2>2 DEF Last
    <3> QED
      BY <2>1, <3>1, <3>2
  <2>3. CASE m + 1 < count
    <3>1. m + 2 \in later /\ later \subseteq Nat /\ \A i \in later : m + 2 <= i
      BY <1>10, <1>14, <2>3
    <3>2. Min(later) = m + 2
      BY <3>1, SmallestNumber
    <3>3. Min(later) - 1 = m + 1
      BY <3>2
    <3> QED
      BY <2>1, <3>1, <3>3
  <2> QED
    BY <1>10, <1>12, <2>2, <2>3
<1>16. positions[m + 1] = f[m]
  <2>1. m + 1 \in 1 .. count /\ (m + 1) - 1 = m
    BY <1>10, <1>12
  <2> QED
    BY <1>11, <2>1
<1>17. HeadOf(bytes, it, d) = NodeAt(notes, a)
  BY <1>4, <1>15, <1>16 DEF PosAt
<1> QED
  BY <1>3, <1>4, <1>6, <1>17 DEF it

(* A leaf that stands before the end of the siblings is one of them. *)
LEMMA LeafAmong ==
  ASSUME NEW in, NEW bytes, NEW notes, IsTrieOf(in, bytes, notes),
         NEW d, NEW k, LeafOf(bytes, notes, d, k),
         NEW c \in DOMAIN notes, k \in notes[c].on, d < c + notes[c].end
  PROVE  notes[d].depth = notes[c].depth
<1> DEFINE P == {b \in Chain(notes, k) : /\ notes[b].depth = notes[c].depth
                                         /\ b + notes[b].end = c + notes[c].end}
<1>1. \A b \in Chain(notes, k) :
        /\ b \in DOMAIN notes /\ b \in Nat /\ NodeWidth(bytes[b]) \in Nat
        /\ notes[b].end \in Nat /\ notes[b].kids \in Nat
        /\ notes[b].end <= notes[b].kids
        /\ NotedAt(in, bytes, notes, b)
  BY SpansTyped, TrieIsRead, NotedNode DEF Chain
<1>2. c \in Chain(notes, k) /\ d \in Chain(notes, k) /\ c <= d
  <2>1. c \in Chain(notes, k)
    BY DEF Chain
  <2> QED
    BY <2>1, LeafIsLast
<1>3. c \in P
  BY <1>2
<1>4. ASSUME NEW b \in Chain(notes, k), c <= b, b \in P, ~IsLast(bytes, notes, k, b)
      PROVE  GoesTo(bytes, notes, k, b) \in P
  <2>1. notes[b].depth = notes[c].depth /\ b + notes[b].end = c + notes[c].end
    BY <1>4
  <2>2. b # d
    BY <1>4, LeafIsLast
  <2>3. GoesTo(bytes, notes, k, b) <= d
    BY <2>2, LeafIsLast
  <2>4. k \notin notes[b].below
    <3> SUFFICES ASSUME k \in notes[b].below PROVE FALSE
      OBVIOUS
    <3>1. GoesTo(bytes, notes, k, b) = b + notes[b].kids
      BY DEF GoesTo
    <3>2. b + notes[b].kids <= d
      BY <2>3, <3>1
    <3>3. d < b + notes[b].end /\ d \in Nat
      BY <1>1, <1>2, <2>1
    <3> QED
      BY <1>1, <3>2, <3>3
  <2> DEFINE w == NodeWidth(bytes[b])
             g == b + w
  <2>5. GoesTo(bytes, notes, k, b) = g
    BY <2>4 DEF GoesTo
  <2>6. Leads(bytes, notes, k, b, g)
    BY <1>4, <2>5, ChainGoesOn
  <2>7. g \in Chain(notes, k)
    BY <2>6 DEF Leads
  <2>8. w < notes[b].end
    <3>1. k \in notes[b].on
      BY DEF Chain
    <3> QED
      BY <1>1, <2>4, <3>1 DEF NotedAt
  <2>9. w + notes[g].end = notes[b].end /\ notes[g].depth = notes[b].depth
    BY <1>1, <2>8 DEF NotedAt, Follows
  <2>10. g + notes[g].end = b + notes[b].end
    <3> DEFINE z == notes[g].end
    <3>1. g + z = (b + w) + z /\ w + z = notes[b].end /\ z \in Nat /\ w \in Nat /\ b \in Nat
      BY <1>1, <2>7, <2>9
    <3> HIDE DEF w, z, g
    <3> QED
      BY <3>1 DEF z
  <2> HIDE DEF g
  <2>11. g \in P
    BY <2>1, <2>7, <2>9, <2>10
  <2> HIDE DEF P
  <2> QED
    BY <2>5, <2>11
<1> HIDE DEF P
<1>5. d \in P
  BY <1>2, <1>3, <1>4, ChainInduction
<1> QED
  BY <1>5 DEF P

(* PathString. *)
Path == [node : NodeView, text : Seq(Char)]

TowardsIn(bytes, node, leaf) ==
  LET children == VisitChildren(bytes, node)
  IN  IF leaf.data < children.end THEN leaf ELSE HeadOf(bytes, children, leaf.data)

PathStep(bytes, leaf) ==
  [path \in Path |->
     IF path.node.data = leaf.data THEN path
     ELSE LET next == TowardsIn(bytes, path.node, leaf)
          IN  [node |-> next, text |-> path.text \o Label(bytes, next)]]

PathFrom(bytes, leaf) ==
  After(Len(bytes), PathStep(bytes, leaf), [node |-> Root(bytes), text |-> <<>>])

(* The labels down to the node spell the beginning of suggestion k, whose  *)
(* leaf is below it.                                                       *)
IsAbove(in, bytes, notes, k, path) ==
  \E c \in DOMAIN notes :
    /\ VisitChildren(bytes, path.node) = PosAt(notes, c)
    /\ k \in notes[c].on
    /\ Spells(in, k, 0, path.text) /\ Len(path.text) = notes[c].depth
    /\ path.node.data < c

IsOnPath(in, bytes, notes, d, k, path) ==
  /\ path \in Path
  /\ IF path.node.data = d
     THEN path.text = in.suggestions[k]
     ELSE IsAbove(in, bytes, notes, k, path)

(* The text goes on with a label. *)
LEMMA SpellsFurther ==
  ASSUME NEW in, NEW k, NEW text \in Seq(Char), NEW label \in Seq(Char),
         Spells(in, k, 0, text), Spells(in, k, Len(text), label)
  PROVE  /\ text \o label \in Seq(Char)
         /\ Len(text \o label) = Len(text) + Len(label)
         /\ Spells(in, k, 0, text \o label)
<1>1. Len(text) \in Nat /\ Len(label) \in Nat
  BY LenProperties
<1>2. /\ text \o label \in Seq(Char)
      /\ Len(text \o label) = Len(text) + Len(label)
      /\ \A i \in 1 .. Len(text) + Len(label) :
           (text \o label)[i] = IF i <= Len(text) THEN text[i] ELSE label[i - Len(text)]
  BY ConcatProperties
<1>3. ASSUME NEW i \in 1 .. Len(text) + Len(label)
      PROVE  in.suggestions[k][0 + i] = (text \o label)[i]
  <2>1. CASE i <= Len(text)
    <3>1. i \in 1 .. Len(text)
      BY <1>1, <2>1
    <3> QED
      BY <1>2, <2>1, <3>1 DEF Spells
  <2>2. CASE ~(i <= Len(text))
    <3> DEFINE j == i - Len(text)
    <3>1. j \in 1 .. Len(label) /\ Len(text) + j = i /\ 0 + i = i
      BY <1>1, <2>2
    <3>2. in.suggestions[k][Len(text) + j] = label[j]
      BY <3>1 DEF Spells
    <3> QED
      BY <1>2, <2>2, <3>1, <3>2
  <2> QED
    BY <2>1, <2>2
<1>4. Len(text) + Len(label) <= Len(in.suggestions[k])
  BY DEF Spells
<1>5. 0 + Len(text \o label) = Len(text) + Len(label)
  BY <1>1, <1>2
<1> HIDE DEF Spells
<1>6. Spells(in, k, 0, text \o label)
  BY <1>2, <1>3, <1>4, <1>5 DEF Spells
<1> QED
  BY <1>2, <1>6

(* All of its characters make up the suggestion. *)
LEMMA SpellsAll ==
  ASSUME NEW in, NEW k, in.suggestions[k] \in Seq(Char), NEW text \in Seq(Char),
         Spells(in, k, 0, text), Len(text) = Len(in.suggestions[k])
  PROVE  text = in.suggestions[k]
<1>1. \A i \in 1 .. Len(text) : in.suggestions[k][i] = text[i]
  <2>1. \A i \in 1 .. Len(text) : 0 + i = i
    BY LenProperties
  <2> QED
    BY <2>1 DEF Spells
<1> QED
  BY <1>1, SeqEqual

(* One step down. *)
LEMMA PathGoesOn ==
  ASSUME NEW in, IsInput(in), NEW bytes, NEW notes, IsTrieOf(in, bytes, notes),
         NEW d, NEW k \in DOMAIN in.suggestions, LeafOf(bytes, notes, d, k),
         NEW path, IsOnPath(in, bytes, notes, d, k, path), path.node.data # d
  PROVE  LET next == PathStep(bytes, NodeAt(notes, d))[path]
         IN  /\ IsOnPath(in, bytes, notes, d, k, next)
             /\ next.node.data = d \/ path.node.data < next.node.data
<1> DEFINE leaf == NodeAt(notes, d)
           node == TowardsIn(bytes, path.node, leaf)
           label == Label(bytes, node)
           next == [node |-> node, text |-> path.text \o label]
<1>1. path \in Path /\ path.text \in Seq(Char)
  BY DEF IsOnPath, Path
<1>2. PICK c \in DOMAIN notes :
        /\ VisitChildren(bytes, path.node) = PosAt(notes, c)
        /\ k \in notes[c].on
        /\ Spells(in, k, 0, path.text) /\ Len(path.text) = notes[c].depth
        /\ path.node.data < c
  BY DEF IsOnPath, IsAbove
<1>3. leaf.data = d
  BY DEF NodeAt
<1>4. PathStep(bytes, leaf)[path] = next
  BY <1>1, <1>3 DEF PathStep
<1>5. node = IF d < c + notes[c].end THEN leaf ELSE HeadOf(bytes, PosAt(notes, c), d)
  BY <1>2, <1>3 DEF TowardsIn, PosAt
<1>6. /\ c \in Nat /\ path.node.data \in Nat /\ d \in Nat /\ notes[c].end \in Nat
      /\ d \in DOMAIN notes
  <2>1. d \in DOMAIN notes
    BY DEF LeafOf
  <2> QED
    BY <1>1, <2>1, SpansTyped DEF Path, NodeView
<1> HIDE DEF node, leaf
(* The label of a node goes on with the suggestions below it. *)
<1>7. ASSUME NEW a \in DOMAIN notes, node = NodeAt(notes, a), k \in notes[a].below,
             notes[a].depth = notes[c].depth
      PROVE  /\ label = bytes[a].label /\ next \in Path /\ next.node.data = a
             /\ Len(next.text) = notes[a].depth + Len(bytes[a].label)
             /\ Spells(in, k, 0, next.text)
             /\ Carries(in, bytes[a].label, notes[a].rank, bytes[a].leaf,
                        notes[a].depth, notes[a].below)
  <2>1. /\ label = bytes[a].label /\ label \in Seq(Char) /\ node \in NodeView
        /\ Fits(in, bytes[a], notes[a])
    BY <1>7, TrieIsRead, NotedNode, PositionsAreTyped
  <2>2. Carries(in, bytes[a].label, notes[a].rank, bytes[a].leaf,
                notes[a].depth, notes[a].below)
    BY <2>1 DEF Fits
  <2>3. Spells(in, k, Len(path.text), label)
    BY <1>2, <1>7, <2>1, <2>2 DEF Carries
  <2> DEFINE text == path.text
  <2>4. /\ text \in Seq(Char) /\ label \in Seq(Char)
        /\ Spells(in, k, 0, text) /\ Spells(in, k, Len(text), label)
    BY <1>1, <1>2, <2>1, <2>3
  <2> HIDE DEF label, text
  <2>5. /\ text \o label \in Seq(Char)
        /\ Len(text \o label) = Len(text) + Len(label)
        /\ Spells(in, k, 0, text \o label)
    BY ONLY <2>4, SpellsFurther
  <2>6. next \in Path /\ next.text = text \o label /\ next.node = node
    BY <2>1, <2>5 DEF Path, text
  <2>7. next.node.data = a
    BY <1>7, <2>6 DEF NodeAt
  <2>8. Len(text) = notes[c].depth
    BY <1>2 DEF text
  <2> HIDE DEF next
  <2> QED
    BY <1>7, <2>1, <2>2, <2>5, <2>6, <2>7, <2>8
<1>8. CASE d < c + notes[c].end
  <2>1. notes[d].depth = notes[c].depth
    BY <1>2, <1>8, LeafAmong
  <2>2. bytes[d].leaf /\ notes[d].below = {k} /\ k \in notes[d].below
    BY DEF LeafOf
  <2>3. node = NodeAt(notes, d)
    BY <1>5, <1>8 DEF leaf
  <2>4. /\ next \in Path /\ next.node.data = d
        /\ Len(next.text) = notes[d].depth + Len(bytes[d].label)
        /\ Spells(in, k, 0, next.text)
        /\ Carries(in, bytes[d].label, notes[d].rank, bytes[d].leaf,
                   notes[d].depth, notes[d].below)
    BY <1>6, <1>7, <2>1, <2>2, <2>3
  <2>5. Len(in.suggestions[k]) = notes[d].depth + Len(bytes[d].label)
    BY <2>2, <2>4 DEF Carries
  <2>6. next.text \in Seq(Char)
    BY <2>4 DEF Path
  <2> HIDE DEF next
  <2>7. next.text = in.suggestions[k]
    BY <2>4, <2>5, <2>6, SuggestionTyped, SpellsAll
  <2>8. IsOnPath(in, bytes, notes, d, k, next)
    BY <2>4, <2>7 DEF IsOnPath
  <2> QED
    BY <1>4, <2>4, <2>8 DEF leaf
<1>9. CASE ~(d < c + notes[c].end)
  <2>1. c + notes[c].end <= d
    BY <1>6, <1>9
  <2>2. PICK a \in DOMAIN notes :
          /\ HeadOf(bytes, PosAt(notes, c), d) = NodeAt(notes, a)
          /\ k \in notes[a].below /\ notes[a].depth = notes[c].depth
          /\ c <= a /\ a < d
    BY <1>2, <2>1, HeadFound
  <2>3. node = NodeAt(notes, a)
    BY <1>5, <1>9, <2>2
  <2>4. /\ next \in Path /\ next.node.data = a
        /\ Len(next.text) = notes[a].depth + Len(bytes[a].label)
        /\ Spells(in, k, 0, next.text)
    BY <1>7, <2>2, <2>3
  <2>5. a \in Nat /\ a # d /\ path.node.data < a
    <3>1. a \in Nat
      BY SpansTyped
    <3> QED
      BY <1>2, <1>6, <2>2, <3>1
  <2>6. ~bytes[a].leaf
    BY <2>2, <2>5, LeafIsInside
  <2> DEFINE c2 == a + notes[a].kids
  <2>7. /\ c2 \in DOMAIN notes /\ a < c2
        /\ Begins(bytes[c2], notes[c2], notes[a].rank,
                  notes[a].depth + Len(bytes[a].label), notes[a].below)
        /\ VisitChildren(bytes, NodeAt(notes, a)) = PosAt(notes, c2)
    BY <2>6, TrieIsRead, ChildrenNoted
  <2>8. k \in notes[c2].on /\ notes[c2].depth = notes[a].depth + Len(bytes[a].label)
    BY <2>2, <2>7 DEF Begins
  <2>9. next.node = NodeAt(notes, a)
    BY <2>3
  <2> HIDE DEF c2, next
  <2>10. IsAbove(in, bytes, notes, k, next)
    BY <2>4, <2>7, <2>8, <2>9 DEF IsAbove
  <2>11. IsOnPath(in, bytes, notes, d, k, next)
    BY <2>4, <2>5, <2>10 DEF IsOnPath
  <2> QED
    BY <1>4, <2>4, <2>5, <2>11 DEF leaf
<1> QED
  BY <1>8, <1>9

(* The path to the leaf of suggestion k spells it. *)
LEMMA PathIsSpelled ==
  ASSUME NEW in, IsInput(in), NEW bytes, NEW notes, IsTrieOf(in, bytes, notes),
         NEW d, NEW k \in DOMAIN in.suggestions, LeafOf(bytes, notes, d, k)
  PROVE  PathFrom(bytes, NodeAt(notes, d)).text = in.suggestions[k]
<1> DEFINE leaf == NodeAt(notes, d)
           start == [node |-> Root(bytes), text |-> <<>>]
           step == PathStep(bytes, leaf)
           S == {path \in Path : IsOnPath(in, bytes, notes, d, k, path)}
<1>1. d \in Nat /\ d >= 2 /\ Len(bytes) \in Nat
  BY SpansTyped DEF LeafOf
<1>2. start \in S /\ start.node.data = 1
  <2>1. /\ Root(bytes) \in NodeView /\ Root(bytes).data = 1 /\ 2 \in DOMAIN notes
        /\ notes[2].depth = 0 /\ notes[2].on = DOMAIN in.suggestions
        /\ VisitChildren(bytes, Root(bytes)) = PosAt(notes, 2)
    BY RootChildren
  <2>2. start \in Path /\ start.node = Root(bytes) /\ start.text = <<>>
    BY <2>1, EmptySeq DEF Path
  <2>3. Len(in.suggestions[k]) \in Nat
    BY SuggestionTyped
  <2>4. Spells(in, k, 0, <<>>) /\ Len(<<>>) = 0
    BY <2>3, EmptySeq DEF Spells
  <2> HIDE DEF start
  <2>5. IsAbove(in, bytes, notes, k, start)
    BY <2>1, <2>2, <2>4 DEF IsAbove
  <2>6. start.node.data = 1 /\ 1 # d
    BY <1>1, <2>1, <2>2
  <2> QED
    BY <2>2, <2>5, <2>6 DEF IsOnPath
<1>3. leaf.data = d
  BY DEF NodeAt
<1>4. ASSUME NEW path \in S
      PROVE  /\ step[path] \in S
             /\ path.node.data = d => step[path] = path
             /\ path.node.data # d =>
                  step[path].node.data = d \/ path.node.data < step[path].node.data
  <2>1. path \in Path /\ IsOnPath(in, bytes, notes, d, k, path)
    OBVIOUS
  <2>2. CASE path.node.data = d
    <3>1. step[path] = path
      BY <1>3, <2>1, <2>2 DEF PathStep
    <3> QED
      BY <2>2, <3>1
  <2>3. CASE path.node.data # d
    <3>1. /\ IsOnPath(in, bytes, notes, d, k, step[path])
          /\ step[path].node.data = d \/ path.node.data < step[path].node.data
      BY <2>1, <2>3, PathGoesOn
    <3>2. step[path] \in Path
      BY <3>1 DEF IsOnPath
    <3> HIDE DEF step
    <3> QED
      BY <2>3, <3>1, <3>2
  <2> QED
    BY <2>2, <2>3
<1>5. \A path \in S : path.node.data \in Nat /\ IsOnPath(in, bytes, notes, d, k, path)
  BY DEF Path, NodeView
<1> HIDE DEF S, step, start
<1>6. PICK f : IsRun(f, S, step, start)
  BY <1>2, <1>4, LoopRuns
<1>7. /\ f \in [Nat -> S] /\ f[0] = start
      /\ \A n \in Nat : f[n + 1] = step[f[n]]
      /\ \A n \in Nat : After(n, step, start) = f[n]
  BY <1>6 DEF IsRun, IsLoop
<1> DEFINE P == {n \in Nat : f[n].node.data = d \/ n < f[n].node.data}
<1>8. P = Nat
  <2>1. 0 \in P
    BY <1>2, <1>7
  <2>2. ASSUME NEW n \in P PROVE n + 1 \in P
    <3> DEFINE path == f[n]
               next == f[n + 1]
    <3>1. n \in Nat /\ path \in S /\ next \in S /\ next = step[path]
          /\ (path.node.data = d \/ n < path.node.data)
      BY <1>7
    <3> HIDE DEF path, next
    <3>2. next.node.data = d \/ n + 1 < next.node.data
      BY <1>4, <1>5, <3>1
    <3> QED
      BY <3>1, <3>2 DEF next
  <2>3. P \subseteq Nat
    OBVIOUS
  <2> HIDE DEF P
  <2> QED
    BY <2>1, <2>2, <2>3, AllNumbers
<1> DEFINE last == f[Len(bytes)]
<1>9. /\ last \in S /\ last = After(Len(bytes), step, start)
      /\ last.node.data = d \/ Len(bytes) < last.node.data
  BY <1>1, <1>7, <1>8
<1> HIDE DEF last
<1>10. last.node.data = d
  <2> SUFFICES ASSUME last.node.data # d PROVE FALSE
    OBVIOUS
  <2>1. IsAbove(in, bytes, notes, k, last)
    BY <1>5, <1>9 DEF IsOnPath
  <2>2. PICK c \in DOMAIN notes : last.node.data < c
    BY <2>1 DEF IsAbove
  <2>3. c \in Nat /\ c <= Len(bytes)
    BY SpansTyped
  <2> QED
    BY <1>1, <1>5, <1>9, <2>2, <2>3
<1>11. last.text = in.suggestions[k]
  BY <1>5, <1>9, <1>10 DEF IsOnPath
<1> QED
  BY <1>9, <1>11 DEF PathFrom, step, start

-----------------------------------------------------------------------------
(* LeavesIterator reads a trie with the same operators.                    *)

LEMMA SameCapacityHere == Visit!Capacity = Capacity
BY DEF Visit!Capacity, Capacity, Visit!Base, Base

LEMMA SameTagHere == ASSUME NEW n PROVE Visit!TagOf(n) = TagOf(n)
BY SameCapacityHere DEF Visit!TagOf, TagOf, Visit!UInt, UInt, Visit!EMPTY, EMPTY,
  Visit!UINT8, UINT8, Visit!UINT16, UINT16, Visit!UINT64, UINT64

LEMMA SameCodewordSizeHere ==
  ASSUME NEW tag PROVE Visit!CodewordSize(tag) = CodewordSize(tag)
BY DEF Visit!CodewordSize, CodewordSize, Visit!EMPTY, EMPTY,
  Visit!UINT8, UINT8, Visit!UINT16, UINT16

LEMMA SameGroupsHere == ASSUME NEW h PROVE Visit!PutGroups(h) = PutGroups(h)
BY DEF Visit!PutGroups, PutGroups

LEMMA SameWidthHere == ASSUME NEW h PROVE Visit!NodeWidth(h) = NodeWidth(h)
<1>1. Visit!OffsetSize(h.offset) = OffsetSize(h.offset)
  BY SameTagHere, SameCodewordSizeHere DEF Visit!OffsetSize, OffsetSize
<1>2. Visit!WordTop = WordTop
  BY SameCapacityHere DEF Visit!WordTop, WordTop
<1>3. Visit!RankSize(h.rank) = RankSize(h.rank)
  BY <1>2, SameTagHere, SameCodewordSizeHere, SameGroupsHere
    DEF Visit!RankSize, RankSize, Visit!UINT64, UINT64
<1> QED
  BY <1>1, <1>3 DEF Visit!NodeWidth, NodeWidth

LEMMA SameRootHere == ASSUME NEW bytes PROVE Visit!Root(bytes) = Root(bytes)
BY SameWidthHere DEF Visit!Root, Root, Visit!Node, Node, Visit!Skip, Skip

LEMMA SameNextHere ==
  ASSUME NEW bytes, NEW it
  PROVE  Visit!NextSibling(bytes, it) = NextSibling(bytes, it)
BY SameWidthHere DEF Visit!NextSibling, NextSibling, Visit!Skip, Skip, Visit!Node, Node,
  Visit!NullNode, NullNode, Visit!NullAddress, NullAddress

LEMMA SameViewHere ==
  ASSUME NEW bytes, NEW node
  PROVE  /\ Visit!NodeView = NodeView
         /\ Visit!Label(bytes, node) = Label(bytes, node)
         /\ Visit!IsLeaf(bytes, node) = IsLeaf(bytes, node)
BY DEF Visit!NodeView, NodeView, Visit!Label, Label, Visit!IsLeaf, IsLeaf

LEMMA SameChildrenHere ==
  ASSUME NEW bytes, NEW node
  PROVE  Visit!VisitChildren(bytes, node) = VisitChildren(bytes, node)
BY SameWidthHere, SameViewHere DEF Visit!VisitChildren, VisitChildren,
  Visit!NoSiblings, NoSiblings, Visit!NullNode, NullNode,
  Visit!NullAddress, NullAddress, Visit!Node, Node, Visit!Skip, Skip

LEMMA SameAtNodeHere == ASSUME NEW it PROVE Visit!AtNode(it) = AtNode(it)
BY DEF Visit!AtNode, AtNode, Visit!NullAddress, NullAddress

LEMMA SameWalkHere ==
  ASSUME NEW bytes, NEW it
  PROVE  /\ Visit!Siblings = Siblings /\ Visit!NoSiblings = NoSiblings
         /\ Visit!SiblingPositions(bytes, it) = SiblingPositions(bytes, it)
<1>1. Visit!Siblings = Siblings
  BY SameViewHere DEF Visit!Siblings, Siblings
<1>2. ASSUME NEW n, NEW step, NEW start
      PROVE  Visit!After(n, step, start) = After(n, step, start)
  BY DEF Visit!After, After
<1> DEFINE step == [i \in Siblings |-> IF AtNode(i) THEN NextSibling(bytes, i) ELSE i]
<1>3. [i \in Visit!Siblings |-> IF Visit!AtNode(i) THEN Visit!NextSibling(bytes, i)
                                ELSE i] = step
  BY <1>1, SameAtNodeHere, SameNextHere
<1>4. ASSUME NEW n PROVE Visit!SiblingAt(bytes, it, n) = SiblingAt(bytes, it, n)
  <2>1. Visit!SiblingAt(bytes, it, n) = Visit!After(n, step, it)
    BY <1>3 DEF Visit!SiblingAt
  <2>2. SiblingAt(bytes, it, n) = After(n, step, it)
    BY DEF SiblingAt
  <2> HIDE DEF step
  <2> QED
    BY <1>2, <2>1, <2>2
<1> DEFINE count == CHOOSE n \in 0 .. Len(bytes) :
                      \A m \in 0 .. n : AtNode(SiblingAt(bytes, it, m)) <=> m < n
<1>5. Visit!SiblingPositions(bytes, it) = SiblingPositions(bytes, it)
  <2>1. \A n : (\A m \in 0 .. n : Visit!AtNode(Visit!SiblingAt(bytes, it, m)) <=> m < n)
             <=> (\A m \in 0 .. n : AtNode(SiblingAt(bytes, it, m)) <=> m < n)
    BY <1>4, SameAtNodeHere
  <2>2. (CHOOSE n \in 0 .. Len(bytes) :
           \A m \in 0 .. n : Visit!AtNode(Visit!SiblingAt(bytes, it, m)) <=> m < n)
          = count
    BY <2>1
  <2>3. Visit!SiblingPositions(bytes, it) =
          [i \in 1 .. count |-> Visit!SiblingAt(bytes, it, i - 1)]
    BY <2>2 DEF Visit!SiblingPositions
  <2>4. SiblingPositions(bytes, it) = [i \in 1 .. count |-> SiblingAt(bytes, it, i - 1)]
    BY DEF SiblingPositions
  <2> HIDE DEF count
  <2>5. [i \in 1 .. count |-> Visit!SiblingAt(bytes, it, i - 1)] =
          [i \in 1 .. count |-> SiblingAt(bytes, it, i - 1)]
    BY <1>4
  <2> QED
    BY <2>3, <2>4, <2>5
<1>6. Visit!NoSiblings = NoSiblings
  BY DEF Visit!NoSiblings, NoSiblings, Visit!NullNode, NullNode,
    Visit!NullAddress, NullAddress
<1> QED
  BY <1>1, <1>5, <1>6

LEMMA SamePathHere ==
  ASSUME NEW leaf
  PROVE  Visit!PathString(Visit!Root(trie), leaf) = PathFrom(trie, leaf).text
<1>1. ASSUME NEW siblings
      PROVE  Visit!Heads(siblings, leaf) = HeadOf(trie, siblings, leaf.data)
  <2> DEFINE positions == SiblingPositions(trie, siblings)
             later == {n \in 2 .. Len(positions) :
                         positions[n].current.first_child > leaf.data}
  <2>1. Visit!Last(positions) = Last(positions)
    BY DEF Visit!Last, Last
  <2>2. Visit!Min(later) = Min(later)
    BY DEF Visit!Min, Min
  <2>3. Visit!Heads(siblings, leaf) =
          IF later = {} THEN Visit!Last(positions).current
          ELSE positions[Visit!Min(later) - 1].current
    BY SameWalkHere DEF Visit!Heads
  <2>4. HeadOf(trie, siblings, leaf.data) =
          IF later = {} THEN Last(positions).current
          ELSE positions[Min(later) - 1].current
    BY DEF HeadOf
  <2> HIDE DEF positions, later
  <2> QED
    BY <2>1, <2>2, <2>3, <2>4
<1>2. ASSUME NEW node PROVE Visit!Towards(node, leaf) = TowardsIn(trie, node, leaf)
  BY <1>1, SameChildrenHere DEF Visit!Towards, TowardsIn
<1> DEFINE step == [path \in [node : Visit!NodeView, text : Seq(Char)] |->
                      IF path.node.data = leaf.data THEN path
                      ELSE LET next == Visit!Towards(path.node, leaf)
                           IN  [node |-> next, text |-> path.text \o Visit!Label(trie, next)]]
           start == [node |-> Root(trie), text |-> <<>>]
<1>3. step = PathStep(trie, leaf)
  BY <1>2, SameViewHere DEF PathStep, Path
<1>4. Visit!PathString(Visit!Root(trie), leaf) = Visit!After(Len(trie), step, start).text
  BY SameRootHere DEF Visit!PathString
<1>5. Visit!After(Len(trie), step, start) = After(Len(trie), step, start)
  BY DEF Visit!After, After
<1> QED
  BY <1>3, <1>4, <1>5 DEF PathFrom

(* *it, at a leaf. *)
LEMMA LeafIsGiven ==
  ASSUME IsInput(input), NEW notes, IsTrieOf(input, trie, notes),
         NEW d, NEW k \in DOMAIN input.suggestions, LeafOf(trie, notes, d, k),
         input.ranks[k] = notes[d].rank
  PROVE  Visit!Dereference(NodeAt(notes, d)) = EntryIn(input, k)
<1> DEFINE leaf == NodeAt(notes, d)
<1>1. Visit!PathString(Visit!Root(trie), leaf) = input.suggestions[k]
  BY PathIsSpelled, SamePathHere
<1>2. leaf.rank = input.ranks[k]
  BY DEF NodeAt
<1> HIDE DEF leaf
<1>3. Visit!Dereference(leaf) = [string |-> input.suggestions[k], rank |-> input.ranks[k]]
  BY <1>1, <1>2 DEF Visit!Dereference
<1> QED
  BY <1>3 DEF EntryIn, leaf

-----------------------------------------------------------------------------
(* The queue of a visit.                                                   *)

(* Iterators that share no suggestion. *)
IsQueue(in, bytes, notes, queue) ==
  /\ \A x \in queue : IsItem(bytes, notes, x)
  /\ \A x, y \in queue : x # y => Own(in, notes, x) \cap Own(in, notes, y) = {}

Apart(in, notes, queue, B) == \A x \in queue : Own(in, notes, x) \cap B = {}

LEMMA QueueGrows ==
  ASSUME NEW in, IsInput(in), NEW bytes, NEW notes, IsTrieOf(in, bytes, notes),
         NEW queue, IsQueue(in, bytes, notes, queue),
         NEW it, NEW B, IsRest(in, bytes, notes, it, B), Apart(in, notes, queue, B)
  PROVE  /\ IsQueue(in, bytes, notes, Visit!Pushed(queue, it))
         /\ Owned(in, notes, Visit!Pushed(queue, it)) = Owned(in, notes, queue) \cup B
         /\ \A C : Apart(in, notes, queue, C) /\ B \cap C = {} =>
                     Apart(in, notes, Visit!Pushed(queue, it), C)
<1> DEFINE next == Visit!Pushed(queue, it)
<1>1. next = IF AtNode(it) THEN queue \cup {it} ELSE queue
  BY SameAtNodeHere DEF Visit!Pushed
<1> HIDE DEF next
<1>2. CASE AtNode(it)
  <2>1. next = queue \cup {it} /\ IsItem(bytes, notes, it) /\ Own(in, notes, it) = B
    BY <1>1, <1>2 DEF IsRest
  <2>2. IsQueue(in, bytes, notes, next)
    BY <2>1 DEF IsQueue, Apart
  <2>3. Owned(in, notes, next) = Owned(in, notes, queue) \cup B
    BY <1>2, <2>1 DEF Owned
  <2>4. \A C : Apart(in, notes, queue, C) /\ B \cap C = {} => Apart(in, notes, next, C)
    BY <2>1 DEF Apart
  <2> QED
    BY <2>2, <2>3, <2>4 DEF next
<1>3. CASE ~AtNode(it)
  BY <1>1, <1>3 DEF IsRest, next
<1> QED
  BY <1>2, <1>3

LEMMA QueueShrinks ==
  ASSUME NEW in, IsInput(in), NEW bytes, NEW notes, IsTrieOf(in, bytes, notes),
         NEW queue, IsQueue(in, bytes, notes, queue), NEW it \in queue
  PROVE  /\ IsItem(bytes, notes, it)
         /\ IsQueue(in, bytes, notes, queue \ {it})
         /\ Apart(in, notes, queue \ {it}, Own(in, notes, it))
         /\ Owned(in, notes, queue) = Owned(in, notes, queue \ {it}) \cup Own(in, notes, it)
<1>1. IsItem(bytes, notes, it)
  BY DEF IsQueue
<1>2. AtNode(it)
  BY <1>1, ItemTyped
<1>3. Owned(in, notes, queue) = Owned(in, notes, queue \ {it}) \cup Own(in, notes, it)
  BY <1>2 DEF Owned
<1> QED
  BY <1>1, <1>3 DEF IsQueue, Apart

(* The iterator at hand, unless there is none, and those in the queue. *)
LEMMA OwnedWithout ==
  ASSUME NEW in, NEW notes, NEW queue
  PROVE  Owned(in, notes, queue \cup {NoSiblings}) = Owned(in, notes, queue)
BY NoNodeThere DEF Owned

LEMMA OwnedWith ==
  ASSUME NEW in, IsInput(in), NEW bytes, NEW notes, IsTrieOf(in, bytes, notes),
         NEW queue, NEW it, IsItem(bytes, notes, it)
  PROVE  Owned(in, notes, queue \cup {it}) =
           Owned(in, notes, queue) \cup Own(in, notes, it)
<1>1. AtNode(it)
  BY ItemTyped
<1> QED
  BY <1>1 DEF Owned

(* The top of the queue: no suggestion of the queue is before its node. *)
LEMMA TopStands ==
  ASSUME NEW in, IsInput(in), NEW bytes, NEW notes, IsTrieOf(in, bytes, notes),
         NEW queue, IsQueue(in, bytes, notes, queue), queue # {}
  PROVE  /\ Visit!Top(queue) \in queue
         /\ \A k \in Owned(in, notes, queue) :
              Visit!Top(queue).current.rank <= in.ranks[k]
<1>1. \A x \in queue :
        /\ x.current.rank \in Nat /\ x.current.data \in Nat
        /\ \A k \in Own(in, notes, x) :
             x.current.rank <= in.ranks[k] /\ in.ranks[k] \in Nat
  BY ItemTyped DEF IsQueue
<1>2. \A x, y \in queue : x # y => x.current.data # y.current.data
  BY ItemsDiffer DEF IsQueue
<1> DEFINE least == {x.current.rank : x \in queue}
<1>3. least \subseteq Nat /\ least # {}
  BY <1>1
<1> HIDE DEF least
<1>4. PICK r \in least : \A n \in least : r <= n
  BY <1>3, LeastNumber
<1> DEFINE best == {x \in queue : x.current.rank = r}
           first_ == {x.current.data : x \in best}
<1>5. first_ \subseteq Nat /\ first_ # {}
  BY <1>1, <1>4 DEF least
<1> HIDE DEF first_
<1>6. PICK d \in first_ : \A n \in first_ : d <= n
  BY <1>5, LeastNumber
<1>7. PICK t \in best : t.current.data = d
  BY <1>6 DEF first_
<1>8. \A x \in queue : r <= x.current.rank /\ r \in Nat
  BY <1>1, <1>4, <1>7 DEF least
<1>9. \A x \in best : d <= x.current.data
  BY <1>6 DEF first_
<1>10. ASSUME NEW x \in queue \ {t} PROVE Visit!ComesBefore(t, x)
  <2>1. t.current.rank = r /\ r <= x.current.rank
    BY <1>7, <1>8
  <2>2. CASE x.current.rank = r
    <3>1. d <= x.current.data /\ d # x.current.data
      BY <1>2, <1>7, <1>9, <2>2
    <3>2. t.current.data < x.current.data
      BY <1>1, <1>7, <3>1
    <3> QED
      BY <2>1, <2>2, <3>2 DEF Visit!ComesBefore
  <2>3. CASE x.current.rank # r
    <3>1. t.current.rank < x.current.rank
      BY <1>1, <1>8, <2>1, <2>3
    <3> QED
      BY <3>1 DEF Visit!ComesBefore
  <2> QED
    BY <2>2, <2>3
<1> DEFINE IsTop(x) == \A y \in queue \ {x} : Visit!ComesBefore(x, y)
           top == Visit!Top(queue)
<1>11. t \in queue /\ IsTop(t)
  BY <1>7, <1>10
<1>12. top = CHOOSE x \in queue : IsTop(x)
  BY DEF Visit!Top
<1>13. top \in queue /\ IsTop(top)
  BY <1>11, <1>12
<1>14. \A x \in queue : top.current.rank <= x.current.rank
  BY <1>1, <1>13 DEF Visit!ComesBefore
<1> HIDE DEF top
<1>15. ASSUME NEW k \in Owned(in, notes, queue) PROVE top.current.rank <= in.ranks[k]
  <2>1. PICK x \in queue : k \in Own(in, notes, x)
    BY DEF Owned
  <2> QED
    BY <1>1, <1>13, <1>14, <2>1
<1> QED
  BY <1>13, <1>15 DEF top

-----------------------------------------------------------------------------
(* The steps of a visit.                                                   *)

(* Every suggestion to come is that of one iterator, and only the top of   *)
(* the queue is a leaf for certain.                                        *)
Visits(in, bytes, notes, queue, at, state) ==
  /\ IsQueue(in, bytes, notes, queue)
  /\ IF state = "descend"
     THEN IsItem(bytes, notes, at) /\ Apart(in, notes, queue, Own(in, notes, at))
     ELSE at = NoSiblings
  /\ state = "ready" /\ queue # {} => IsLeaf(bytes, Visit!Top(queue).current)

(* The suggestions that have not come out. *)
ToCome(notes) == Owned(input, notes, frontier \cup {visitor})

(* ++it gives the suggestion of least rank and forgets no other. *)
LEMMA IncrementTakes ==
  ASSUME IsInput(input), NEW notes, IsTrieOf(input, trie, notes),
         Visits(input, trie, notes, frontier, visitor, phase), Visit!Increment
  PROVE  /\ \E k \in ToCome(notes) :
              /\ yielded' = Append(yielded, EntryIn(input, k))
              /\ \A j \in ToCome(notes) : input.ranks[k] <= input.ranks[j]
              /\ Owned(input, notes, frontier' \cup {visitor'}) = ToCome(notes) \ {k}
         /\ Visits(input, trie, notes, frontier', visitor', phase')
         /\ phase = "ready" /\ phase' = "advance" /\ frontier # {}
<1> DEFINE top == Visit!Top(frontier)
           rest == frontier \ {top}
           next == NextSibling(trie, top)
           own == Own(input, notes, top)
           below == Below(input, notes, top)
<1>1. /\ phase = "ready" /\ phase' = "advance" /\ frontier # {}
      /\ visitor' = visitor /\ visitor = NoSiblings
      /\ yielded' = Append(yielded, Visit!Dereference(top.current))
      /\ frontier' = Visit!Pushed(rest, next)
      /\ IsQueue(input, trie, notes, frontier)
      /\ IsLeaf(trie, top.current)
  BY SameNextHere DEF Visit!Increment, Visits
<1>2. /\ top \in frontier
      /\ \A k \in Owned(input, notes, frontier) : top.current.rank <= input.ranks[k]
  BY <1>1, TopStands
<1> HIDE DEF top
<1>3. /\ IsItem(trie, notes, top)
      /\ IsQueue(input, trie, notes, rest)
      /\ Apart(input, notes, rest, own)
      /\ Owned(input, notes, frontier) = Owned(input, notes, rest) \cup own
  BY <1>1, <1>2, QueueShrinks
<1>4. PICK k \in DOMAIN input.suggestions :
        /\ below = {k} /\ LeafOf(trie, notes, top.current.data, k)
        /\ top.current = NodeAt(notes, top.current.data)
        /\ input.ranks[k] = top.current.rank
  BY <1>1, <1>3, ItemLeaf
<1>5. below \subseteq own
  BY <1>3, ItemTyped
<1>6. IsRest(input, trie, notes, next, own \ below)
  BY <1>3, ItemNext
<1> HIDE DEF rest, next, own, below
<1>7. Apart(input, notes, rest, own \ below)
  BY <1>3 DEF Apart
<1>8. /\ IsQueue(input, trie, notes, frontier')
      /\ Owned(input, notes, frontier') = Owned(input, notes, rest) \cup (own \ below)
  BY <1>1, <1>3, <1>6, <1>7, QueueGrows
<1>9. yielded' = Append(yielded, EntryIn(input, k))
  <2> DEFINE d == top.current.data
  <2>1. LeafOf(trie, notes, d, k) /\ top.current = NodeAt(notes, d)
    BY <1>4
  <2>2. input.ranks[k] = notes[d].rank
    BY <1>4 DEF NodeAt
  <2> HIDE DEF d
  <2>3. Visit!Dereference(NodeAt(notes, d)) = EntryIn(input, k)
    BY <2>1, <2>2, LeafIsGiven
  <2> QED
    BY <1>1, <2>1, <2>3
<1>10. /\ ToCome(notes) = Owned(input, notes, rest) \cup own
       /\ ToCome(notes) = Owned(input, notes, frontier)
       /\ Owned(input, notes, frontier' \cup {visitor'}) = Owned(input, notes, frontier')
  BY <1>1, <1>3, OwnedWithout DEF ToCome
<1>11. Owned(input, notes, rest) \cap own = {}
  BY <1>3 DEF Apart, Owned
<1>12. Owned(input, notes, frontier' \cup {visitor'}) = ToCome(notes) \ {k}
  <2>1. k \in own
    BY <1>4, <1>5
  <2> QED
    BY <1>4, <1>8, <1>10, <1>11, <2>1
<1>13. k \in ToCome(notes) /\ \A j \in ToCome(notes) : input.ranks[k] <= input.ranks[j]
  BY <1>2, <1>4, <1>5, <1>10
<1>14. Visits(input, trie, notes, frontier', visitor', phase')
  BY <1>1, <1>8 DEF Visits
<1> QED
  BY <1>1, <1>9, <1>12, <1>13, <1>14

(* The loops lose no suggestion. *)
LEMMA AdvanceKeeps ==
  ASSUME IsInput(input), NEW notes, IsTrieOf(input, trie, notes),
         Visits(input, trie, notes, frontier, visitor, phase), Visit!Advance
  PROVE  /\ Visits(input, trie, notes, frontier', visitor', phase')
         /\ Owned(input, notes, frontier' \cup {visitor'}) = ToCome(notes)
         /\ yielded' = yielded
         /\ phase \in {"advance", "descend"}
         /\ phase' \in {"advance", "descend", "ready"}
         /\ phase' = "ready" => UNCHANGED frontier
<1> USE DEF ToCome
<1>1. CASE Visit!AdvanceEnds
  <2>1. /\ phase = "advance" /\ phase' = "ready"
        /\ frontier # {} => IsLeaf(trie, Visit!Top(frontier).current)
        /\ UNCHANGED <<frontier, visitor, yielded>>
    BY <1>1, SameViewHere DEF Visit!AdvanceEnds
  <2> QED
    BY <2>1 DEF Visits
<1>2. CASE Visit!AdvanceDescends
  <2> DEFINE top == Visit!Top(frontier)
             rest == frontier \ {top}
  <2>1. /\ phase = "advance" /\ phase' = "descend" /\ frontier # {}
        /\ visitor' = top /\ frontier' = rest /\ yielded' = yielded
        /\ visitor = NoSiblings /\ IsQueue(input, trie, notes, frontier)
    BY <1>2 DEF Visit!AdvanceDescends, Visits
  <2>2. top \in frontier
    BY <2>1, TopStands
  <2> HIDE DEF top
  <2>3. /\ IsItem(trie, notes, top)
        /\ IsQueue(input, trie, notes, rest)
        /\ Apart(input, notes, rest, Own(input, notes, top))
        /\ Owned(input, notes, frontier) =
             Owned(input, notes, rest) \cup Own(input, notes, top)
    BY <2>1, <2>2, QueueShrinks
  <2> HIDE DEF rest
  <2>4. Visits(input, trie, notes, frontier', visitor', phase')
    BY <2>1, <2>3 DEF Visits
  <2>5. Owned(input, notes, frontier' \cup {visitor'}) =
          Owned(input, notes, frontier \cup {visitor})
    <3>1. Owned(input, notes, rest \cup {top}) =
            Owned(input, notes, rest) \cup Own(input, notes, top)
      BY <2>3, OwnedWith
    <3>2. Owned(input, notes, frontier \cup {NoSiblings}) = Owned(input, notes, frontier)
      BY OwnedWithout
    <3> QED
      BY <2>1, <2>3, <3>1, <3>2
  <2> QED
    BY <2>1, <2>4, <2>5
<1>3. CASE Visit!PushLeaf
  <2> DEFINE own == Own(input, notes, visitor)
  <2>1. /\ phase = "descend" /\ phase' = "advance"
        /\ frontier' = Visit!Pushed(frontier, visitor)
        /\ visitor' = NoSiblings /\ yielded' = yielded
        /\ IsQueue(input, trie, notes, frontier)
        /\ IsItem(trie, notes, visitor) /\ Apart(input, notes, frontier, own)
    BY <1>3, SameWalkHere DEF Visit!PushLeaf, Visits
  <2>2. IsRest(input, trie, notes, visitor, own)
    BY <2>1, ItemTyped DEF IsRest
  <2> HIDE DEF own
  <2>3. /\ IsQueue(input, trie, notes, frontier')
        /\ Owned(input, notes, frontier') = Owned(input, notes, frontier) \cup own
    BY <2>1, <2>2, QueueGrows
  <2>4. Owned(input, notes, frontier' \cup {visitor'}) =
          Owned(input, notes, frontier \cup {visitor})
    <3>1. Owned(input, notes, frontier \cup {visitor}) =
            Owned(input, notes, frontier) \cup own
      BY <2>1, OwnedWith DEF own
    <3>2. Owned(input, notes, frontier' \cup {NoSiblings}) = Owned(input, notes, frontier')
      BY OwnedWithout
    <3> QED
      BY <2>1, <2>3, <3>1, <3>2
  <2> QED
    BY <2>1, <2>3, <2>4 DEF Visits
<1>4. CASE Visit!PushTail
  <2> DEFINE own == Own(input, notes, visitor)
             below == Below(input, notes, visitor)
             next == NextSibling(trie, visitor)
  <2>1. /\ phase = "descend" /\ phase' = "descend" /\ yielded' = yielded
        /\ ~IsLeaf(trie, visitor.current)
        /\ frontier' = Visit!Pushed(frontier, next)
        /\ visitor' = VisitChildren(trie, visitor.current)
        /\ IsQueue(input, trie, notes, frontier)
        /\ IsItem(trie, notes, visitor) /\ Apart(input, notes, frontier, own)
    BY <1>4, SameViewHere, SameNextHere, SameChildrenHere DEF Visit!PushTail, Visits
  <2>2. PICK c \in DOMAIN notes : visitor' = PosAt(notes, c) /\ notes[c].on = below
    BY <2>1, ItemChildren
  <2>3. IsItem(trie, notes, visitor') /\ Own(input, notes, visitor') = below
    BY <2>2, OwnOfPos DEF IsItem
  <2>4. below \subseteq own
    BY <2>1, ItemTyped
  <2>5. IsRest(input, trie, notes, next, own \ below)
    BY <2>1, ItemNext
  <2> HIDE DEF own, below, next
  <2>6. Apart(input, notes, frontier, own \ below) /\ Apart(input, notes, frontier, below)
    BY <2>1, <2>4 DEF Apart
  <2>7. /\ IsQueue(input, trie, notes, frontier')
        /\ Owned(input, notes, frontier') =
             Owned(input, notes, frontier) \cup (own \ below)
        /\ Apart(input, notes, frontier', below)
    <3>1. (own \ below) \cap below = {}
      OBVIOUS
    <3> QED
      BY <2>1, <2>5, <2>6, <3>1, QueueGrows
  <2>8. Owned(input, notes, frontier' \cup {visitor'}) =
          Owned(input, notes, frontier \cup {visitor})
    <3>1. Owned(input, notes, frontier \cup {visitor}) =
            Owned(input, notes, frontier) \cup own
      BY <2>1, OwnedWith DEF own
    <3>2. Owned(input, notes, frontier' \cup {visitor'}) =
            Owned(input, notes, frontier') \cup Own(input, notes, visitor')
      BY <2>3, OwnedWith
    <3> QED
      BY <2>3, <2>4, <2>7, <3>1, <3>2
  <2>9. Visits(input, trie, notes, frontier', visitor', phase')
    BY <2>1, <2>3, <2>7 DEF Visits
  <2> QED
    BY <2>1, <2>8, <2>9
<1> QED
  BY <1>1, <1>2, <1>3, <1>4 DEF Visit!Advance

(* A visit starts with one iterator, or there is nothing to visit. *)
LEMMA OpenStarts ==
  ASSUME IsInput(input), NEW notes, IsTrieOf(input, trie, notes), frontier = {},
         NEW it, NEW B, IsRest(input, trie, notes, it, B), Visit!Open(it),
         visitor = NoSiblings
  PROVE  /\ Visits(input, trie, notes, frontier', visitor', phase')
         /\ Owned(input, notes, frontier' \cup {visitor'}) = B
         /\ IF AtNode(it) THEN phase' = "advance"
                          ELSE phase' = "ready" /\ frontier' = {}
<1>1. /\ frontier' = Visit!Pushed({}, it) /\ visitor' = NoSiblings
      /\ phase' = IF AtNode(it) THEN "advance" ELSE "ready"
  BY SameAtNodeHere DEF Visit!Open
<1>2. IsQueue(input, trie, notes, {}) /\ Apart(input, notes, {}, B)
      /\ Owned(input, notes, {}) = {}
  BY DEF IsQueue, Apart, Owned
<1>3. IsQueue(input, trie, notes, frontier') /\ Owned(input, notes, frontier') = B
  BY <1>1, <1>2, QueueGrows
<1>4. Owned(input, notes, frontier' \cup {visitor'}) = B
  BY <1>1, <1>3, OwnedWithout
<1>5. ~AtNode(it) => frontier' = {}
  BY <1>1, SameAtNodeHere DEF Visit!Pushed
<1>6. Visits(input, trie, notes, frontier', visitor', phase')
  BY <1>1, <1>3, <1>5 DEF Visits
<1> QED
  BY <1>1, <1>4, <1>5, <1>6

-----------------------------------------------------------------------------
(* The invariant of the calls that visit leaves.                           *)

VisitHolds ==
  /\ phase \in {"none", "advance", "descend", "ready"}
  /\ yielded \in Seq([string : Seq(Char), rank : Nat])
  /\ call # "none" => pc = "done"
  /\ call = "complete" /\ search # "none" => suggestions # <<>>
  /\ IF phase = "none"
     THEN frontier = {} /\ visitor = NoSiblings /\ yielded = <<>>
     ELSE /\ call \in {"begin", "complete"}
          /\ IF suggestions = <<>>
             THEN /\ frontier = {} /\ visitor = NoSiblings
                  /\ phase = "ready" /\ yielded = <<>>
             ELSE \E notes : /\ IsTrieOf(input, trie, notes)
                             /\ Visits(input, trie, notes, frontier, visitor, phase)

LEMMA VisitStarts == TrieInit => VisitHolds
<1> SUFFICES ASSUME TrieInit PROVE VisitHolds
  OBVIOUS
<1>1. /\ frontier = {} /\ visitor = NoSiblings /\ phase = "none"
      /\ yielded = <<>> /\ call = "none"
  BY SameWalkHere DEF TrieInit, ReaderInit, Visit!Init
<1>2. <<>> \in Seq([string : Seq(Char), rank : Nat])
  BY EmptySeq
<1> QED
  BY <1>1, <1>2 DEF VisitHolds

(* Steps that leave the visit alone. *)
LEMMA VisitIdle ==
  ASSUME VisitHolds, UNCHANGED iteratorVars,
         phase # "none" => UNCHANGED <<input, trie, call>>,
         call' # "none" => pc' = "done",
         call' = "complete" /\ search' # "none" => suggestions' # <<>>
  PROVE  VisitHolds'
<1>1. UNCHANGED <<frontier, visitor, phase, yielded>>
  BY DEF iteratorVars
<1>2. CASE phase = "none"
  BY <1>1, <1>2 DEF VisitHolds
<1>3. CASE phase # "none"
  <2>1. UNCHANGED <<input, trie, call>> /\ suggestions' = suggestions
    BY <1>3 DEF suggestions
  <2>2. CASE suggestions = <<>>
    BY <1>1, <1>3, <2>1, <2>2 DEF VisitHolds
  <2>3. CASE suggestions # <<>>
    <3>1. PICK notes : /\ IsTrieOf(input, trie, notes)
                       /\ Visits(input, trie, notes, frontier, visitor, phase)
      BY <1>3, <2>3 DEF VisitHolds
    <3>2. /\ IsTrieOf(input', trie', notes)
          /\ Visits(input', trie', notes, frontier', visitor', phase')
      BY <1>1, <2>1, <3>1
    <3> QED
      BY <1>1, <1>3, <2>1, <2>3, <3>2 DEF VisitHolds
  <2> QED
    BY <2>2, <2>3
<1> QED
  BY <1>2, <1>3

(* The bytes when a call is made. *)
LEMMA TrieIsThere ==
  ASSUME Inv, Contents, pc = "done"
  PROVE  /\ IsInput(input)
         /\ IF suggestions = <<>>
            THEN /\ trie = LeafRootHeader /\ empty
                 /\ VisitChildren(trie, Root(trie)) = NoSiblings
            ELSE \E notes : IsTrieOf(input, trie, notes)
<1>1. IsInput(input) /\ HoldsInput(input, trie)
  BY InputIsTyped DEF Contents
<1>2. IsLeaf(LeafRootHeader, Root(LeafRootHeader))
  BY EmptyRootSeen
<1>3. VisitChildren(LeafRootHeader, Root(LeafRootHeader)) = NoSiblings
  BY <1>2 DEF VisitChildren
<1> QED
  BY <1>1, <1>2, <1>3 DEF HoldsInput, suggestions, empty

(* begin starts from all suggestions, if there are any. *)
LEMMA BeginOpens ==
  ASSUME Inv, Contents, VisitHolds, CallBegin
  PROVE  /\ VisitHolds'
         /\ phase = "none" /\ call = "none" /\ call' = "begin" /\ pc = "done"
         /\ UNCHANGED <<vars, matchVars, answer, yielded>>
         /\ IF suggestions = <<>>
            THEN phase' = "ready" /\ frontier' = {} /\ visitor' = NoSiblings
            ELSE /\ phase' = "advance"
                 /\ \E notes : /\ IsTrieOf(input, trie, notes)
                               /\ Visits(input, trie, notes, frontier', visitor', phase')
                               /\ Owned(input, notes, frontier' \cup {visitor'}) =
                                    DOMAIN input.suggestions
<1> DEFINE it == VisitChildren(trie, Root(trie))
<1>1. /\ phase = "none" /\ call = "none" /\ call' = "begin" /\ pc = "done"
      /\ Visit!Open(it) /\ visitor' = visitor /\ yielded' = yielded
      /\ UNCHANGED <<vars, matchVars, answer>>
      /\ frontier' = Visit!Pushed({}, it)
      /\ phase' = IF AtNode(it) THEN "advance" ELSE "ready"
  BY SameAtNodeHere DEF CallBegin, Calls, Visit!Open, builderVars
<1>2. /\ frontier = {} /\ visitor = NoSiblings /\ yielded = <<>>
      /\ yielded \in Seq([string : Seq(Char), rank : Nat])
  BY <1>1 DEF VisitHolds
<1>3. UNCHANGED <<input, trie, pc>> /\ suggestions' = suggestions /\ search' = search
  BY <1>1 DEF vars, suggestions, matchVars
<1>4. CASE suggestions = <<>>
  <2>1. it = NoSiblings
    BY <1>1, <1>4, TrieIsThere
  <2>2. frontier' = {} /\ phase' = "ready"
    BY <1>1, <2>1, NoNodeThere, SameAtNodeHere DEF Visit!Pushed
  <2> QED
    BY <1>1, <1>2, <1>3, <1>4, <2>2 DEF VisitHolds
<1>5. CASE suggestions # <<>>
  <2>1. IsInput(input) /\ \E notes : IsTrieOf(input, trie, notes)
    BY <1>1, <1>5, TrieIsThere
  <2>2. PICK notes : IsTrieOf(input, trie, notes)
    BY <2>1
  <2>3. 2 \in DOMAIN notes /\ notes[2].on = DOMAIN input.suggestions /\ it = PosAt(notes, 2)
    BY <2>2, RootChildren
  <2>4. /\ it \in Siblings /\ AtNode(it)
        /\ Own(input, notes, it) = DOMAIN input.suggestions
    BY <2>2, <2>3, OwnOfPos
  <2>5. IsItem(trie, notes, it)
    BY <2>3 DEF IsItem
  <2> HIDE DEF it
  <2>6. IsRest(input, trie, notes, it, DOMAIN input.suggestions)
    BY <2>4, <2>5 DEF IsRest
  <2>7. /\ Visits(input, trie, notes, frontier', visitor', phase')
        /\ Owned(input, notes, frontier' \cup {visitor'}) = DOMAIN input.suggestions
        /\ phase' = "advance"
    BY <1>1, <1>2, <2>1, <2>2, <2>4, <2>6, OpenStarts
  <2>8. VisitHolds'
    BY <1>1, <1>2, <1>3, <1>5, <2>2, <2>7 DEF VisitHolds
  <2> QED
    BY <1>1, <1>5, <2>2, <2>7, <2>8
<1> QED
  BY <1>4, <1>5

LEMMA CompleteOfEmptyOpens ==
  ASSUME Inv, Contents, CallHolds, VisitHolds,
         NEW q \in Queries, CallCompleteOfEmpty(q)
  PROVE  /\ VisitHolds'
         /\ phase = "none" /\ call = "none" /\ call' = "complete" /\ pc = "done"
         /\ UNCHANGED <<vars, yielded>>
         /\ suggestions = <<>>
         /\ phase' = "ready" /\ frontier' = {} /\ visitor' = NoSiblings
<1>1. /\ phase = "none" /\ call = "none" /\ call' = "complete" /\ pc = "done" /\ empty
      /\ visitor' = visitor /\ yielded' = yielded /\ search' = search
      /\ UNCHANGED vars
      /\ frontier' = Visit!Pushed({}, NoSiblings)
      /\ phase' = IF AtNode(NoSiblings) THEN "advance" ELSE "ready"
  BY SameAtNodeHere, SameWalkHere DEF CallCompleteOfEmpty, Calls, Visit!Open, builderVars
<1>2. /\ frontier = {} /\ visitor = NoSiblings /\ yielded = <<>>
      /\ yielded \in Seq([string : Seq(Char), rank : Nat])
  BY <1>1 DEF VisitHolds
<1>3. UNCHANGED <<input, trie, pc>> /\ suggestions' = suggestions
  BY <1>1 DEF vars, suggestions
<1>4. suggestions = <<>>
  <2> SUFFICES ASSUME suggestions # <<>> PROVE FALSE
    OBVIOUS
  <2>1. PICK notes : IsTrieOf(input, trie, notes)
    BY <1>1, TrieIsThere
  <2> QED
    BY <1>1, <2>1, RootChildren DEF empty
<1>5. frontier' = {} /\ phase' = "ready"
  BY <1>1, NoNodeThere, SameAtNodeHere DEF Visit!Pushed
<1>6. search' = "none"
  BY <1>1 DEF CallHolds
<1>7. VisitHolds'
  BY <1>1, <1>2, <1>3, <1>4, <1>5, <1>6 DEF VisitHolds
<1> QED
  BY <1>1, <1>2, <1>4, <1>5, <1>7

(* complete starts from the node that the whole prefix matched, which is   *)
(* all the suggestions that start with it; there are none if the match     *)
(* ended before.                                                           *)
LEMMA CompletionsOpen ==
  ASSUME Inv, Contents, CallHolds, MatchHolds, VisitHolds, OpenCompletions
  PROVE  /\ VisitHolds'
         /\ phase = "none" /\ pc = "done" /\ suggestions # <<>>
         /\ UNCHANGED <<vars, matchVars, call, answer, yielded>>
         /\ IF first = Len(string)
            THEN phase' = "advance"
            ELSE phase' = "ready" /\ frontier' = {}
         /\ \E notes : /\ IsTrieOf(input, trie, notes)
                       /\ Visits(input, trie, notes, frontier', visitor', phase')
                       /\ Exact(input, string) =>
                            Owned(input, notes, frontier' \cup {visitor'}) =
                              Agreeing(input, string, Len(string))
<1> DEFINE it == IF first = Len(string) THEN Visit!Alone(locus) ELSE NoSiblings
<1>1. /\ call = "complete" /\ search = "returned" /\ phase = "none"
      /\ Visit!Open(it) /\ visitor' = visitor /\ yielded' = yielded
      /\ UNCHANGED <<vars, matchVars, call, answer>>
  BY SameWalkHere DEF OpenCompletions, Visit!Open, builderVars
<1>2. /\ frontier = {} /\ visitor = NoSiblings /\ yielded = <<>>
      /\ yielded \in Seq([string : Seq(Char), rank : Nat])
      /\ suggestions # <<>> /\ pc = "done"
  BY <1>1 DEF VisitHolds
<1>3. UNCHANGED <<input, trie, pc>> /\ suggestions' = suggestions
  BY <1>1 DEF vars, suggestions
<1>4. IsInput(input) /\ finder = "prefix_match"
  BY <1>1, InputIsTyped DEF CallHolds
<1>5. PICK notes : IsTrieOf(input, trie, notes) /\ MatchingIn(notes)
  BY <1>1, <1>2 DEF MatchHolds
<1>6. MatchTyped
  BY <1>1 DEF MatchHolds
<1>7. string \in Seq(Char) /\ first \in 0 .. Len(string) /\ Len(string) \in Nat
  BY <1>6 DEF MatchTyped
<1>8. AtReturn(input, trie, notes, finder, string, first, locus, found)
  BY <1>1, <1>5 DEF MatchingIn, Matches
<1> DEFINE all == Agreeing(input, string, Len(string))
<1>9. \E B : /\ IsRest(input, trie, notes, it, B)
             /\ Exact(input, string) => B = all
             /\ AtNode(it) <=> first = Len(string)
  <2>1. CASE first = Len(string)
    <3>1. it = Alone(trie, locus)
      BY <2>1, SameWidthHere DEF Visit!Alone, Alone, Visit!Skip, Skip
    <3>2. IsPlace(trie, notes, locus)
      BY <1>8 DEF AtReturn
    <3>3. Exact(input, string) => IsBelow(input, trie, notes, locus, all)
      BY <1>4, <1>8, <2>1 DEF AtReturn
    <3> HIDE DEF it, all
    <3>4. /\ IsItem(trie, notes, it) /\ it \in Siblings /\ AtNode(it)
          /\ \A B : IsBelow(input, trie, notes, locus, B) => Own(input, notes, it) = B
      <4>1. IsItem(trie, notes, it)
        BY <3>1, <3>2 DEF IsPlace, IsItem
      <4>2. it \in Siblings /\ AtNode(it) /\ it.current = locus
        BY <1>4, <1>5, <3>1, <4>1, ItemTyped DEF Alone
      <4>3. ASSUME NEW B, IsBelow(input, trie, notes, locus, B)
            PROVE  Own(input, notes, it) = B
        <5>1. CASE locus = Root(trie) /\ B = DOMAIN input.suggestions
          BY <1>5, <3>1, <5>1, OwnOfRoot
        <5>2. ASSUME NEW a \in DOMAIN notes, locus = NodeAt(notes, a), B = notes[a].below
              PROVE  Own(input, notes, it) = B
          BY <1>5, <3>1, <5>2, OwnOfAlone
        <5> QED
          BY <4>3, <5>1, <5>2 DEF IsBelow
      <4> QED
        BY <4>1, <4>2, <4>3
    <3>5. IsRest(input, trie, notes, it, Own(input, notes, it))
      BY <3>4 DEF IsRest
    <3>6. Exact(input, string) => Own(input, notes, it) = all
      BY <3>3, <3>4
    <3> QED
      BY <2>1, <3>4, <3>5, <3>6
  <2>2. CASE first # Len(string)
    <3>1. it = NoSiblings
      BY <2>2
    <3>2. Exact(input, string) => all = {}
      <4> SUFFICES ASSUME Exact(input, string), NEW k \in all PROVE FALSE
        OBVIOUS
      <4>1. Agreeing(input, string, first + 1) = {}
        BY <1>4, <1>8, <2>2 DEF AtReturn, IsMatched
      <4>2. k \in DOMAIN input.suggestions /\ Agrees(input, k, string, Len(string))
        BY DEF Agreeing
      <4>3. first + 1 \in Nat /\ first + 1 <= Len(string)
        BY <1>7, <2>2
      <4>4. Agrees(input, k, string, first + 1)
        BY <1>4, <1>7, <4>2, <4>3, AgreesLess
      <4> QED
        BY <4>1, <4>2, <4>4 DEF Agreeing
    <3> HIDE DEF it, all
    <3>3. IsRest(input, trie, notes, it, {}) /\ ~AtNode(it)
      BY <3>1, NoNodeThere DEF IsRest
    <3> QED
      BY <2>2, <3>2, <3>3
  <2> QED
    BY <2>1, <2>2
<1>10. PICK B : /\ IsRest(input, trie, notes, it, B)
                /\ Exact(input, string) => B = all
                /\ AtNode(it) <=> first = Len(string)
  BY <1>9
<1> HIDE DEF it, all
<1>11. /\ Visits(input, trie, notes, frontier', visitor', phase')
       /\ Owned(input, notes, frontier' \cup {visitor'}) = B
       /\ IF AtNode(it) THEN phase' = "advance"
                        ELSE phase' = "ready" /\ frontier' = {}
  BY <1>1, <1>2, <1>4, <1>5, <1>10, OpenStarts
<1>12. VisitHolds'
  <2>1. /\ phase' \in {"advance", "ready"} /\ call' = "complete" /\ pc' = "done"
        /\ yielded' \in Seq([string : Seq(Char), rank : Nat])
        /\ suggestions' # <<>>
    BY <1>1, <1>2, <1>3, <1>11
  <2>2. \E n : /\ IsTrieOf(input', trie', n)
               /\ Visits(input', trie', n, frontier', visitor', phase')
    BY <1>3, <1>5, <1>11
  <2> QED
    BY <2>1, <2>2 DEF VisitHolds
<1>13. \E n : /\ IsTrieOf(input, trie, n)
              /\ Visits(input, trie, n, frontier', visitor', phase')
              /\ Exact(input, string) =>
                   Owned(input, n, frontier' \cup {visitor'}) = all
  BY <1>5, <1>10, <1>11
<1>14. IF first = Len(string) THEN phase' = "advance"
                              ELSE phase' = "ready" /\ frontier' = {}
  BY <1>10, <1>11
<1> QED
  BY <1>1, <1>2, <1>12, <1>13, <1>14 DEF all

LEMMA EntryTyped ==
  ASSUME NEW in, IsInput(in), NEW bytes, NEW notes, IsTrieOf(in, bytes, notes),
         NEW k \in DOMAIN in.suggestions
  PROVE  EntryIn(in, k) \in [string : Seq(Char), rank : Nat]
<1>1. in.suggestions[k] \in Seq(Char)
  BY SuggestionTyped
<1>2. in.ranks[k] \in Nat
  BY RanksOfAll
<1> QED
  BY <1>1, <1>2 DEF EntryIn

(* The iterators of a visit, and what they own. *)
LEMMA VisitsItems ==
  ASSUME NEW in, IsInput(in), NEW bytes, NEW notes, IsTrieOf(in, bytes, notes),
         NEW queue, NEW at, NEW state, Visits(in, bytes, notes, queue, at, state)
  PROVE  /\ queue \cup {at} \subseteq Siblings
         /\ \A it \in queue \cup {at} : AtNode(it) => IsItem(bytes, notes, it)
         /\ \A it \in queue : AtNode(it)
         /\ AtNode(at) => state = "descend"
         /\ state = "descend" => AtNode(at)
         /\ Owned(in, notes, queue \cup {at}) \subseteq DOMAIN in.suggestions
<1>1. \A it \in queue : IsItem(bytes, notes, it)
  BY DEF Visits, IsQueue
<1>2. /\ state = "descend" => IsItem(bytes, notes, at)
      /\ state # "descend" => at = NoSiblings
  BY DEF Visits
<1>3. ~AtNode(NoSiblings) /\ NoSiblings \in Siblings
  BY NoNodeThere
<1>4. ASSUME NEW it, IsItem(bytes, notes, it)
      PROVE  /\ it \in Siblings /\ AtNode(it)
             /\ Own(in, notes, it) \subseteq DOMAIN in.suggestions
  BY <1>4, ItemTyped
<1>5. \A it \in queue \cup {at} : AtNode(it) => IsItem(bytes, notes, it)
  BY <1>1, <1>2, <1>3
<1>6. Owned(in, notes, queue \cup {at}) \subseteq DOMAIN in.suggestions
  BY <1>4, <1>5 DEF Owned
<1> QED
  BY <1>1, <1>2, <1>3, <1>4, <1>5, <1>6

LEMMA ToComeTyped ==
  ASSUME IsInput(input), NEW notes, IsTrieOf(input, trie, notes),
         Visits(input, trie, notes, frontier, visitor, phase)
  PROVE  ToCome(notes) \subseteq DOMAIN input.suggestions
BY VisitsItems DEF ToCome

(* ++it takes one suggestion of those to come, of least rank. *)
LEMMA IncrementVisits ==
  ASSUME Inv, Contents, VisitHolds, Increment
  PROVE  /\ VisitHolds'
         /\ phase = "ready" /\ frontier # {} /\ phase' = "advance"
         /\ suggestions # <<>> /\ call \in {"begin", "complete"} /\ pc = "done"
         /\ UNCHANGED <<vars, matchVars, call, answer>>
         /\ \E notes :
              /\ IsTrieOf(input, trie, notes)
              /\ Visits(input, trie, notes, frontier, visitor, phase)
              /\ Visits(input, trie, notes, frontier', visitor', phase')
              /\ \E k \in ToCome(notes) :
                   /\ yielded' = Append(yielded, EntryIn(input, k))
                   /\ \A j \in ToCome(notes) : input.ranks[k] <= input.ranks[j]
                   /\ Owned(input, notes, frontier' \cup {visitor'}) = ToCome(notes) \ {k}
<1>1. Visit!Increment /\ UNCHANGED <<vars, matchVars, call, answer>>
  BY DEF Increment, builderVars
<1>2. phase = "ready" /\ frontier # {}
  BY <1>1 DEF Visit!Increment
<1>3. /\ suggestions # <<>> /\ call \in {"begin", "complete"} /\ pc = "done"
      /\ yielded \in Seq([string : Seq(Char), rank : Nat])
  BY <1>2 DEF VisitHolds
<1>4. PICK notes : /\ IsTrieOf(input, trie, notes)
                   /\ Visits(input, trie, notes, frontier, visitor, phase)
  BY <1>2, <1>3 DEF VisitHolds
<1>5. IsInput(input)
  BY InputIsTyped
<1>6. /\ \E k \in ToCome(notes) :
           /\ yielded' = Append(yielded, EntryIn(input, k))
           /\ \A j \in ToCome(notes) : input.ranks[k] <= input.ranks[j]
           /\ Owned(input, notes, frontier' \cup {visitor'}) = ToCome(notes) \ {k}
      /\ Visits(input, trie, notes, frontier', visitor', phase')
      /\ phase' = "advance"
  BY <1>1, <1>4, <1>5, IncrementTakes
<1>7. PICK k \in ToCome(notes) : yielded' = Append(yielded, EntryIn(input, k))
  BY <1>6
<1>8. k \in DOMAIN input.suggestions
  BY <1>4, <1>5, <1>7, ToComeTyped
<1>9. yielded' \in Seq([string : Seq(Char), rank : Nat])
  BY <1>3, <1>4, <1>5, <1>7, <1>8, EntryTyped, AppendProperties
<1>10. VisitHolds'
  <2>1. /\ phase' = "advance" /\ call' \in {"begin", "complete"} /\ pc' = "done"
        /\ suggestions' # <<>>
    BY <1>1, <1>3, <1>6 DEF vars, suggestions
  <2>2. /\ IsTrieOf(input', trie', notes)
        /\ Visits(input', trie', notes, frontier', visitor', phase')
    BY <1>1, <1>4, <1>6 DEF vars
  <2> QED
    BY <1>9, <2>1, <2>2 DEF VisitHolds
<1> QED
  BY <1>1, <1>2, <1>3, <1>4, <1>6, <1>10

(* The loops of ++ leave what is to come as it is. *)
LEMMA AdvanceVisits ==
  ASSUME Inv, Contents, VisitHolds, AdvanceStep
  PROVE  /\ VisitHolds'
         /\ phase \in {"advance", "descend"}
         /\ phase' \in {"advance", "descend", "ready"}
         /\ phase' = "ready" => UNCHANGED frontier
         /\ suggestions # <<>> /\ call \in {"begin", "complete"} /\ pc = "done"
         /\ UNCHANGED <<vars, matchVars, call, answer, yielded>>
         /\ \E notes :
              /\ IsTrieOf(input, trie, notes)
              /\ Visits(input, trie, notes, frontier, visitor, phase)
              /\ Visits(input, trie, notes, frontier', visitor', phase')
              /\ Owned(input, notes, frontier' \cup {visitor'}) = ToCome(notes)
<1>1. Visit!Advance /\ UNCHANGED <<vars, matchVars, call, answer>>
  BY DEF AdvanceStep, builderVars
<1>2. phase \in {"advance", "descend"}
  BY <1>1 DEF Visit!Advance, Visit!AdvanceEnds, Visit!AdvanceDescends,
              Visit!PushLeaf, Visit!PushTail
<1>3. /\ suggestions # <<>> /\ call \in {"begin", "complete"} /\ pc = "done"
      /\ yielded \in Seq([string : Seq(Char), rank : Nat])
  BY <1>2 DEF VisitHolds
<1>4. PICK notes : /\ IsTrieOf(input, trie, notes)
                   /\ Visits(input, trie, notes, frontier, visitor, phase)
  BY <1>2, <1>3 DEF VisitHolds
<1>5. IsInput(input)
  BY InputIsTyped
<1>6. /\ Visits(input, trie, notes, frontier', visitor', phase')
      /\ Owned(input, notes, frontier' \cup {visitor'}) = ToCome(notes)
      /\ yielded' = yielded
      /\ phase' \in {"advance", "descend", "ready"}
      /\ phase' = "ready" => UNCHANGED frontier
  BY <1>1, <1>4, <1>5, AdvanceKeeps
<1>7. VisitHolds'
  <2>1. /\ call' \in {"begin", "complete"} /\ pc' = "done" /\ suggestions' # <<>>
    BY <1>1, <1>3 DEF vars, suggestions
  <2>2. /\ IsTrieOf(input', trie', notes)
        /\ Visits(input', trie', notes, frontier', visitor', phase')
    BY <1>1, <1>4, <1>6 DEF vars
  <2>3. yielded' \in Seq([string : Seq(Char), rank : Nat])
    BY <1>3, <1>6
  <2> QED
    BY <1>6, <2>1, <2>2, <2>3 DEF VisitHolds
<1> QED
  BY <1>1, <1>2, <1>3, <1>4, <1>6, <1>7

LEMMA VisitKeeps ==
  Inv /\ Contents /\ CallHolds /\ MatchHolds /\ VisitHolds /\ [TrieNext]_allVars =>
    VisitHolds'
<1> SUFFICES ASSUME Inv, Contents, CallHolds, MatchHolds, VisitHolds,
                    [TrieNext]_allVars
             PROVE  VisitHolds'
  OBVIOUS
<1>1. CASE Build
  <2>1. Next /\ UNCHANGED <<matchVars, iteratorVars, call, answer>>
    BY <1>1 DEF Build
  <2>2. pc # "done"
    BY <2>1, BuildEnds
  <2>3. call = "none" /\ call' = call
    BY <2>1, <2>2 DEF VisitHolds
  <2>4. phase = "none"
    BY <2>3 DEF VisitHolds
  <2> QED
    BY <2>1, <2>3, <2>4, VisitIdle
<1>2. CASE CallBegin
  BY <1>2, BeginOpens
<1>3. ASSUME NEW q \in Queries, CallCompleteOfEmpty(q)
      PROVE  VisitHolds'
  BY <1>3, CompleteOfEmptyOpens
<1>4. ASSUME NEW q \in Queries,
             CallComplete(q) \/ CallMismatch(q) \/ CallCount(q) \/ CallScore(q)
      PROVE  VisitHolds'
  <2>1. /\ pc = "done" /\ call = "none" /\ UNCHANGED <<vars, iteratorVars>>
        /\ call' = "complete" => ~empty
    BY <1>4 DEF CallComplete, CallMismatch, CallCount, CallScore, CallMatch, Calls,
                builderVars
  <2>2. UNCHANGED <<input, trie, pc>> /\ suggestions' = suggestions
    BY <2>1 DEF vars, suggestions
  <2>3. phase = "none"
    BY <2>1 DEF VisitHolds
  <2>4. call' = "complete" => suggestions' # <<>>
    BY <2>1, <2>2, TrieIsThere
  <2> QED
    BY <2>1, <2>2, <2>3, <2>4, VisitIdle
<1>5. CASE OpenCompletions
  BY <1>5, CompletionsOpen
<1>6. CASE Increment
  BY <1>6, IncrementVisits
<1>7. CASE AdvanceStep
  BY <1>7, AdvanceVisits
<1>8. CASE MatchStep \/ ReturnMismatch \/ ReturnCount \/ ReturnScore \/ UNCHANGED allVars
  <2>1. /\ UNCHANGED <<vars, iteratorVars, call>>
        /\ search' # "none" => search # "none"
    <3>1. CASE MatchStep
      BY <3>1, MatchMoves DEF MatchStep, builderVars
    <3>2. CASE ReturnMismatch \/ ReturnCount \/ ReturnScore \/ UNCHANGED allVars
      BY <3>2 DEF ReturnMismatch, ReturnCount, ReturnScore, Answer, builderVars,
                  allVars, matchVars
    <3> QED
      BY <1>8, <3>1, <3>2
  <2>2. UNCHANGED <<input, trie, pc, call>> /\ suggestions' = suggestions
    BY <2>1 DEF vars, suggestions
  <2>3. call' # "none" => pc' = "done"
    BY <2>2 DEF VisitHolds
  <2>4. call' = "complete" /\ search' # "none" => suggestions' # <<>>
    BY <2>1, <2>2 DEF VisitHolds
  <2> QED
    BY <2>1, <2>2, <2>3, <2>4, VisitIdle
<1> QED
  BY <1>1, <1>2, <1>3, <1>4, <1>5, <1>6, <1>7, <1>8 DEF TrieNext, Read

(* A visit always stands for the suggestions that are to come, and its     *)
(* iterators share none.                                                   *)
THEOREM VisitsHold == TrieSpec => []VisitHolds
<1>1. TrieSpec => []Inv /\ []Contents
  BY BuildsOnly, Invariant, ContentsHold, PTL
<1> QED
  BY <1>1, CallsHold, VisitStarts, VisitKeeps, PTL DEF TrieSpec

-----------------------------------------------------------------------------
(* What is wanted, and what is owed.                                       *)

EntriesOf(in) ==
  {[string |-> in.suggestions[i], rank |-> in.ranks[i]] : i \in DOMAIN in.suggestions}

WantedOf(in, operation, text) ==
  LET entries ==
        CASE operation = "begin"    -> EntriesOf(in)
          [] operation = "complete" -> {e \in EntriesOf(in) : IsPrefix(text, e.string)}
          [] OTHER                  -> {}
  IN  [e \in entries |->
         Cardinality({i \in DOMAIN in.suggestions :
                        in.suggestions[i] = e.string /\ in.ranks[i] = e.rank})]

LEMMA WantedHere ==
  /\ Wanted = WantedOf(input, call, string)
  /\ Wanted' = WantedOf(input', call', string')
BY DEF Wanted, WantedOf, InputEntries, EntriesOf, HowOften, suggestions, ranks

LEMMA NoEntries ==
  ASSUME NEW in, NEW B, B = {}
  PROVE  BagFrom(in, B) = EmptyBag
<1> DEFINE N(e) == Cardinality({k \in B : EntryIn(in, k) = e})
<1>1. BagFrom(in, B) = [e \in {EntryIn(in, k) : k \in B} |-> N(e)]
  BY DEF BagFrom
<1>2. {EntryIn(in, k) : k \in B} = {}
  OBVIOUS
<1> HIDE DEF N
<1>3. BagFrom(in, B) = [e \in {} |-> N(e)]
  BY <1>1, <1>2
<1>4. BagFrom(in, B) = [e \in {} |-> 1]
  BY <1>3
<1> QED
  BY <1>4 DEF EmptyBag, SetToBag

LEMMA NothingWanted ==
  ASSUME NEW in, NEW operation, operation \notin {"begin", "complete"}, NEW text
  PROVE  WantedOf(in, operation, text) = EmptyBag
<1> DEFINE N(e) == Cardinality({i \in DOMAIN in.suggestions :
                                  in.suggestions[i] = e.string /\ in.ranks[i] = e.rank})
<1>1. WantedOf(in, operation, text) = [e \in {} |-> N(e)]
  BY DEF WantedOf
<1> HIDE DEF N
<1>2. WantedOf(in, operation, text) = [e \in {} |-> 1]
  BY <1>1
<1> QED
  BY <1>2 DEF EmptyBag, SetToBag

(* The suggestions asked for, when the entries asked for are theirs. *)
LEMMA WantedFrom ==
  ASSUME NEW in, NEW B \in SUBSET DOMAIN in.suggestions,
         NEW entries, entries = {EntryIn(in, k) : k \in B},
         \A j \in DOMAIN in.suggestions : EntryIn(in, j) \in entries => j \in B
  PROVE  [e \in entries |->
            Cardinality({i \in DOMAIN in.suggestions :
                           in.suggestions[i] = e.string /\ in.ranks[i] = e.rank})]
           = BagFrom(in, B)
<1> DEFINE W(e) == {i \in DOMAIN in.suggestions :
                      in.suggestions[i] = e.string /\ in.ranks[i] = e.rank}
           K(e) == {k \in B : EntryIn(in, k) = e}
<1>1. ASSUME NEW e \in entries
      PROVE  W(e) = K(e)
  <2>1. PICK k \in B : e = EntryIn(in, k)
    OBVIOUS
  <2>2. \A i \in DOMAIN in.suggestions :
          in.suggestions[i] = e.string /\ in.ranks[i] = e.rank <=> EntryIn(in, i) = e
    BY <2>1 DEF EntryIn
  <2> QED
    BY <2>2
<1> HIDE DEF W, K
<1>2. [e \in entries |-> Cardinality(W(e))] = [e \in entries |-> Cardinality(K(e))]
  BY <1>1
<1> QED
  BY <1>2 DEF W, K, BagFrom

LEMMA AllWanted ==
  ASSUME NEW in, NEW text
  PROVE  WantedOf(in, "begin", text) = BagFrom(in, DOMAIN in.suggestions)
<1> DEFINE entries == EntriesOf(in)
<1>1. entries = {EntryIn(in, k) : k \in DOMAIN in.suggestions}
  BY DEF EntriesOf, EntryIn
<1>2. WantedOf(in, "begin", text) =
        [e \in entries |->
           Cardinality({i \in DOMAIN in.suggestions :
                          in.suggestions[i] = e.string /\ in.ranks[i] = e.rank})]
  BY DEF WantedOf
<1> HIDE DEF entries
<1> QED
  BY <1>1, <1>2, WantedFrom

LEMMA CompletionsWanted ==
  ASSUME NEW in, IsInput(in), NEW text \in Seq(Char)
  PROVE  WantedOf(in, "complete", text) = BagFrom(in, Agreeing(in, text, Len(text)))
<1> DEFINE entries == {e \in EntriesOf(in) : IsPrefix(text, e.string)}
           B == Agreeing(in, text, Len(text))
<1>1. Len(text) \in 0 .. Len(text) /\ SubSeq(text, 1, Len(text)) = text
  <2>1. Len(text) \in Nat
    BY LenProperties
  <2>2. \A i \in 1 .. Len(text) : SubSeq(text, 1, Len(text))[i] = text[i]
    BY <2>1
  <2>3. SubSeq(text, 1, Len(text)) \in Seq(Char) /\ Len(SubSeq(text, 1, Len(text))) = Len(text)
    BY <2>1
  <2> QED
    BY <2>1, <2>2, <2>3, SeqEqual
<1>2. \A k \in DOMAIN in.suggestions : IsPrefix(text, in.suggestions[k]) <=> k \in B
  BY <1>1, PrefixAgrees DEF Agreeing
<1>3. B \in SUBSET DOMAIN in.suggestions
  BY DEF Agreeing
<1> HIDE DEF B
<1>4. \A k \in DOMAIN in.suggestions : EntryIn(in, k).string = in.suggestions[k]
  BY DEF EntryIn
<1>5. EntriesOf(in) = {EntryIn(in, k) : k \in DOMAIN in.suggestions}
  BY DEF EntriesOf, EntryIn
<1>6. entries = {EntryIn(in, k) : k \in B}
  BY <1>2, <1>3, <1>4, <1>5
<1>7. \A j \in DOMAIN in.suggestions : EntryIn(in, j) \in entries => j \in B
  BY <1>2, <1>4
<1>8. WantedOf(in, "complete", text) =
        [e \in entries |->
           Cardinality({i \in DOMAIN in.suggestions :
                          in.suggestions[i] = e.string /\ in.ranks[i] = e.rank})]
  BY DEF WantedOf
<1> HIDE DEF entries
<1>9. WantedOf(in, "complete", text) = BagFrom(in, B)
  BY <1>3, <1>6, <1>7, <1>8, WantedFrom
<1> QED
  BY <1>9 DEF B

(* Nothing of an empty input is wanted. *)
LEMMA NothingToWant ==
  ASSUME NEW in, in.suggestions = <<>>, NEW operation, NEW text
  PROVE  WantedOf(in, operation, text) = EmptyBag
<1> DEFINE N(e) == Cardinality({i \in DOMAIN in.suggestions :
                                  in.suggestions[i] = e.string /\ in.ranks[i] = e.rank})
           entries == CASE operation = "begin"    -> EntriesOf(in)
                        [] operation = "complete" -> {e \in EntriesOf(in) : IsPrefix(text, e.string)}
                        [] OTHER                  -> {}
<1>1. DOMAIN in.suggestions = {}
  OBVIOUS
<1>2. EntriesOf(in) = {}
  BY <1>1 DEF EntriesOf
<1>3. entries = {}
  BY <1>2
<1>4. WantedOf(in, operation, text) = [e \in entries |-> N(e)]
  BY DEF WantedOf
<1> HIDE DEF N, entries
<1>5. WantedOf(in, operation, text) = [e \in {} |-> 1]
  BY <1>3, <1>4
<1> QED
  BY <1>5 DEF EmptyBag, SetToBag

(* What some iterators still lead to. *)
ReachableFrom(its) ==
  EntriesAt[Leaves(trie, Root(trie), <<>>)][UNION {AddressesFrom[it] : it \in its}]

LEMMA ReachableHere ==
  /\ Reachable = ReachableFrom(frontier \cup {visitor})
  /\ trie' = trie => Reachable' = ReachableFrom(frontier' \cup {visitor'})
<1>1. ASSUME trie' = trie PROVE AddressesFrom' = AddressesFrom
  BY <1>1 DEF AddressesFrom
<1>2. Reachable' = EntriesAt[Leaves(trie', Root(trie'), <<>>)]
                     [UNION {(AddressesFrom')[it] : it \in frontier' \cup {visitor'}}]
  BY DEF Reachable
<1>3. ASSUME trie' = trie PROVE Reachable' = ReachableFrom(frontier' \cup {visitor'})
  BY <1>1, <1>2, <1>3 DEF ReachableFrom
<1>4. Reachable = ReachableFrom(frontier \cup {visitor})
  BY DEF Reachable, ReachableFrom
<1> QED
  BY <1>3, <1>4

LEMMA VisitReaches ==
  ASSUME IsInput(input), NEW notes, IsTrieOf(input, trie, notes),
         NEW queue, NEW at, NEW state, Visits(input, trie, notes, queue, at, state)
  PROVE  ReachableFrom(queue \cup {at}) =
           BagFrom(input, Owned(input, notes, queue \cup {at}))
<1>1. /\ queue \cup {at} \subseteq Siblings
      /\ \A it \in queue \cup {at} : AtNode(it) => IsItem(trie, notes, it)
  BY VisitsItems
<1> QED
  BY <1>1, OwedAre DEF ReachableFrom

LEMMA NothingReached ==
  ASSUME trie = LeafRootHeader
  PROVE  ReachableFrom({NoSiblings}) = EmptyBag
<1>1. Len(trie) \in Nat
  BY EmptyRootSeen, RootBytes
<1>2. AddressesFrom[NoSiblings] = {}
  BY <1>1, AddressesAre, NoNodeThere
<1>3. UNION {AddressesFrom[it] : it \in {NoSiblings}} = {}
  BY <1>2
<1>4. EntriesAt[Leaves(trie, Root(trie), <<>>)][{}] = EmptyBag
  BY LeavesOfNothing, NothingAt
<1> QED
  BY <1>3, <1>4 DEF ReachableFrom

-----------------------------------------------------------------------------
(* The steps of what is promised.                                          *)

Owed  == IF phase = "none" THEN Wanted ELSE Reachable
AtEnd == phase = "ready" /\ frontier = {}

LEMMA PromiseIdle ==
  ASSUME Wanted' = Wanted, Owed' = Owed, yielded' = yielded, AtEnd' <=> AtEnd
  PROVE  UNCHANGED Promised!vars
<1>1. (phase = "ready" /\ frontier = {})' = (phase = "ready" /\ frontier = {})
  BY DEF AtEnd
<1> QED
  BY <1>1 DEF Promised!vars, Owed

LEMMA PromiseAsked ==
  ASSUME yielded = <<>>, ~AtEnd, ~AtEnd', Owed' = Wanted', yielded' = yielded
  PROVE  Promised!Ask
<1>1. (phase = "ready" /\ frontier = {})' = (phase = "ready" /\ frontier = {})
  BY DEF AtEnd
<1> QED
  BY <1>1 DEF Promised!Ask, Owed, AtEnd

LEMMA PromiseEnds ==
  ASSUME Owed = EmptyBag, Owed' = EmptyBag, AtEnd', Wanted' = Wanted,
         yielded' = yielded
  PROVE  Promised!End
BY DEF Promised!End, Owed, AtEnd, EmptyBag, Promised!EmptyBag, SetToBag, Promised!SetToBag

LEMMA PromiseTaken ==
  ASSUME NEW in, NEW B, IsFiniteSet(B), NEW k \in B,
         \A j \in B : in.ranks[k] <= in.ranks[j],
         Owed = BagFrom(in, B), Owed' = BagFrom(in, B \ {k}),
         ~AtEnd, ~AtEnd', Wanted' = Wanted,
         yielded' = Append(yielded, EntryIn(in, k))
  PROVE  Promised!Take
<1> DEFINE x == EntryIn(in, k)
<1>1. (phase = "ready" /\ frontier = {})' = (phase = "ready" /\ frontier = {})
  BY DEF AtEnd
<1>2. DOMAIN Owed = {EntryIn(in, j) : j \in B}
  BY DEF BagFrom
<1>3. /\ x \in DOMAIN Owed
      /\ \A other \in DOMAIN Owed : x.rank <= other.rank
  BY <1>2 DEF EntryIn
<1>4. Owed' = Owed (-) SetToBag({x})
  BY BagShrinks
<1>5. Owed' = Promised!(-)(Owed, Promised!SetToBag({x}))
  BY <1>4 DEF (-), SetToBag, Promised!(-), Promised!SetToBag
<1>6. \E entry \in Promised!BagToSet(Owed) :
         /\ \A other \in Promised!BagToSet(Owed) : entry.rank <= other.rank
         /\ Owed' = Promised!(-)(Owed, Promised!SetToBag({entry}))
         /\ yielded' = Append(yielded, entry)
  BY <1>3, <1>5 DEF Promised!BagToSet
<1>7. Promised!Take <=>
        /\ ~AtEnd
        /\ \E entry \in Promised!BagToSet(Owed) :
             /\ \A other \in Promised!BagToSet(Owed) : entry.rank <= other.rank
             /\ Owed' = Promised!(-)(Owed, Promised!SetToBag({entry}))
             /\ yielded' = Append(yielded, entry)
        /\ Wanted' = Wanted
        /\ (phase = "ready" /\ frontier = {})' = (phase = "ready" /\ frontier = {})
  BY DEF Promised!Take, Owed, AtEnd
<1> QED
  BY <1>1, <1>6, <1>7

(* Nothing is to come at the end of a visit. *)
LEMMA NothingOwned ==
  ASSUME NEW in, NEW bytes, NEW notes, NEW queue, NEW at,
         Visits(in, bytes, notes, queue, at, "ready"), queue = {}
  PROVE  Owned(in, notes, queue \cup {at}) = {}
<1>1. at = NoSiblings
  BY DEF Visits
<1> QED
  BY <1>1, NoNodeThere DEF Owned

LEMMA InputIsFinite ==
  ASSUME IsInput(input)
  PROVE  IsFiniteSet(DOMAIN input.suggestions)
<1>1. DOMAIN input.suggestions = 1 .. Len(input.suggestions)
      /\ Len(input.suggestions) \in Nat
  BY LenProperties DEF IsInput
<1>2. IsFiniteSet(1 .. Len(input.suggestions))
  BY <1>1, FS_Interval
<1> QED
  BY <1>1, <1>2

(* Steps without a part in a visit. *)
LEMMA PromiseBeside ==
  ASSUME UNCHANGED <<input, iteratorVars>>, phase # "none" => trie' = trie,
         WantedOf(input, call', string') = WantedOf(input, call, string)
  PROVE  UNCHANGED Promised!vars
<1>1. UNCHANGED <<input, frontier, visitor, phase, yielded>>
  BY DEF iteratorVars
<1>2. Wanted' = Wanted
  BY <1>1, WantedHere
<1>3. phase # "none" => Reachable' = Reachable
  BY <1>1, ReachableHere
<1>4. Owed' = Owed
  BY <1>1, <1>2, <1>3 DEF Owed
<1>5. AtEnd' <=> AtEnd
  BY <1>1 DEF AtEnd
<1> QED
  BY <1>1, <1>2, <1>4, <1>5, PromiseIdle

(* The calls in an empty trie. *)
LEMMA PromiseOfNothing ==
  ASSUME Inv, Contents, pc = "done", suggestions = <<>>,
         UNCHANGED <<vars, yielded>>,
         phase = "none", phase' = "ready", frontier' = {}, visitor' = NoSiblings
  PROVE  Promised!End
<1>1. trie = LeafRootHeader
  BY TrieIsThere
<1>2. UNCHANGED <<input, trie>> /\ input.suggestions = <<>>
  BY DEF vars, suggestions
<1>3. Wanted = EmptyBag /\ Wanted' = EmptyBag
  BY <1>2, WantedHere, NothingToWant
<1>4. {} \cup {NoSiblings} = {NoSiblings}
  OBVIOUS
<1>5. Reachable' = EmptyBag
  BY <1>1, <1>2, <1>4, ReachableHere, NothingReached
<1>6. Owed = EmptyBag /\ Owed' = EmptyBag
  BY <1>3, <1>5 DEF Owed
<1>7. AtEnd'
  BY DEF AtEnd
<1> QED
  BY <1>3, <1>6, <1>7, PromiseEnds

LEMMA PromiseAtBegin ==
  ASSUME Inv, Contents, VisitHolds, CallBegin
  PROVE  Promised!Ask \/ Promised!End
<1>1. /\ phase = "none" /\ call = "none" /\ call' = "begin" /\ pc = "done"
      /\ UNCHANGED <<vars, matchVars, answer, yielded>>
      /\ IF suggestions = <<>>
         THEN phase' = "ready" /\ frontier' = {} /\ visitor' = NoSiblings
         ELSE /\ phase' = "advance"
              /\ \E notes : /\ IsTrieOf(input, trie, notes)
                            /\ Visits(input, trie, notes, frontier', visitor', phase')
                            /\ Owned(input, notes, frontier' \cup {visitor'}) =
                                 DOMAIN input.suggestions
  BY BeginOpens
<1>2. CASE suggestions = <<>>
  BY <1>1, <1>2, PromiseOfNothing
<1>3. CASE suggestions # <<>>
  <2>1. PICK notes : /\ IsTrieOf(input, trie, notes)
                     /\ Visits(input, trie, notes, frontier', visitor', phase')
                     /\ Owned(input, notes, frontier' \cup {visitor'}) =
                          DOMAIN input.suggestions
    BY <1>1, <1>3
  <2>2. UNCHANGED <<input, trie>> /\ IsInput(input)
    BY <1>1, InputIsTyped DEF vars
  <2>3. ReachableFrom(frontier' \cup {visitor'}) = BagFrom(input, DOMAIN input.suggestions)
    BY <2>1, <2>2, VisitReaches
  <2>4. Reachable' = BagFrom(input, DOMAIN input.suggestions)
    BY <2>2, <2>3, ReachableHere
  <2>5. Wanted' = BagFrom(input, DOMAIN input.suggestions)
    BY <1>1, <2>2, WantedHere, AllWanted
  <2>6. phase' # "none" /\ ~AtEnd /\ ~AtEnd' /\ yielded' = yielded /\ yielded = <<>>
    BY <1>1, <1>3 DEF AtEnd, VisitHolds
  <2>7. Owed' = Wanted'
    BY <2>4, <2>5, <2>6 DEF Owed
  <2> QED
    BY <2>6, <2>7, PromiseAsked
<1> QED
  BY <1>2, <1>3

LEMMA PromiseAtComplete ==
  ASSUME VisitHolds, NEW q \in Queries, CallComplete(q)
  PROVE  Promised!Ask
<1>1. call = "none" /\ UNCHANGED iteratorVars
  BY DEF CallComplete, CallMatch, Calls
<1>2. phase = "none" /\ phase' = "none" /\ yielded = <<>> /\ yielded' = yielded
  BY <1>1 DEF VisitHolds, iteratorVars
<1>3. ~AtEnd /\ ~AtEnd' /\ Owed' = Wanted'
  BY <1>2 DEF AtEnd, Owed
<1> QED
  BY <1>2, <1>3, PromiseAsked

LEMMA PromiseAtCompletions ==
  ASSUME Inv, Contents, CallHolds, MatchHolds, VisitHolds, Exact(input, string),
         OpenCompletions
  PROVE  UNCHANGED Promised!vars \/ Promised!End
<1> DEFINE all == Agreeing(input, string, Len(string))
<1>1. /\ phase = "none" /\ pc = "done" /\ suggestions # <<>>
      /\ UNCHANGED <<vars, matchVars, call, answer, yielded>>
      /\ IF first = Len(string)
         THEN phase' = "advance"
         ELSE phase' = "ready" /\ frontier' = {}
      /\ \E notes : /\ IsTrieOf(input, trie, notes)
                    /\ Visits(input, trie, notes, frontier', visitor', phase')
                    /\ Owned(input, notes, frontier' \cup {visitor'}) = all
  BY CompletionsOpen
<1>2. PICK notes : /\ IsTrieOf(input, trie, notes)
                   /\ Visits(input, trie, notes, frontier', visitor', phase')
                   /\ Owned(input, notes, frontier' \cup {visitor'}) = all
  BY <1>1
<1>3. UNCHANGED <<input, trie, string, call>> /\ IsInput(input)
  BY <1>1, InputIsTyped DEF vars, matchVars
<1>4. call = "complete" /\ string \in Seq(Char)
  BY DEF OpenCompletions, MatchHolds, MatchTyped
<1>5. ReachableFrom(frontier' \cup {visitor'}) = BagFrom(input, all)
  BY <1>2, <1>3, VisitReaches
<1>6. Reachable' = BagFrom(input, all)
  BY <1>3, <1>5, ReachableHere
<1>7. Wanted = BagFrom(input, all) /\ Wanted' = Wanted
  BY <1>3, <1>4, WantedHere, CompletionsWanted
<1>8. Owed = BagFrom(input, all) /\ Owed' = BagFrom(input, all) /\ ~AtEnd
  BY <1>1, <1>6, <1>7 DEF Owed, AtEnd
<1>9. CASE first = Len(string)
  <2>1. ~AtEnd'
    BY <1>1, <1>9 DEF AtEnd
  <2> QED
    BY <1>1, <1>7, <1>8, <2>1, PromiseIdle
<1>10. CASE first # Len(string)
  <2>1. AtEnd'
    BY <1>1, <1>10 DEF AtEnd
  <2>2. all = {}
    BY <1>1, <1>2, <1>10, NothingOwned
  <2>3. BagFrom(input, all) = EmptyBag
    BY <2>2, NoEntries
  <2> QED
    BY <1>1, <1>7, <1>8, <2>1, <2>3, PromiseEnds
<1> QED
  BY <1>9, <1>10

LEMMA PromiseAtIncrement ==
  ASSUME Inv, Contents, VisitHolds, Increment
  PROVE  Promised!Take
<1>1. /\ phase = "ready" /\ frontier # {} /\ phase' = "advance"
      /\ UNCHANGED <<vars, matchVars, call, answer>>
      /\ \E notes :
           /\ IsTrieOf(input, trie, notes)
           /\ Visits(input, trie, notes, frontier, visitor, phase)
           /\ Visits(input, trie, notes, frontier', visitor', phase')
           /\ \E k \in ToCome(notes) :
                /\ yielded' = Append(yielded, EntryIn(input, k))
                /\ \A j \in ToCome(notes) : input.ranks[k] <= input.ranks[j]
                /\ Owned(input, notes, frontier' \cup {visitor'}) = ToCome(notes) \ {k}
  BY IncrementVisits
<1>2. PICK notes :
        /\ IsTrieOf(input, trie, notes)
        /\ Visits(input, trie, notes, frontier, visitor, phase)
        /\ Visits(input, trie, notes, frontier', visitor', phase')
        /\ \E k \in ToCome(notes) :
             /\ yielded' = Append(yielded, EntryIn(input, k))
             /\ \A j \in ToCome(notes) : input.ranks[k] <= input.ranks[j]
             /\ Owned(input, notes, frontier' \cup {visitor'}) = ToCome(notes) \ {k}
  BY <1>1
<1>3. PICK k \in ToCome(notes) :
        /\ yielded' = Append(yielded, EntryIn(input, k))
        /\ \A j \in ToCome(notes) : input.ranks[k] <= input.ranks[j]
        /\ Owned(input, notes, frontier' \cup {visitor'}) = ToCome(notes) \ {k}
  BY <1>2
<1>4. UNCHANGED <<input, trie, string, call>> /\ IsInput(input)
  BY <1>1, InputIsTyped DEF vars, matchVars
<1>5. Wanted' = Wanted
  BY <1>4, WantedHere
<1>6. Owed = BagFrom(input, ToCome(notes))
  <2>1. ReachableFrom(frontier \cup {visitor}) = BagFrom(input, ToCome(notes))
    BY <1>2, <1>4, VisitReaches DEF ToCome
  <2> QED
    BY <1>1, <2>1, ReachableHere DEF Owed
<1>7. Owed' = BagFrom(input, ToCome(notes) \ {k})
  <2>1. ReachableFrom(frontier' \cup {visitor'}) =
          BagFrom(input, Owned(input, notes, frontier' \cup {visitor'}))
    BY <1>2, <1>4, VisitReaches
  <2> QED
    BY <1>1, <1>3, <1>4, <2>1, ReachableHere DEF Owed
<1>8. IsFiniteSet(ToCome(notes))
  BY <1>2, <1>4, ToComeTyped, InputIsFinite, FS_Subset
<1>9. ~AtEnd /\ ~AtEnd'
  BY <1>1 DEF AtEnd
<1> DEFINE B == ToCome(notes)
<1>10. /\ IsFiniteSet(B) /\ k \in B
       /\ \A j \in B : input.ranks[k] <= input.ranks[j]
       /\ Owed = BagFrom(input, B) /\ Owed' = BagFrom(input, B \ {k})
       /\ ~AtEnd /\ ~AtEnd' /\ Wanted' = Wanted
       /\ yielded' = Append(yielded, EntryIn(input, k))
  BY <1>3, <1>5, <1>6, <1>7, <1>8, <1>9
<1> HIDE DEF B
<1> QED
  BY <1>10, PromiseTaken

LEMMA PromiseAtAdvance ==
  ASSUME Inv, Contents, VisitHolds, AdvanceStep
  PROVE  UNCHANGED Promised!vars \/ Promised!End
<1>1. /\ phase \in {"advance", "descend"}
      /\ phase' \in {"advance", "descend", "ready"}
      /\ UNCHANGED <<vars, matchVars, call, answer, yielded>>
      /\ \E notes :
           /\ IsTrieOf(input, trie, notes)
           /\ Visits(input, trie, notes, frontier, visitor, phase)
           /\ Visits(input, trie, notes, frontier', visitor', phase')
           /\ Owned(input, notes, frontier' \cup {visitor'}) = ToCome(notes)
  BY AdvanceVisits
<1>2. PICK notes :
        /\ IsTrieOf(input, trie, notes)
        /\ Visits(input, trie, notes, frontier, visitor, phase)
        /\ Visits(input, trie, notes, frontier', visitor', phase')
        /\ Owned(input, notes, frontier' \cup {visitor'}) = ToCome(notes)
  BY <1>1
<1>3. UNCHANGED <<input, trie, string, call>> /\ IsInput(input)
  BY <1>1, InputIsTyped DEF vars, matchVars
<1>4. Wanted' = Wanted
  BY <1>3, WantedHere
<1>5. Owed = BagFrom(input, ToCome(notes))
  <2>1. ReachableFrom(frontier \cup {visitor}) = BagFrom(input, ToCome(notes))
    BY <1>2, <1>3, VisitReaches DEF ToCome
  <2> QED
    BY <1>1, <2>1, ReachableHere DEF Owed
<1>6. Owed' = BagFrom(input, ToCome(notes))
  <2>1. ReachableFrom(frontier' \cup {visitor'}) =
          BagFrom(input, Owned(input, notes, frontier' \cup {visitor'}))
    BY <1>2, <1>3, VisitReaches
  <2> QED
    BY <1>1, <1>2, <1>3, <2>1, ReachableHere DEF Owed
<1>7. ~AtEnd
  BY <1>1 DEF AtEnd
<1>8. CASE AtEnd'
  <2>1. phase' = "ready" /\ frontier' = {}
    BY <1>8 DEF AtEnd
  <2>2. ToCome(notes) = {}
    BY <1>2, <2>1, NothingOwned
  <2>3. Owed = EmptyBag /\ Owed' = EmptyBag
    BY <1>5, <1>6, <2>2, NoEntries
  <2> QED
    BY <1>1, <1>4, <1>8, <2>3, PromiseEnds
<1>9. CASE ~AtEnd'
  BY <1>1, <1>4, <1>5, <1>6, <1>7, <1>9, PromiseIdle
<1> QED
  BY <1>8, <1>9

LEMMA PromiseSteps ==
  ASSUME Inv, Contents, CallHolds, MatchHolds, VisitHolds,
         call = "complete" => Exact(input, string), [TrieNext]_allVars
  PROVE  Promised!Next \/ UNCHANGED Promised!vars
<1>1. CASE Build
  <2>1. Next /\ UNCHANGED <<matchVars, iteratorVars, call>>
    BY <1>1 DEF Build
  <2>2. pc # "done"
    BY <2>1, BuildEnds
  <2>3. phase = "none"
    BY <2>2 DEF VisitHolds
  <2>4. UNCHANGED <<input, string>>
    BY <2>1 DEF Next, ThrowSizes, NextSuggestion, MergeLevel, Extend, LastMerge,
                MakeRoot, BuildEmpty, Throw, matchVars
  <2> QED
    BY <2>1, <2>3, <2>4, PromiseBeside
<1>2. CASE CallBegin
  BY <1>2, PromiseAtBegin DEF Promised!Next
<1>3. ASSUME NEW q \in Queries, CallComplete(q)
      PROVE  Promised!Next
  BY <1>3, PromiseAtComplete DEF Promised!Next
<1>4. ASSUME NEW q \in Queries, CallCompleteOfEmpty(q)
      PROVE  Promised!Next
  <2>1. /\ phase = "none" /\ pc = "done" /\ suggestions = <<>>
        /\ UNCHANGED <<vars, yielded>>
        /\ phase' = "ready" /\ frontier' = {} /\ visitor' = NoSiblings
    BY <1>4, CompleteOfEmptyOpens
  <2> QED
    BY <2>1, PromiseOfNothing DEF Promised!Next
<1>5. ASSUME NEW q \in Queries, CallMismatch(q) \/ CallCount(q) \/ CallScore(q)
      PROVE  UNCHANGED Promised!vars
  <2>1. /\ call = "none" /\ call' \in {"mismatch", "count", "score"}
        /\ UNCHANGED <<vars, iteratorVars>>
    BY <1>5 DEF CallMismatch, CallCount, CallScore, CallMatch, Calls, builderVars
  <2>2. UNCHANGED <<input, trie>>
    BY <2>1 DEF vars
  <2>3. WantedOf(input, call', string') = WantedOf(input, call, string)
    <3>1. WantedOf(input, call', string') = EmptyBag
      BY <2>1, NothingWanted
    <3>2. WantedOf(input, call, string) = EmptyBag
      BY <2>1, NothingWanted
    <3> QED
      BY <3>1, <3>2
  <2> QED
    BY <2>1, <2>2, <2>3, PromiseBeside
<1>6. CASE OpenCompletions
  <2>1. Exact(input, string)
    BY <1>6 DEF OpenCompletions
  <2> QED
    BY <1>6, <2>1, PromiseAtCompletions DEF Promised!Next
<1>7. CASE Increment
  BY <1>7, PromiseAtIncrement DEF Promised!Next
<1>8. CASE AdvanceStep
  BY <1>8, PromiseAtAdvance DEF Promised!Next
<1>9. CASE MatchStep \/ ReturnMismatch \/ ReturnCount \/ ReturnScore \/ UNCHANGED allVars
  <2>1. UNCHANGED <<vars, iteratorVars, call, string>>
    <3>1. CASE MatchStep
      BY <3>1, MatchMoves DEF MatchStep, builderVars
    <3>2. CASE ReturnMismatch \/ ReturnCount \/ ReturnScore \/ UNCHANGED allVars
      BY <3>2 DEF ReturnMismatch, ReturnCount, ReturnScore, Answer, builderVars,
                  allVars, matchVars
    <3> QED
      BY <1>9, <3>1, <3>2
  <2>2. UNCHANGED <<input, trie>>
    BY <2>1 DEF vars
  <2> QED
    BY <2>1, <2>2, PromiseBeside
<1> QED
  BY <1>1, <1>2, <1>3, <1>4, <1>5, <1>6, <1>7, <1>8, <1>9 DEF TrieNext, Read

LEMMA PromiseToStart == TrieInit => Promised!Init
<1> SUFFICES ASSUME TrieInit PROVE Promised!Init
  OBVIOUS
<1>1. call = "none" /\ phase = "none" /\ yielded = <<>>
  BY DEF TrieInit, ReaderInit, Visit!Init
<1>2. Wanted = EmptyBag
  BY <1>1, WantedHere, NothingWanted
<1>3. Owed = EmptyBag /\ ~AtEnd
  BY <1>1, <1>2 DEF Owed, AtEnd
<1> QED
  BY <1>1, <1>2, <1>3 DEF Promised!Init, Owed, AtEnd, EmptyBag, Promised!EmptyBag,
    SetToBag, Promised!SetToBag

-----------------------------------------------------------------------------
(* The types of the reader's state.                                        *)

LEMMA LocusIsTyped ==
  ASSUME CallHolds, MatchHolds
  PROVE  locus \in NodeView
<1>1. CASE search = "none"
  BY <1>1 DEF CallHolds, NullNode, NullAddress, NodeView
<1>2. CASE search # "none" /\ suggestions = <<>>
  BY <1>2, EmptyRootSeen DEF MatchHolds, FindsNothing
<1>3. CASE search # "none" /\ suggestions # <<>>
  <2>1. PICK notes : IsTrieOf(input, trie, notes) /\ MatchingIn(notes)
    BY <1>3 DEF MatchHolds
  <2>2. search \in {"match", "label", "returned"}
    BY <1>3 DEF MatchHolds, MatchTyped
  <2>3. IsPlace(trie, notes, locus)
    BY <2>1, <2>2 DEF MatchingIn, Matches, AtMatch, AtLabel, IsInLabel, AtReturn, IsPlace
  <2> QED
    BY <2>1, <2>3, PlaceIsTyped
<1> QED
  BY <1>1, <1>2, <1>3

LEMMA MatchIsTyped ==
  ASSUME CallHolds, MatchHolds
  PROVE  Match!TypeOK
<1>1. Match!NodeView = NodeView
  BY DEF Match!NodeView, NodeView
<1>2. CASE search = "none"
  <2>1. /\ 0 \in 0 .. Len(string) /\ 0 \in 0 .. MaxLabelSize - 1
        /\ string \in Seq(Char)
    BY <1>2, LenProperties, MaxLabelSizeAssumption DEF CallHolds
  <2> QED
    BY <1>1, <1>2, <2>1, LocusIsTyped DEF CallHolds, Match!TypeOK
<1>3. CASE search # "none"
  BY <1>1, <1>3, LocusIsTyped DEF MatchHolds, MatchTyped, Match!TypeOK
<1> QED
  BY <1>2, <1>3

LEMMA VisitIsTyped ==
  ASSUME Inv, VisitHolds
  PROVE  Visit!TypeOK
<1>1. Visit!Siblings = Siblings /\ \A it : Visit!AtNode(it) = AtNode(it)
  BY SameWalkHere, SameAtNodeHere
<1>2. /\ frontier \cup {visitor} \subseteq Siblings
      /\ \A it \in frontier : AtNode(it)
      /\ AtNode(visitor) <=> phase = "descend"
  <2>1. CASE phase = "none" \/ suggestions = <<>>
    BY <2>1, NoNodeThere DEF VisitHolds
  <2>2. CASE phase # "none" /\ suggestions # <<>>
    <3>1. PICK notes : /\ IsTrieOf(input, trie, notes)
                       /\ Visits(input, trie, notes, frontier, visitor, phase)
      BY <2>2 DEF VisitHolds
    <3>2. IsInput(input)
      BY InputIsTyped
    <3>3. frontier \cup {visitor} \subseteq Siblings
      BY ONLY <3>1, <3>2, VisitsItems
    <3>4. \A it \in frontier : AtNode(it)
      BY ONLY <3>1, <3>2, VisitsItems
    <3>5. AtNode(visitor) => phase = "descend"
      BY ONLY <3>1, <3>2, VisitsItems
    <3>6. phase = "descend" => AtNode(visitor)
      BY ONLY <3>1, <3>2, VisitsItems
    <3> QED
      BY <3>3, <3>4, <3>5, <3>6
  <2> QED
    BY <2>1, <2>2
<1>3. /\ phase \in {"none", "advance", "descend", "ready"}
      /\ yielded \in Seq([string : Seq(Char), rank : Nat])
  BY DEF VisitHolds
<1> QED
  BY <1>1, <1>2, <1>3 DEF Visit!TypeOK

LEMMA AnswerIsTyped ==
  ASSUME CallHolds, MatchHolds
  PROVE  answer \in Nat \cup {NoAnswer, NoScore}
<1>1. CASE answer = NoAnswer
  BY <1>1
<1>2. CASE answer # NoAnswer
  <2>1. search = "returned" /\ Answered
    BY <1>2 DEF CallHolds
  <2>2. first \in Nat
    BY <2>1 DEF MatchHolds, MatchTyped
  <2>3. locus.rank \in Nat
    BY LocusIsTyped DEF NodeView
  <2> QED
    BY <2>1, <2>2, <2>3 DEF Answered
<1> QED
  BY <1>1, <1>2

LEMMA ReaderIsTyped == Inv /\ CallHolds /\ MatchHolds /\ VisitHolds => ReaderTypeOK
BY MatchIsTyped, VisitIsTyped, AnswerIsTyped DEF ReaderTypeOK, CallHolds

-----------------------------------------------------------------------------
(* The calls of every trie that is built from an input in which equal      *)
(* prefixes are neighbours, for arguments without characters a signed char *)
(* holds as negative numbers.                                              *)

PlainString == \A i \in 1 .. Len(string) : string[i] \notin NegativeChar

LEMMA PlainIsExact == Grouped /\ PlainString => Exact(input, string)
BY DEF Grouped, GroupedIn, suggestions, PlainString, Exact

(* mismatch returns the length of the longest prefix of its argument that  *)
(* some suggestion starts with.                                            *)
THEOREM LongestMatch == TrieSpec => [](Grouped /\ PlainString => MismatchIsLongest)
<1>1. Inv /\ CallHolds /\ MatchHolds => (Grouped /\ PlainString => MismatchIsLongest)
  BY PlainIsExact, AnswerIsLongest
<1>2. TrieSpec => []Inv
  BY BuildsOnly, Invariant, PTL
<1> QED
  BY <1>1, <1>2, CallsHold, PTL

(* count and score find a suggestion if and only if it was in the input,   *)
(* and score returns the least of its ranks.                               *)
THEOREM BestLeaf == TrieSpec => [](Grouped /\ PlainString => LeafIsFound)
<1>1. Inv /\ CallHolds /\ MatchHolds => (Grouped /\ PlainString => LeafIsFound)
  BY PlainIsExact, AnswerIsBest
<1>2. TrieSpec => []Inv
  BY BuildsOnly, Invariant, PTL
<1> QED
  BY <1>1, <1>2, CallsHold, PTL

(* begin returns all suggestions and complete those that start with its    *)
(* argument, each as often as it was put in and by increasing rank: the    *)
(* loops over the queue implement Completions.  Equal prefixes have to be  *)
(* neighbours only for complete: begin needs no assumption.                *)
THEOREM VisitsAreComplete ==
  TrieSpec /\ [](call = "complete" => Grouped /\ PlainString) => CompletesAll
<1>1. TrieInit => Promised!Init
  BY PromiseToStart
<1>2. /\ Inv /\ Contents /\ CallHolds /\ MatchHolds /\ VisitHolds
      /\ call = "complete" => Grouped /\ PlainString
      /\ [TrieNext]_allVars
      => [Promised!Next]_(Promised!vars)
  BY PlainIsExact, PromiseSteps
<1>3. TrieSpec => []Inv /\ []Contents
  BY BuildsOnly, Invariant, ContentsHold, PTL
<1> QED
  BY <1>1, <1>2, <1>3, CallsHold, VisitsHold, PTL
  DEF TrieSpec, CompletesAll, Promised!Spec

(* The state of the two descents has its types: no iterator in the queue is *)
(* exhausted, and no match goes beyond its argument or a label.            *)
THEOREM ReaderTypeCorrect == TrieSpec => []ReaderTypeOK
<1>1. TrieSpec => []Inv
  BY BuildsOnly, Invariant, PTL
<1> QED
  BY <1>1, CallsHold, VisitsHold, ReaderIsTyped, PTL

=============================================================================
