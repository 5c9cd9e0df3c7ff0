---------------------------- MODULE ScoresProofs ----------------------------
(***************************************************************************)
(* For every type of scores and every comparison: ranks follow the order   *)
(* of the scores, lead back to them, and every score gets one.             *)
(***************************************************************************)
EXTENDS Scores, SequenceTheorems, WellFoundedInduction, TLAPS

-----------------------------------------------------------------------------
(* No score stands before one that precedes it: what std::sort leaves. *)
SortedAt(s) == \A i, j \in 1 .. Len(s) : i < j => ~Precedes(s[j], s[i])

(* The sorted sequence holds the scores of the completions. *)
SameScores ==
  \A i \in 1 .. Len(completions) :
    \E j \in 1 .. Len(sequence) : sequence[j] = completions[i]

(* The positions that are not to be written any more have a rank, or       *)
(* repeat the position before.                                             *)
Covered ==
  \A i \in 1 .. Len(sequence) :
    \/ i \in kept
    \/ sequence[i] \in DOMAIN rank
    \/ i > 1 /\ sequence[i] = sequence[i - 1]

(* A score with a rank stands before all positions still to be written. *)
Behind ==
  \A s \in DOMAIN rank :
    \E i \in 1 .. Len(sequence) :
      sequence[i] = s /\ \A j \in kept : i < j

Progress ==
  /\ step = "sort" => kept = {} /\ DOMAIN rank = {}
  /\ step = "unique" => kept = {} /\ DOMAIN rank = {}
  /\ step # "sort" => SortedAt(sequence) /\ SameScores
  /\ step \in {"write", "done"} => Covered
  /\ step = "done" => kept = {}
  /\ Behind

Inv == TypeOK /\ Progress /\ RanksFollowOrder /\ RankLeadsToScore

-----------------------------------------------------------------------------
(* The encoding of a score takes as many bytes as its width says. *)
LEMMA BytesOfScore ==
  ASSUME NEW s \in Score
  PROVE  /\ Bytes(s) \in Seq(Score \X Nat)
         /\ Len(Bytes(s)) = Width(s)
         /\ Width(s) \in Nat \ {0}
<1>1. Width(s) \in Nat \ {0}
  BY WidthAssumption
<1>2. Bytes(s) = [i \in 1 .. Width(s) |-> <<s, i>>]
  BY DEF Bytes
<1>3. Bytes(s) \in [1 .. Width(s) -> Score \X Nat]
  BY <1>1, <1>2
<1>4. Bytes(s) \in Seq(Score \X Nat)
  BY <1>1, <1>3, SeqDef
<1>5. Len(Bytes(s)) = Width(s)
  BY <1>1, <1>3, <1>4, LenProperties
<1> QED
  BY <1>1, <1>4, <1>5

(* What stands in the table stays there when bytes are appended, and these *)
(* stand behind it.                                                        *)
LEMMA AppendedBytes ==
  ASSUME NEW S, NEW old \in Seq(S), NEW bytes \in Seq(S)
  PROVE  /\ old \o bytes \in Seq(S)
         /\ Len(old \o bytes) = Len(old) + Len(bytes)
         /\ SubSeq(old \o bytes, Len(old) + 1, Len(old) + Len(bytes)) = bytes
         /\ \A m, n \in Nat :
              n <= Len(old) =>
                SubSeq(old \o bytes, m + 1, n) = SubSeq(old, m + 1, n)
<1> DEFINE new == old \o bytes
<1>1. /\ new \in Seq(S) /\ Len(new) = Len(old) + Len(bytes)
      /\ \A i \in 1 .. Len(old) : new[i] = old[i]
      /\ \A i \in 1 .. Len(bytes) : new[Len(old) + i] = bytes[i]
      /\ Len(old) \in Nat /\ Len(bytes) \in Nat
  BY ConcatProperties, LenProperties
<1> HIDE DEF new
<1>2. SubSeq(new, Len(old) + 1, Len(old) + Len(bytes)) = bytes
  <2> DEFINE sub == SubSeq(new, Len(old) + 1, Len(old) + Len(bytes))
  <2>1. sub = [i \in 1 .. Len(bytes) |-> new[Len(old) + i]]
    BY <1>1
  <2>2. bytes = [i \in 1 .. Len(bytes) |-> bytes[i]]
    BY <1>1, LenProperties
  <2> QED
    BY <1>1, <2>1, <2>2
<1>3. ASSUME NEW m \in Nat, NEW n \in Nat, n <= Len(old)
      PROVE  SubSeq(new, m + 1, n) = SubSeq(old, m + 1, n)
  <2>1. /\ SubSeq(new, m + 1, n) = [i \in 1 .. n - m |-> new[m + i]]
        /\ SubSeq(old, m + 1, n) = [i \in 1 .. n - m |-> old[m + i]]
    BY <1>1, <1>3
  <2>2. \A i \in 1 .. n - m : new[m + i] = old[m + i]
    BY <1>1, <1>3
  <2> QED
    BY <2>1, <2>2
<1> QED
  BY <1>1, <1>2, <1>3 DEF new

(* Sorting loses no score and leaves none before one that precedes it. *)
LEMMA SortedScores ==
  ASSUME NEW scores \in Seq(Score), NEW sorted \in Sorted(scores)
  PROVE  /\ sorted \in Seq(Score)
         /\ SortedAt(sorted)
         /\ \A i \in 1 .. Len(scores) :
              \E j \in 1 .. Len(sorted) : sorted[j] = scores[i]
<1> DEFINE n == Len(scores)
<1>1. n \in Nat /\ \A i \in 1 .. n : scores[i] \in Score
  BY LenProperties, ElementOfSeq
<1>2. PICK p \in Bijection(1 .. n, 1 .. n) :
        sorted = [i \in 1 .. n |-> scores[p[i]]]
  BY DEF Sorted
<1>3. /\ p \in [1 .. n -> 1 .. n]
      /\ \A i \in 1 .. n : \E j \in 1 .. n : p[j] = i
  BY DEF Bijection, Injection, Surjection
<1>4. sorted \in [1 .. n -> Score]
  BY <1>1, <1>2, <1>3
<1>5. sorted \in Seq(Score) /\ Len(sorted) = n
  <2>1. sorted \in Seq(Score)
    BY <1>1, <1>4, SeqDef
  <2>2. DOMAIN sorted = 1 .. n /\ DOMAIN sorted = 1 .. Len(sorted)
    BY <1>4, <2>1, LenProperties
  <2>3. Len(sorted) \in Nat
    BY <2>1, LenProperties
  <2> QED
    BY <1>1, <2>1, <2>2, <2>3
<1>6. \A i, j \in 1 .. n : i < j => ~Precedes(sorted[j], sorted[i])
  BY DEF Sorted
<1>7. ASSUME NEW i \in 1 .. n
      PROVE  \E j \in 1 .. n : sorted[j] = scores[i]
  BY <1>2, <1>3
<1> QED
  BY <1>5, <1>6, <1>7 DEF SortedAt

-----------------------------------------------------------------------------
(* The invariant holds at first: nothing has a rank yet. *)
LEMMA InitEstablishes == Init => Inv
<1> SUFFICES ASSUME Init PROVE Inv
  OBVIOUS
<1>1. completions \in Seq(Score)
  <2>1. PICK n \in 0 .. MaxCompletions : completions \in [1 .. n -> Score]
    BY DEF Init
  <2>2. n \in Nat
    BY BoundAssumption
  <2> QED
    BY <2>1, <2>2, SeqDef
<1>2. /\ sequence = <<>> /\ kept = {} /\ table = <<>> /\ step = "sort"
      /\ rank = [s \in {} |-> 0] /\ DOMAIN rank = {}
  BY DEF Init
<1>3. TypeOK
  BY <1>1, <1>2 DEF TypeOK
<1> QED
  BY <1>2, <1>3 DEF Inv, Progress, Behind, RanksFollowOrder, RankLeadsToScore

(* Sorting leaves every score in place and nothing has a rank yet, so the  *)
(* order Behind asks for is the one Sorted gives.                          *)
LEMMA SortKeeps == Inv /\ Sort => Inv'
<1> SUFFICES ASSUME Inv, Sort PROVE Inv'
  OBVIOUS
<1>1. /\ TypeOK /\ kept = {} /\ DOMAIN rank = {} /\ step' = "unique"
      /\ sequence' \in Sorted(completions)
      /\ UNCHANGED <<completions, kept, table, rank>>
  BY DEF Inv, Progress, Sort
<1>2. /\ sequence' \in Seq(Score) /\ SortedAt(sequence')
      /\ \A i \in 1 .. Len(completions) :
           \E j \in 1 .. Len(sequence') : sequence'[j] = completions[i]
  BY <1>1, SortedScores DEF TypeOK
<1>3. TypeOK'
  BY <1>1, <1>2 DEF TypeOK
<1>4. Progress'
  BY <1>1, <1>2 DEF Progress, SameScores, SortedAt, Behind
<1> QED
  BY <1>1, <1>3, <1>4 DEF Inv, RanksFollowOrder, RankLeadsToScore

(* unique drops only a score that equals the one before it, which stays or *)
(* is itself dropped for an equal one: no score loses its last position.   *)
LEMMA UniqueKeeps == Inv /\ Unique => Inv'
<1> SUFFICES ASSUME Inv, Unique PROVE Inv'
  OBVIOUS
<1>1. /\ TypeOK /\ DOMAIN rank = {} /\ step = "unique" /\ step' = "write"
      /\ kept' = Uniqued(sequence)
      /\ UNCHANGED <<completions, sequence, table, rank>>
  BY DEF Inv, Progress, Unique
<1>2. TypeOK'
  BY <1>1 DEF TypeOK, Uniqued
<1>3. Covered'
  <2> SUFFICES ASSUME NEW i \in 1 .. Len(sequence), i \notin kept'
               PROVE  i > 1 /\ sequence[i] = sequence[i - 1]
    BY <1>1 DEF Covered
  <2>1. Len(sequence) \in Nat
    BY <1>1, LenProperties DEF TypeOK
  <2> QED
    BY <1>1, <2>1 DEF Uniqued
<1>4. Progress'
  BY <1>1, <1>3 DEF Inv, Progress, SameScores, SortedAt, Behind
<1> QED
  BY <1>1, <1>2, <1>4 DEF Inv, RanksFollowOrder, RankLeadsToScore

(* The score written stands after all that have a rank, so it precedes     *)
(* none of them, and its rank, the end of the table, exceeds all theirs.   *)
LEMMA WriteKeeps == Inv /\ Write => Inv'
<1> SUFFICES ASSUME Inv, Write PROVE Inv'
  OBVIOUS
<1>1. PICK i \in kept :
        /\ \A j \in kept : i <= j
        /\ kept' = kept \ {i}
        /\ rank' = WithRank(sequence[i], Len(table))
        /\ table' = table \o Bytes(sequence[i])
  BY DEF Write
<1>2. step = "write" /\ UNCHANGED <<completions, sequence, step>>
  BY DEF Write
<1> DEFINE s == sequence[i]
           offset == Len(table)
<1>3. /\ TypeOK /\ Covered /\ Behind /\ SortedAt(sequence) /\ SameScores
      /\ RanksFollowOrder /\ RankLeadsToScore
  BY <1>2 DEF Inv, Progress
<1>4. /\ Len(sequence) \in Nat /\ i \in 1 .. Len(sequence) /\ s \in Score
      /\ table \in Seq(Score \X Nat) /\ offset \in Nat
  BY <1>3, LenProperties, ElementOfSeq DEF TypeOK
<1>5. /\ Bytes(s) \in Seq(Score \X Nat) /\ Len(Bytes(s)) = Width(s)
      /\ Width(s) \in Nat \ {0}
  BY <1>4, BytesOfScore
<1>6. /\ table' \in Seq(Score \X Nat)
      /\ Len(table') = offset + Width(s)
      /\ SubSeq(table', offset + 1, offset + Width(s)) = Bytes(s)
      /\ \A m, n \in Nat :
           n <= offset => SubSeq(table', m + 1, n) = SubSeq(table, m + 1, n)
  <2> DEFINE bytes == Bytes(s)
  <2>1. table' = table \o bytes
    BY <1>1
  <2>2. table \in Seq(Score \X Nat) /\ bytes \in Seq(Score \X Nat)
    BY <1>4, <1>5
  <2> HIDE DEF bytes
  <2>3. /\ table \o bytes \in Seq(Score \X Nat)
        /\ Len(table \o bytes) = Len(table) + Len(bytes)
        /\ SubSeq(table \o bytes, Len(table) + 1, Len(table) + Len(bytes)) = bytes
        /\ \A m, n \in Nat :
             n <= Len(table) =>
               SubSeq(table \o bytes, m + 1, n) = SubSeq(table, m + 1, n)
    BY <2>2, AppendedBytes
  <2> QED
    BY <1>5, <2>1, <2>3 DEF bytes
<1>7. /\ DOMAIN rank' = DOMAIN rank \cup {s}
      /\ rank'[s] = offset
      /\ \A t \in DOMAIN rank \ {s} : rank'[t] = rank[t]
  BY <1>1 DEF WithRank
<1>8. /\ DOMAIN rank \subseteq Score
      /\ \A t \in DOMAIN rank : /\ rank[t] \in Nat /\ rank[t] < offset
                               /\ Width(t) \in Nat
                               /\ rank[t] + Width(t) <= offset
  <2>1. DOMAIN rank \subseteq Score /\ \A t \in DOMAIN rank : rank[t] \in Nat
    BY <1>3 DEF TypeOK
  <2>2. \A t \in DOMAIN rank : Width(t) \in Nat \ {0}
    BY <2>1, WidthAssumption
  <2>3. \A t \in DOMAIN rank : rank[t] + Width(t) <= offset
    BY <1>3 DEF RankLeadsToScore, ReadsAt
  <2> QED
    BY <1>4, <2>1, <2>2, <2>3
<1>9. TypeOK'
  <2>1. rank' = [t \in DOMAIN rank \cup {s} |->
                   IF t = s THEN offset ELSE rank[t]]
    BY <1>1 DEF WithRank
  <2>2. rank' \in [DOMAIN rank' -> Nat]
    BY <1>4, <1>7, <1>8, <2>1
  <2> QED
    BY <1>1, <1>2, <1>3, <1>4, <1>6, <1>7, <1>8, <2>2 DEF TypeOK
<1>10. Covered'
  BY <1>1, <1>2, <1>3, <1>7 DEF Covered
<1>11. Behind'
  <2> SUFFICES ASSUME NEW t \in DOMAIN rank'
               PROVE  \E k \in 1 .. Len(sequence) :
                        sequence[k] = t /\ \A j \in kept' : k < j
    BY <1>2 DEF Behind
  <2>1. CASE t = s
    <3>1. \A j \in kept' : j \in Int /\ i < j
      BY <1>1, <1>3, <1>4 DEF TypeOK
    <3> QED
      BY <1>4, <2>1, <3>1
  <2>2. CASE t # s
    BY <1>1, <1>3, <1>7, <2>2 DEF Behind
  <2> QED
    BY <2>1, <2>2
<1>12. Progress'
  BY <1>2, <1>3, <1>10, <1>11 DEF Progress, SameScores, SortedAt
<1>13. RanksFollowOrder'
  <2> SUFFICES ASSUME NEW t \in DOMAIN rank', NEW u \in DOMAIN rank',
                      Precedes(t, u)
               PROVE  rank'[t] < rank'[u]
    BY DEF RanksFollowOrder
  <2>1. ASSUME NEW v \in DOMAIN rank PROVE ~Precedes(s, v)
    <3>1. PICK k \in 1 .. Len(sequence) :
            sequence[k] = v /\ \A j \in kept : k < j
      BY <1>3 DEF Behind
    <3> QED
      BY <1>3, <1>4, <3>1 DEF SortedAt
  <2>2. CASE t = s /\ u = s
    BY <1>4, <2>2, PrecedesAssumption
  <2> QED
    BY <1>3, <1>7, <1>8, <2>1, <2>2 DEF RanksFollowOrder
<1>14. RankLeadsToScore'
  <2> SUFFICES ASSUME NEW t \in DOMAIN rank'
               PROVE  /\ rank'[t] + Width(t) <= Len(table')
                      /\ SubSeq(table', rank'[t] + 1, rank'[t] + Width(t)) = Bytes(t)
    BY DEF RankLeadsToScore, ReadsAt, Bytes
  <2>1. CASE t = s
    <3>1. rank'[t] = offset
      BY <1>7, <2>1
    <3>2. offset + Width(t) <= Len(table')
      BY <1>4, <1>5, <1>6, <2>1
    <3>3. SubSeq(table', offset + 1, offset + Width(t)) = Bytes(t)
      BY <1>6, <2>1
    <3> QED
      BY <3>1, <3>2, <3>3
  <2>2. CASE t # s
    <3>1. t \in DOMAIN rank /\ rank'[t] = rank[t]
      BY <1>7, <2>2
    <3>2. /\ rank[t] \in Nat /\ rank[t] + Width(t) \in Nat
          /\ rank[t] + Width(t) <= offset
      BY <1>8, <3>1
    <3>3. SubSeq(table, rank[t] + 1, rank[t] + Width(t)) = Bytes(t)
      BY <1>3, <3>1 DEF RankLeadsToScore, ReadsAt
    <3>4. SubSeq(table', rank[t] + 1, rank[t] + Width(t)) = Bytes(t)
      BY <1>6, <3>2, <3>3
    <3>5. rank[t] + Width(t) <= Len(table')
      BY <1>4, <1>5, <1>6, <3>2
    <3> QED
      BY <3>1, <3>4, <3>5
  <2> QED
    BY <2>1, <2>2
<1> QED
  BY <1>9, <1>12, <1>13, <1>14 DEF Inv

(* The end of the loop changes nothing but the step. *)
LEMMA FinishKeeps == Inv /\ Finish => Inv'
BY DEF Inv, Finish, TypeOK, Progress, SameScores, SortedAt, Covered, Behind,
       RanksFollowOrder, RankLeadsToScore, ReadsAt

(* The three invariants, and that in the end each score has a rank, follow *)
(* from Inv, which is inductive.                                           *)
THEOREM Invariant == Spec => []Inv
<1>1. Inv /\ [Next]_vars => Inv'
  <2>1. Inv /\ UNCHANGED vars => Inv'
    BY DEF Inv, vars, TypeOK, Progress, SameScores, SortedAt, Covered, Behind,
           RanksFollowOrder, RankLeadsToScore, ReadsAt
  <2> QED
    BY <2>1, SortKeeps, UniqueKeeps, WriteKeeps, FinishKeeps DEF Next
<1> QED
  BY <1>1, InitEstablishes, PTL DEF Spec

(* serialise_scores keeps its containers consistent: no rank is kept for   *)
(* what is no score, nor a position beyond the end of the sequence.        *)
THEOREM ScoresTypeCorrect == Spec => []TypeOK
BY Invariant, PTL DEF Inv

(* A better score has a lower rank, however the comparison groups scores. *)
THEOREM OrderKept == Spec => []RanksFollowOrder
BY Invariant, PTL DEF Inv

(* All bytes of a score's encoding stand in the table from its rank on, so *)
(* deserialising there gives the score back.                               *)
THEOREM RankReadsBack == Spec => []RankLeadsToScore
BY Invariant, PTL DEF Inv

(* A set of numbers has a least element. *)
LEMMA LeastPosition ==
  ASSUME NEW T, T \subseteq Nat, T # {}
  PROVE  \E n \in T : \A m \in T : n <= m
<1>1. PICK n \in T : \A m \in T : <<m, n>> \notin OpToRel(<, Nat)
  BY WFMin, NatLessThanWellFounded, Zenon
<1>2. ASSUME NEW m \in T PROVE ~(m < n)
  <2>1. m \in Nat /\ n \in Nat /\ <<m, n>> \notin OpToRel(<, Nat)
    BY <1>1
  <2> QED
    BY <2>1, Zenon DEF OpToRel
<1> QED
  BY <1>2

(* The first position without a rank would have to repeat the one before,  *)
(* which has one: so all positions have one when none is left to write.    *)
LEMMA AllRanked == Inv => EveryScoreRanked
<1> SUFFICES ASSUME Inv, step = "done",
                    NEW i \in 1 .. Len(completions)
             PROVE  completions[i] \in DOMAIN rank
  BY DEF EveryScoreRanked
<1>1. TypeOK /\ Covered /\ SameScores /\ kept = {}
  BY DEF Inv, Progress
<1>2. Len(sequence) \in Nat
  BY <1>1, LenProperties DEF TypeOK
<1> DEFINE Missing == {j \in 1 .. Len(sequence) : sequence[j] \notin DOMAIN rank}
<1>3. Missing = {}
  <2> SUFFICES ASSUME Missing # {} PROVE FALSE
    OBVIOUS
  <2>1. Missing \subseteq Nat
    BY <1>2
  <2>2. PICK j \in Missing : \A k \in Missing : j <= k
    BY <2>1, LeastPosition, Zenon
  <2>3. j > 1 /\ sequence[j] = sequence[j - 1]
    BY <1>1, <2>2 DEF Covered
  <2>4. j - 1 \in Missing /\ ~(j <= j - 1)
    BY <1>2, <2>2, <2>3
  <2> QED
    BY <2>2, <2>4
<1>4. PICK j \in 1 .. Len(sequence) : sequence[j] = completions[i]
  BY <1>1 DEF SameScores
<1> QED
  BY <1>3, <1>4

(* Looking up the rank of a completion's score never fails. *)
THEOREM RankForEveryScore == Spec => []EveryScoreRanked
BY Invariant, AllRanked, PTL
=============================================================================
