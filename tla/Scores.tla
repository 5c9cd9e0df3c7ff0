------------------------------- MODULE Scores -------------------------------
(***************************************************************************)
(* serialise_scores (ordered_trie_builder.hpp): the scores of the          *)
(* completions are sorted, best first, and written to the score table.     *)
(* The rank of a score is its offset in that table, so that a trie ordered *)
(* by rank is ordered by score, and a rank read from a leaf leads to its   *)
(* score.                                                                  *)
(*                                                                         *)
(* The comparison is the caller's.  It may hold scores equivalent that are *)
(* not equal; std::sort leaves those in any order.                         *)
(***************************************************************************)
EXTENDS Integers, Sequences, Functions

CONSTANTS
  Score,           \* the scores
  Precedes(_, _),  \* scores_cmp: the first is the better score
  Width(_),        \* bytes of a serialised score
  MaxCompletions   \* bound: completions of a trie

(* An encoding takes at least a byte: two scores never share an offset.    *)
ASSUME WidthAssumption == \A s \in Score : Width(s) \in Nat \ {0}
(* A comparison is strict, as std::sort requires. *)
ASSUME PrecedesAssumption == \A s \in Score : ~Precedes(s, s)
ASSUME BoundAssumption == MaxCompletions \in Nat

VARIABLES
  completions,  \* the scores of the completions, in their order
  sequence,     \* scores_sequence, sorted
  kept,         \* positions of it that unique leaves and are not written yet
  table,        \* output: the score table
  rank,         \* score_ranks: the rank of every score written
  step          \* "sort", "unique", "write" or "done"

vars == <<completions, sequence, kept, table, rank, step>>

-----------------------------------------------------------------------------
(* serialise: byte i of a score tells the score only with all the others.  *)
Bytes(score) == [i \in 1 .. Width(score) |-> <<score, i>>]

(* deserialise yields the score if its whole encoding stands at the        *)
(* offset, from the first byte on; elsewhere it reads anything.            *)
ReadsAt(offset, score) ==
  /\ offset + Width(score) <= Len(table)
  /\ SubSeq(table, offset + 1, offset + Width(score)) = Bytes(score)

(* score_ranks[score] = offset *)
WithRank(score, offset) ==
  [s \in DOMAIN rank \cup {score} |-> IF s = score THEN offset ELSE rank[s]]

Init ==
  /\ completions \in UNION {[1 .. n -> Score] : n \in 0 .. MaxCompletions}
  /\ sequence = <<>>
  /\ kept = {}
  /\ table = <<>>
  /\ rank = [s \in {} |-> 0]
  /\ step = "sort"

(* Mutant: the comparison is applied the other way round. *)
SortedBackwards(scores) ==
  LET n == Len(scores)
  IN  {sorted \in {[i \in 1 .. n |-> scores[p[i]]] :
                     p \in Bijection(1 .. n, 1 .. n)} :
         \A i, j \in 1 .. n : i < j => ~Precedes(sorted[i], sorted[j])}

Sorted(scores) ==
  LET n == Len(scores)
  IN  {sorted \in {[i \in 1 .. n |-> scores[p[i]]] :
                     p \in Bijection(1 .. n, 1 .. n)} :
         \A i, j \in 1 .. n : i < j => ~Precedes(sorted[j], sorted[i])}

Sort ==
  /\ step = "sort"
  /\ sequence' \in Sorted(completions)
  /\ step' = "unique"
  /\ UNCHANGED <<completions, kept, table, rank>>

(* Mutant: equivalent scores are taken for equal ones. *)
KeepsOnePerClass(scores) ==
  {i \in 1 .. Len(scores) : i = 1 \/ Precedes(scores[i - 1], scores[i])}

(* Mutant: the loop goes one past the end. *)
UniquedPastEnd(scores) == 1 .. Len(scores) + 1

(* std::unique drops what equals its neighbour. *)
Uniqued(scores) ==
  {i \in 1 .. Len(scores) : i = 1 \/ scores[i] # scores[i - 1]}

Unique ==
  /\ step = "unique"
  /\ kept' = Uniqued(sequence)
  /\ step' = "write"
  /\ UNCHANGED <<completions, sequence, table, rank>>

(* Mutant: the rank is taken after the score has been written. *)
WriteFirst ==
  /\ step = "write"
  /\ \E i \in kept :
       /\ \A j \in kept : i <= j
       /\ kept' = kept \ {i}
       /\ table' = table \o Bytes(sequence[i])
       /\ rank' = WithRank(sequence[i], Len(table'))
  /\ UNCHANGED <<completions, sequence, step>>

(* One iteration of the last loop.  A score that comes again, with         *)
(* equivalent ones in between, is written again and gets its new rank.     *)
Write ==
  /\ step = "write"
  /\ \E i \in kept :
       /\ \A j \in kept : i <= j
       /\ kept' = kept \ {i}
       /\ rank' = WithRank(sequence[i], Len(table))
       /\ table' = table \o Bytes(sequence[i])
  /\ UNCHANGED <<completions, sequence, step>>

Finish ==
  /\ step = "write"
  /\ kept = {}
  /\ step' = "done"
  /\ UNCHANGED <<completions, sequence, kept, table, rank>>

Next == Sort \/ Unique \/ Write \/ Finish

Spec == Init /\ [][Next]_vars

-----------------------------------------------------------------------------
TypeOK ==
  /\ completions \in Seq(Score)
  /\ sequence \in Seq(Score)
  /\ kept \subseteq 1 .. Len(sequence)
  /\ table \in Seq(Score \X Nat)
  /\ rank \in [DOMAIN rank -> Nat]
  /\ DOMAIN rank \subseteq Score
  /\ step \in {"sort", "unique", "write", "done"}

(* Ranks order the trie the way the comparison orders scores, even when    *)
(* scores are written again because the comparison holds different scores  *)
(* equivalent.                                                             *)
RanksFollowOrder ==
  \A s, t \in DOMAIN rank : Precedes(s, t) => rank[s] < rank[t]

(* The iterator and score () deserialise from the table at a rank: there   *)
(* stands the first byte of the score, and all others after it, whatever   *)
(* has been written since and however wide the scores are.                 *)
RankLeadsToScore ==
  \A s \in DOMAIN rank : ReadsAt(rank[s], s)

(* score_map.at does not throw: in the end every completion's score has a  *)
(* rank.                                                                   *)
EveryScoreRanked ==
  step = "done" => \A i \in 1 .. Len(completions) : completions[i] \in DOMAIN rank
=============================================================================
