---------------------------- MODULE TrieBuilder ----------------------------
(***************************************************************************)
(* make_serialised_ordered_trie and MakeTrie (ordered_trie_builder.hpp):   *)
(* the one-pass construction of a serialised trie from a range of          *)
(* suggestions and a range of their ranks.                                 *)
(*                                                                         *)
(* The builder keeps one level of unfinished nodes per character of the    *)
(* previous suggestion, plus one.  The last node of a level is the father  *)
(* of the level below.  For every suggestion the levels below the longest  *)
(* common prefix with the previous suggestion are merged, bottom up, into  *)
(* their fathers, and new levels are opened for the remaining characters.  *)
(***************************************************************************)
EXTENDS TrieNode

CONSTANT
  Inputs   \* the inputs considered: records of two ranges

(* The order of the suggestions is not an assumption: no code checks it.   *)
ASSUME InputsAssumption ==
  \A i \in Inputs : i.suggestions \in Seq(Seq(Char)) /\ i.ranks \in Seq(Nat)

VARIABLES
  input,   \* the two ranges: suggestions and ranks
  pos,     \* how many suggestions have been taken
  levels,  \* the unfinished nodes, top level first
  target,  \* the target_depth of the current merge_levels
  pc,      \* "next", "merge", "done" or "failed"
  trie,    \* the result, once done
  error    \* the exception thrown, once failed

vars == <<input, pos, levels, target, pc, trie, error>>

suggestions == input.suggestions
ranks       == input.ranks

-----------------------------------------------------------------------------
(* MakeTrie: a subtrie under construction.  leaf says that m_metadata is   *)
(* set, sub is m_subtree_serialised.  The length checks of the             *)
(* constructors test a parameter that was moved from and never throw.      *)

InternalNode(c) ==
  [label |-> <<c>>, rank |-> 0, leaf |-> FALSE, sub |-> <<>>]

DummyLeaf(rank) ==
  [label |-> <<>>, rank |-> rank, leaf |-> TRUE, sub |-> <<>>]

LeafRootHeader     == SerialiseNode(<<>>, 0, 0, TRUE)
InternalRootHeader == SerialiseNode(<<>>, 0, 0, FALSE)

EmptyRoot == [label |-> <<>>, rank |-> 0, leaf |-> FALSE,
              sub |-> LeafRootHeader]

(* Mutant: the siblings are left in the order they came in. *)
Unsorted(siblings) == {siblings}

(* What boost::sort by min_score may leave: it is not stable, so nodes of  *)
(* equal rank come in any order.                                           *)
SortedByRank(siblings) ==
  LET n == Len(siblings)
  IN  {ordered \in {[i \in 1 .. n |-> siblings[p[i]]] :
                      p \in Bijection(1 .. n, 1 .. n)} :
         \A i \in 1 .. n - 1 : ordered[i].rank <= ordered[i + 1].rank}

(* serialise_siblings: the headers of all the siblings, then all their     *)
(* subtries.  A rank is relative to the previous sibling's, the first one  *)
(* to the father's; the offset of a sibling's children is the size of the  *)
(* previous sibling's subtrie, that of the first the size of the other     *)
(* headers.                                                                *)
SiblingHeader(siblings, i) ==
  SerialiseNode(siblings[i].label,
                siblings[i].rank - siblings[i - 1].rank,
                Len(siblings[i - 1].sub),
                siblings[i].leaf)

(* Mutant: the first sibling's rank is not made relative. *)
FirstHeaderAbsolute(first, base_rank, headers) ==
  SerialiseNode(first.label, first.rank, Len(headers), first.leaf)

FirstHeader(first, base_rank, headers) ==
  SerialiseNode(first.label, first.rank - base_rank, Len(headers), first.leaf)

SerialiseSiblings(siblings, base_rank) ==
  LET n      == Len(siblings)
      others == FlattenSeq([i \in 1 .. n - 1 |-> SiblingHeader(siblings, i + 1)])
  IN  FirstHeader(siblings[1], base_rank, others) \o others
        \o FlattenSeq([i \in 1 .. n |-> siblings[i].sub])

CalledFromRoot(node) == node.label = <<>> /\ node.sub # <<>>

(* Mutant: the byte of the root keeps saying that it is a leaf. *)
RootStaysLeaf(sub) == sub

(* m_subtree_serialised.back () = 0 *)
RootOpened(sub) == Front(sub) \o InternalRootHeader

(* Mutant: a label of max_label_size would not fit its three bits. *)
CollapsesAtLimit(node, siblings) ==
  /\ Len(siblings) = 1
  /\ ~CalledFromRoot(node)
  /\ Len(siblings[1].label) + Len(node.label) <= MaxLabelSize

(* Mutant: siblings after the first are dropped. *)
CollapsesMany(node, siblings) ==
  /\ ~CalledFromRoot(node)
  /\ Len(siblings[1].label) + Len(node.label) < MaxLabelSize

(* A single child whose label fits is merged into its father. *)
Collapses(node, siblings) ==
  /\ Len(siblings) = 1
  /\ ~CalledFromRoot(node)
  /\ Len(siblings[1].label) + Len(node.label) < MaxLabelSize

(* The exceptions of add_children, in the order they are tested. *)
AddChildrenError(node, siblings, ordered) ==
  CASE node.leaf -> "children added to a leaf"
    [] ~node.leaf /\ siblings # <<>> /\ CalledFromRoot(node)
         /\ Last(node.sub) # LeafRootHeader[1] -> "non-leaf root"
    [] ~node.leaf /\ ~Collapses(node, siblings)
         /\ (\E i \in 1 .. Len(ordered) - 1 :
               ordered[i + 1].rank < ordered[i].rank) -> "ranks not increasing"
    [] OTHER -> "none"

(* add_children, where ordered is siblings after the sort. *)
AddChildren(node, siblings, ordered) ==
  IF siblings = <<>> THEN node
  ELSE IF Collapses(node, siblings)
  THEN [label |-> node.label \o siblings[1].label,
        rank  |-> siblings[1].rank,
        leaf  |-> siblings[1].leaf,
        sub   |-> siblings[1].sub]
  ELSE LET rank == IF CalledFromRoot(node) THEN 0 ELSE ordered[1].rank
           head == IF CalledFromRoot(node) THEN RootOpened(node.sub) ELSE node.sub
       IN  [label |-> node.label,
            rank  |-> rank,
            leaf  |-> FALSE,
            sub   |-> head \o SerialiseSiblings(ordered, rank)]

-----------------------------------------------------------------------------
(* Where the loop over the characters of the current and of the previous   *)
(* suggestion stops.                                                       *)
LoopStops(s, t, n) == n = Len(s) \/ n = Len(t) \/ s[n + 1] # t[n + 1]

(* Mutant: the counter is incremented before the characters are compared. *)
LcpOneTooMany(s, t) ==
  CHOOSE n \in 0 .. Len(s) :
    /\ n = Len(s) \/ n > Len(t) \/ (n > 0 /\ s[n] # t[n])
    /\ \A m \in 1 .. n - 1 : m <= Len(t) /\ s[m] = t[m]

(* Mutant: no prefix is ever shared. *)
LcpZero(s, t) == 0

LcpLength(s, t) ==
  CHOOSE n \in 0 .. Len(s) :
    LoopStops(s, t, n) /\ \A m \in 0 .. n - 1 : ~LoopStops(s, t, m)

Init ==
  /\ input \in Inputs
  /\ pos = 0
  /\ levels = <<>>
  /\ target = 0
  /\ pc = "next"
  /\ trie = <<>>
  /\ error = "none"

Throw(what) ==
  /\ pc' = "failed"
  /\ error' = what
  /\ UNCHANGED <<input, pos, levels, target, trie>>

(* The sizes of the ranges are compared as they are consumed. *)
ThrowSizes ==
  /\ pc = "next"
  /\ suggestions # <<>>
  /\ IF pos < Len(suggestions)
     THEN pos = Len(ranks)
     ELSE pos < Len(ranks)
  /\ Throw("differing sizes")

(* Take the next suggestion: the levels after the common prefix with the   *)
(* previous one are to be merged.                                          *)
NextSuggestion ==
  /\ pc = "next"
  /\ pos < Len(suggestions)
  /\ pos < Len(ranks)
  /\ target' = 1 + IF levels = <<>> THEN 0
                   ELSE LcpLength(suggestions[pos + 1], suggestions[pos])
  /\ pc' = "merge"
  /\ UNCHANGED <<input, pos, levels, trie, error>>

(* One iteration of merge_levels: the last level is gone and the last node *)
(* of the level above, its father, is replaced by itself with children.    *)
Merged(old, father) ==
  [i \in 1 .. Len(old) - 1 |->
     [j \in 1 .. Len(old[i]) |->
        IF i = Len(old) - 1 /\ j = Len(old[i]) THEN father ELSE old[i][j]]]

MergeLevel ==
  /\ pc = "merge"
  /\ Len(levels) > target
  /\ \E ordered \in SortedByRank(Last(levels)) :
       LET father   == Last(levels[Len(levels) - 1])
           children == Last(levels)
           failure  == AddChildrenError(father, children, ordered)
       IN  IF failure # "none"
           THEN Throw(failure)
           ELSE /\ levels' = Merged(levels, AddChildren(father, children, ordered))
                /\ UNCHANGED <<input, pos, target, pc, trie, error>>

(* levels.resize, and the push of one node per character after the common  *)
(* prefix and of a dummy leaf.                                             *)
Extended(old, s, lcp, rank) ==
  [i \in 1 .. Len(s) + 1 |->
     (IF i <= Len(old) THEN old[i] ELSE <<>>) \o
     (IF i > lcp /\ i <= Len(s) THEN <<InternalNode(s[i])>> ELSE <<>>) \o
     (IF i = Len(s) + 1 THEN <<DummyLeaf(rank)>> ELSE <<>>)]

Extend ==
  /\ pc = "merge"
  /\ Len(levels) <= target
  /\ pos < Len(suggestions)
  /\ levels' = Extended(levels, suggestions[pos + 1], target - 1, ranks[pos + 1])
  /\ pos' = pos + 1
  /\ pc' = "next"
  /\ UNCHANGED <<input, target, trie, error>>

(* All the suggestions have been taken: merge down to one level. *)
LastMerge ==
  /\ pc = "next"
  /\ suggestions # <<>>
  /\ pos = Len(suggestions)
  /\ pos = Len(ranks)
  /\ target' = 1
  /\ pc' = "merge"
  /\ UNCHANGED <<input, pos, levels, trie, error>>

(* BuilderNode {levels.back ()}.move_to_trie (): the root. *)
MakeRoot ==
  /\ pc = "merge"
  /\ Len(levels) <= target
  /\ pos = Len(suggestions)
  /\ \E ordered \in SortedByRank(Last(levels)) :
       LET failure == AddChildrenError(EmptyRoot, Last(levels), ordered)
       IN  IF failure # "none"
           THEN Throw(failure)
           ELSE /\ trie' = AddChildren(EmptyRoot, Last(levels), ordered).sub
                /\ pc' = "done"
                /\ UNCHANGED <<input, pos, levels, target, error>>

(* No suggestion: an empty root. *)
BuildEmpty ==
  /\ pc = "next"
  /\ suggestions = <<>>
  /\ trie' = EmptyRoot.sub
  /\ pc' = "done"
  /\ UNCHANGED <<input, pos, levels, target, error>>

Next ==
  \/ ThrowSizes
  \/ NextSuggestion
  \/ MergeLevel
  \/ Extend
  \/ LastMerge
  \/ MakeRoot
  \/ BuildEmpty

Spec == Init /\ [][Next]_vars

-----------------------------------------------------------------------------
(* What a subtrie's bytes are is the business of BuilderRefinement. *)
IsNode(node) ==
  /\ node.label \in Seq(Char)
  /\ Len(node.label) < MaxLabelSize
  /\ node.rank \in Nat
  /\ node.leaf \in BOOLEAN

(* Every level holds at least one node, and a label, collapsed or not,     *)
(* fits the bits it has in the header of a node.                           *)
TypeOK ==
  /\ suggestions \in Seq(Seq(Char)) /\ ranks \in Seq(Nat)
  /\ pos \in 0 .. Len(suggestions)
  /\ target \in Nat
  /\ pc \in {"next", "merge", "done", "failed"}
  /\ levels \in Seq(Range(levels))
  /\ \A i \in 1 .. Len(levels) :
       /\ levels[i] \in Seq(Range(levels[i]))
       /\ levels[i] # <<>>
       /\ \A j \in 1 .. Len(levels[i]) : IsNode(levels[i][j])

Previous == suggestions[pos]

(* Between two suggestions there is one level per character of the         *)
(* previous one, plus one.  The last node of every level but the last is   *)
(* still open: it has its own character for a label and no children.  So   *)
(* add_children is called once per node, and never on a leaf.              *)
OpenPath ==
  /\ pos > 0 => levels # <<>>
  /\ pc = "next" /\ pos > 0 => Len(levels) = Len(Previous) + 1
  /\ pos = 0 => levels = <<>>
  /\ Len(levels) > 0 => Len(levels) <= Len(Previous) + 1
  /\ \A i \in 1 .. Len(levels) - 1 :
       Last(levels[i]) = InternalNode(Previous[i])

(* merge_levels asserts that its target is a depth the levels have; when   *)
(* it ends there, the levels that remain spell the common prefix.          *)
TargetInReach ==
  pc = "merge" =>
    /\ target >= 1
    /\ pos > 0 => target <= Len(levels)
    /\ pos = 0 => target = 1
    /\ pos < Len(suggestions) =>
         /\ target <= Len(suggestions[pos + 1]) + 1
         /\ pos > 0 => \A i \in 1 .. target - 1 :
                         suggestions[pos + 1][i] = Previous[i]

(* The iterators over the two ranges move together: neither is read at its *)
(* end.                                                                    *)
RangesInStep ==
  /\ pos <= Len(ranks)
  /\ pc = "merge" =>
       /\ suggestions # <<>>
       /\ pos < Len(suggestions) => pos < Len(ranks)
       /\ pos = Len(suggestions) => pos = Len(ranks)

Spine ==
  pc \in {"next", "merge"} => OpenPath /\ TargetInReach /\ RangesInStep

(* The three logic errors of add_children and serialise_siblings never     *)
(* reach the caller: the only input that is refused is one whose ranges    *)
(* differ in size.                                                         *)
OnlySizesThrow ==
  /\ pc = "failed" => /\ error = "differing sizes"
                      /\ Len(suggestions) # Len(ranks)
  /\ pc = "done" => suggestions = <<>> \/ Len(suggestions) = Len(ranks)
=============================================================================
