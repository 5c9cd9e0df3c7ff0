--------------------------- MODULE LeavesIterator ---------------------------
(***************************************************************************)
(* OrderedLeavesIterator (ordered_trie_iterator.hpp) and the iterator of   *)
(* OrderedTrie built on it: the leaves below some nodes of a trie, by      *)
(* increasing rank, i.e. best score first.                                 *)
(*                                                                         *)
(* The frontier is a priority queue of sibling iterators, each standing    *)
(* for its current node and the siblings after it.  Since a node carries   *)
(* the least rank below it, the best leaf is below the top of the queue.   *)
(* One step is one iteration of a loop of the code.                        *)
(***************************************************************************)
EXTENDS TrieNode

VARIABLES
  trie,      \* the serialised trie, never changed here
  frontier,  \* m_frontier: a set of iterators over siblings
  visitor,   \* the visitor of push_leftmost_path
  phase,     \* "none", "advance", "descend" or "ready"
  yielded    \* what the visit has returned so far

iteratorVars == <<frontier, visitor, phase, yielded>>
vars == <<trie, frontier, visitor, phase, yielded>>

-----------------------------------------------------------------------------
(* Mutant: the lowest address is the top, whatever its rank. *)
StandsBefore(it, other) == it.current.data < other.current.data

(* OrderByRank: the top has the least rank and, of these, the lowest       *)
(* address.                                                                *)
ComesBefore(it, other) ==
  \/ it.current.rank < other.current.rank
  \/ /\ it.current.rank = other.current.rank
     /\ it.current.data < other.current.data

Top(queue) ==
  CHOOSE it \in queue : \A other \in queue \ {it} : ComesBefore(it, other)

(* Mutant: exhausted iterators are pushed too. *)
PushedAlways(queue, it) == queue \cup {it}

Pushed(queue, it) == IF AtNode(it) THEN queue \cup {it} ELSE queue

(* traverse_descending_path goes down from source to destination and       *)
(* appends the labels on the way.  On every level it takes the last sibling *)
(* whose children do not start after the destination, or the destination    *)
(* if that is one of the siblings.                                          *)
Heads(siblings, destination) ==
  LET positions == SiblingPositions(trie, siblings)
      later == {n \in 2 .. Len(positions) :
                  positions[n].current.first_child > destination.data}
  IN  IF later = {} THEN Last(positions).current
      ELSE positions[Min(later) - 1].current

Towards(node, destination) ==
  LET children == VisitChildren(trie, node)
  IN  IF destination.data < children.end
      THEN destination ELSE Heads(children, destination)

PathString(source, destination) ==
  LET step == [path \in [node : NodeView, text : Seq(Char)] |->
                 IF path.node.data = destination.data THEN path
                 ELSE LET next == Towards(path.node, destination)
                      IN  [node |-> next, text |-> path.text \o Label(trie, next)]]
  IN  After(Len(trie), step, [node |-> source, text |-> <<>>]).text

(* leaf_to_suggestion; a rank stands for the score it leads to. *)
Dereference(leaf) ==
  [string |-> PathString(Root(trie), leaf), rank |-> leaf.rank]

-----------------------------------------------------------------------------
Init ==
  /\ frontier = {}
  /\ visitor = NoSiblings
  /\ phase = "none"
  /\ yielded = <<>>

(* The constructor: begin () starts from the children of the root,         *)
(* complete () from the node that matches the prefix, alone.               *)
Open(siblings) ==
  /\ phase = "none"
  /\ frontier' = Pushed({}, siblings)
  /\ phase' = IF AtNode(siblings) THEN "advance" ELSE "ready"
  /\ UNCHANGED <<trie, visitor, yielded>>

(* The iterator complete () makes of the node that matched. *)
Alone(node) == [current |-> node, end |-> Skip(trie, node.data)]

(* *it, then ++it up to its call of advance_to_leaf. *)
Increment ==
  /\ phase = "ready"
  /\ frontier # {}
  /\ LET top == Top(frontier)
     IN  /\ yielded' = Append(yielded, Dereference(top.current))
         /\ frontier' = Pushed(frontier \ {top}, NextSibling(trie, top))
  /\ phase' = "advance"
  /\ UNCHANGED <<trie, visitor>>

(* The loop of advance_to_leaf: it ends at a leaf or at the end. *)
AdvanceEnds ==
  /\ phase = "advance"
  /\ frontier # {} => IsLeaf(trie, Top(frontier).current)
  /\ phase' = "ready"
  /\ UNCHANGED <<trie, frontier, visitor, yielded>>

AdvanceDescends ==
  /\ phase = "advance"
  /\ frontier # {}
  /\ ~IsLeaf(trie, Top(frontier).current)
  /\ visitor' = Top(frontier)
  /\ frontier' = frontier \ {Top(frontier)}
  /\ phase' = "descend"
  /\ UNCHANGED <<trie, yielded>>

(* The loop of push_leftmost_path. *)
PushLeaf ==
  /\ phase = "descend"
  /\ IsLeaf(trie, visitor.current)
  /\ frontier' = Pushed(frontier, visitor)
  /\ visitor' = NoSiblings
  /\ phase' = "advance"
  /\ UNCHANGED <<trie, yielded>>

(* Mutant: the visitor stays where it is. *)
PushTailAgain ==
  /\ phase = "descend"
  /\ ~IsLeaf(trie, visitor.current)
  /\ frontier' = Pushed(frontier, NextSibling(trie, visitor))
  /\ UNCHANGED <<trie, phase, visitor, yielded>>

PushTail ==
  /\ phase = "descend"
  /\ ~IsLeaf(trie, visitor.current)
  /\ frontier' = Pushed(frontier, NextSibling(trie, visitor))
  /\ visitor' = VisitChildren(trie, visitor.current)
  /\ UNCHANGED <<trie, phase, yielded>>

Advance == AdvanceEnds \/ AdvanceDescends \/ PushLeaf \/ PushTail

(* The loops run by themselves; the caller decides when to increment. *)
Next == Increment \/ Advance

-----------------------------------------------------------------------------
(* No iterator in the queue or at hand is exhausted, but while there is    *)
(* nothing to visit.                                                       *)
TypeOK ==
  /\ frontier \subseteq Siblings
  /\ visitor \in Siblings
  /\ phase \in {"none", "advance", "descend", "ready"}
  /\ yielded \in Seq([string : Seq(Char), rank : Nat])
  /\ \A it \in frontier : AtNode(it)
  /\ AtNode(visitor) <=> phase = "descend"
=============================================================================
