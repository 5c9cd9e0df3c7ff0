------------------------- MODULE BuilderRefinement -------------------------
(***************************************************************************)
(* The builder implements SuggestionBag: the unfinished levels, read the   *)
(* way a finished trie is read, hold exactly the suggestions taken so far. *)
(***************************************************************************)
EXTENDS TrieBuilder, TrieContent

(* A subtrie under construction, put below a father of its own so that it  *)
(* can be read.  Its bytes do not depend on where they end up.             *)
Readable(node) == SerialiseNode(node.label, node.rank, 0, node.leaf) \o node.sub

ReadableRoot(node) ==
  Node(Readable(node), 1, 0, Skip(Readable(node), 1))

NodeEntries(node, prefix) ==
  IF ~node.leaf /\ node.sub = <<>>
  THEN <<>>
  ELSE LeavesBelow(Readable(node), ReadableRoot(node), prefix)

(* The labels of the last nodes of the levels above depth. *)
PathTo(depth) ==
  FlattenSeq([i \in 1 .. depth - 1 |-> Last(levels[i]).label])

LevelEntries(depth) ==
  JoinAll[[j \in DOMAIN levels[depth] |->
             NodeEntries(levels[depth][j], PathTo(depth))]]

(* The levels once the root has been made are moved from. *)
Content ==
  IF pc = "done"
  THEN BagOf[Entries(trie)]
  ELSE BagOf[JoinAll[[depth \in DOMAIN levels |-> LevelEntries(depth)]]]

Left ==
  [i \in 1 .. Min({Len(suggestions), Len(ranks)}) - pos |->
     [string |-> suggestions[pos + i], rank |-> ranks[pos + i]]]

Promise == INSTANCE SuggestionBag
  WITH bag <- Content, left <- Left, done <- (pc = "done")

(* Every merge, collapse, sort and relocation of a subtrie keeps what the  *)
(* trie holds, every suggestion adds itself and nothing else, and the      *)
(* serialised trie holds the input, whatever the order of the input.       *)
Implements == Promise!Spec

(* A node whose children are serialised carries the least rank found below *)
(* it, as a reader adds up the relative ranks on the way down: otherwise   *)
(* the iteration by rank would skip a better suggestion.                   *)
Least(entries) == Min({entries[i].rank : i \in DOMAIN entries})

RankIsLeast ==
  /\ \A depth \in DOMAIN levels : \A j \in DOMAIN levels[depth] :
       LET node == levels[depth][j]
       IN  node.sub # <<>> => node.rank = Least(NodeEntries(node, <<>>))
  /\ pc = "done" =>
       \A node \in NodesBelow(trie, Root(trie)) :
         ~IsLeaf(trie, node) /\ node.data # 1 =>
           node.rank = Least(LeavesBelow(trie, node, <<>>))

(* Every byte of the trie belongs to exactly one node, and the children of *)
(* a node never stand before it.                                           *)
Compact ==
  pc = "done" =>
    LET nodes == NodesBelow(trie, Root(trie))
    IN  /\ {node.data : node \in nodes} = {a \in DOMAIN trie : trie[a] # Pad}
        /\ \A node \in nodes :
             ~IsLeaf(trie, node) => /\ node.first_child > node.data
                                    /\ node.first_child \in DOMAIN trie

(* Equal prefixes are neighbours: what sorted input guarantees. *)
Grouped ==
  \A i, k \in DOMAIN suggestions : \A j \in i .. k :
    \A n \in 0 .. Len(suggestions[i]) :
      /\ n <= Len(suggestions[k])
      /\ SubSeq(suggestions[i], 1, n) = SubSeq(suggestions[k], 1, n)
      => /\ n <= Len(suggestions[j])
         /\ SubSeq(suggestions[j], 1, n) = SubSeq(suggestions[i], 1, n)

(* Siblings are told apart by their first character if equal prefixes are  *)
(* neighbours in the input; find_sibling, which takes the first match,     *)
(* depends on it.                                                          *)
SiblingsDiffer ==
  pc = "done" /\ Grouped =>
    \A node \in NodesBelow(trie, Root(trie)) :
      LET positions == SiblingPositions(trie, VisitChildren(trie, node))
          label(i) == Label(trie, positions[i].current)
      IN  \A i, j \in DOMAIN positions :
            i # j /\ label(i) # <<>> /\ label(j) # <<>> =>
              Head(label(i)) # Head(label(j))

(* make_ordered_trie's comment: suggestions "are expected to appear in     *)
(* ascending lexicographic order, or an exception will be raised".  Then   *)
(* at least equal prefixes would be neighbours in all that is built.       *)
UnsortedRefused == pc = "done" => Grouped
=============================================================================
