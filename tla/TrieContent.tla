---------------------------- MODULE TrieContent ----------------------------
(***************************************************************************)
(* What a serialised trie means: the suggestions and ranks a reader that   *)
(* visits all of its nodes finds in it.  This is the reference the builder *)
(* and the queries are compared with.                                      *)
(***************************************************************************)
EXTENDS TrieNode

Entry == [string : Seq(Char), rank : Nat]

Only(node) == [current |-> node, end |-> NullAddress]

(* The leaves below node, left to right, when the labels from the root     *)
(* down to node, node not included, spell prefix.  Every one is fewer      *)
(* steps away than the trie has bytes.                                     *)
Leaves(trie, node, prefix) ==
  LET leaf(it, string) ==
        [data  |-> it.current.data,
         entry |-> [string |-> string, rank |-> it.current.rank]]
      below(it, p, leaves) ==
        LET string == p \o Label(trie, it.current)
        IN  IF IsLeaf(trie, it.current)
            THEN <<leaf(it, string)>>
            ELSE leaves[VisitChildren(trie, it.current)][string]
      within[n \in Nat] ==
        [it \in Siblings |-> [p \in Seq(Char) |->
           IF n = 0 \/ ~AtNode(it) THEN <<>>
           ELSE below(it, p, within[n - 1]) \o within[n - 1][NextSibling(trie, it)][p]]]
  IN  within[Len(trie)][Only(node)][prefix]

LeavesBelow(trie, node, prefix) ==
  LET leaves == Leaves(trie, node, prefix)
  IN  [i \in DOMAIN leaves |-> leaves[i].entry]

(* All positions an iterator over siblings leads to by ++ and              *)
(* visit_children, itself included.  Every one is some steps away, fewer   *)
(* than the trie has bytes.                                                *)
PositionsFrom(trie, siblings) ==
  LET steps(it) == {s \in {NextSibling(trie, it), VisitChildren(trie, it.current)} :
                      s \in Siblings /\ AtNode(s)}
      within[n \in Nat] ==
        [it \in Siblings |->
           {it} \cup IF n = 0 THEN {} ELSE UNION {within[n - 1][s] : s \in steps(it)}]
  IN  IF AtNode(siblings) THEN within[Len(trie)][siblings] ELSE {}

NodesFrom(trie, siblings) ==
  {it.current : it \in PositionsFrom(trie, siblings)}

NodesBelow(trie, node) == NodesFrom(trie, Only(node))

(* OrderedTrie::empty: the root of a trie built from nothing is a leaf.    *)
Entries(trie) ==
  IF IsLeaf(trie, Root(trie)) THEN <<>> ELSE LeavesBelow(trie, Root(trie), <<>>)

JoinAll[seqs \in Seq(Seq(Entry))] == FlattenSeq(seqs)

BagOf[entries \in Seq(Entry)] ==
  [e \in Range(entries) |-> Cardinality({i \in DOMAIN entries : entries[i] = e})]
=============================================================================
