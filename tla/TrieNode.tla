------------------------------ MODULE TrieNode ------------------------------
(***************************************************************************)
(* A serialised trie and the read-only view of its nodes: class Node       *)
(* (ordered_trie_node.hpp) and the sibling iteration of                    *)
(* ordered_trie_iterator.hpp.                                              *)
(*                                                                         *)
(* A trie is the byte vector the builder makes, indexed from 1.  The first *)
(* byte of a node stands for its whole header, a record of the four fields *)
(* serialise_node is given; the bytes that follow, whose content NodeBytes *)
(* models, are Pad.  A node is as many bytes wide as its encoding, and an  *)
(* address that is not the first byte of a node holds no record, so a read *)
(* at a wrong address is an error of the model.                            *)
(***************************************************************************)
EXTENDS Varint, SequencesExt

CONSTANTS
  Char,          \* characters of suggestions and labels
  MaxLabelSize,  \* Node::max_label_size: 8 in the code; labels are shorter
  Pad            \* any byte of a node's encoding but its first

ASSUME MaxLabelSizeAssumption == MaxLabelSize \in Nat \ {0, 1}

(* The fields of a node, as they are serialised: see Node. *)
Header == [label : Seq(Char), rank : Nat, offset : Nat, leaf : BOOLEAN]

ASSUME PadAssumption == Pad \notin Header

(* Bytes that serialise_node appends for these fields. *)
NodeWidth(header) ==
  1 + OffsetSize(header.offset) + Len(header.label) + RankSize(header.rank)

(* serialise_node: rank and offset are relative, see Node. *)
SerialiseNode(label, rank, offset, leaf) ==
  LET header == [label |-> label, rank |-> rank, offset |-> offset,
                 leaf |-> leaf]
  IN  <<header>> \o [i \in 1 .. NodeWidth(header) - 1 |-> Pad]

-----------------------------------------------------------------------------
(* Node *)

NullAddress == 0

(* Node::skip: the first byte after the encoding of a node. *)
Skip(trie, data) == data + NodeWidth(trie[data])

(* Node's constructor.  The rank stored is relative to base_rank and the   *)
(* offset of the children is relative to children_base.                    *)
Node(trie, data, base_rank, children_base) ==
  [data        |-> data,
   rank        |-> base_rank + trie[data].rank,
   first_child |-> children_base + trie[data].offset]

NullNode == [data |-> NullAddress, rank |-> 0, first_child |-> NullAddress]

NodeView == [data : Nat, rank : Nat, first_child : Nat]

Label(trie, node)  == trie[node.data].label
IsLeaf(trie, node) == trie[node.data].leaf

(* make_trie_root *)
Root(trie) == Node(trie, 1, 0, Skip(trie, 1))

-----------------------------------------------------------------------------
(* SiblingsIterator: the current node and the end of the siblings.  It is  *)
(* exhausted when its current node is null (operator bool).                *)

NoSiblings == [current |-> NullNode, end |-> NullAddress]

Siblings == [current : NodeView, end : Nat]

AtNode(it) == it.current.data # NullAddress

(* operator++ *)
NextSibling(trie, it) ==
  LET next == Skip(trie, it.current.data)
  IN  [it EXCEPT !.current =
         IF next < it.end
         THEN Node(trie, next, it.current.rank, it.current.first_child)
         ELSE NullNode]

(* The first sibling carries the size of all headers but its own as its    *)
(* offset: its first_child is where the sibling headers end.               *)
VisitChildren(trie, node) ==
  IF IsLeaf(trie, node)
  THEN NoSiblings
  ELSE LET first == Node(trie, node.first_child, node.rank,
                         Skip(trie, node.first_child))
       IN  [current |-> first, end |-> first.first_child]

(* A loop: the n-th of the values that repeated steps lead to. *)
After(n, step, start) ==
  LET value[k \in Nat] == IF k = 0 THEN start ELSE step[value[k - 1]]
  IN  value[n]

(* Siblings are visited by ++ until the iterator is exhausted, which is    *)
(* after fewer steps than the trie has bytes.                              *)
SiblingAt(trie, it, n) ==
  After(n, [i \in Siblings |-> IF AtNode(i) THEN NextSibling(trie, i) ELSE i], it)

SiblingPositions(trie, it) ==
  LET count == CHOOSE n \in 0 .. Len(trie) :
                 \A m \in 0 .. n : AtNode(SiblingAt(trie, it, m)) <=> m < n
  IN  [i \in 1 .. count |-> SiblingAt(trie, it, i - 1)]

(* find_sibling: the first position whose node satisfies pred, a function  *)
(* of nodes, or where the iterator is exhausted.                           *)
FindSibling(trie, it, pred) ==
  After(Len(trie),
        [i \in Siblings |-> IF AtNode(i) /\ ~pred[i.current]
                            THEN NextSibling(trie, i) ELSE i],
        it)
=============================================================================
