----------------------------- MODULE NodeBytes -----------------------------
(***************************************************************************)
(* The byte encoding of a node (ordered_trie_node.hpp) and of the two      *)
(* integer encoders it is made of, written to and read back from one byte  *)
(* vector.  The writer appends items with RankEncoder::serialise,          *)
(* OffsetEncoder::serialise and serialise_node; the reader walks over them *)
(* with deserialise and skip only, the way SiblingsIterator walks over the *)
(* nodes of a trie.                                                        *)
(***************************************************************************)
EXTENDS Varint

CONSTANTS
  LabelRange, \* the label sizes that the header byte can hold: 8 in the code
  Ranks,      \* the ranks and
  Offsets,    \* the offsets that are written
  Labels,     \* labels of the nodes written
  MaxItems    \* bound: items written in a behaviour

ASSUME LabelRangeAssumption == LabelRange \in Nat \ {0}
ASSUME LabelsAssumption ==
  \A l \in Labels : l \in Seq(Byte) /\ Len(l) < LabelRange
ASSUME ValuesAssumption == Ranks \cup Offsets \subseteq UInt(8)

VARIABLES
  written,  \* the items written, in order
  out,      \* the bytes
  at,       \* the reader's address: an index of out
  got       \* the items read, in order

vars == <<written, out, at, got>>

Item ==
  [kind : {"rank"}, rank : Ranks] \cup
  [kind : {"offset"}, offset : Offsets] \cup
  [kind : {"node"}, label : Labels, rank : Ranks, offset : Offsets,
   leaf : BOOLEAN]

-----------------------------------------------------------------------------
(* The header byte packs four fields: label size, leaf bit, tag of the     *)
(* offset, tag of the rank.  The weights of their lowest bits follow from  *)
(* enum NodeHeaderOffset.                                                  *)

IS_LEAF == LabelRange
OFFSET  == 2 * IS_LEAF
RANK    == 4 * OFFSET

(* A byte in the code; wider than the other bytes where those are narrow.  *)
HeaderByte == 0 .. 4 * RANK - 1

PackHeader(label, rank, offset, leaf) ==
  Len(label) + (IF leaf THEN IS_LEAF ELSE 0)
             + TagOf(offset) * OFFSET + TagOf(rank) * RANK

LabelSize(data) == out[data] % IS_LEAF
IsLeaf(data)    == (out[data] \div IS_LEAF) % 2 = 1
OffsetTag(data) == (out[data] \div OFFSET) % 4
RankTag(data)   == (out[data] \div RANK) % 4

(* serialise_node; the metadata of a Void leaf takes no byte. *)
PutNode(label, rank, offset, leaf) ==
  <<PackHeader(label, rank, offset, leaf)>>
    \o PutOffset(offset) \o label \o PutRank(rank)

(* Bytes of a node: what serialise_node appends. *)
NodeSize(label, rank, offset) ==
  1 + OffsetSize(offset) + Len(label) + RankSize(rank)

(* Node::label_begin, rank_address, metadata_address (Node::skip). *)
LabelBegin(data)  == SkipOffset(data + 1, OffsetTag(data))
RankAddress(data) == LabelBegin(data) + LabelSize(data)
SkipNode(data)    == SkipRank(out, RankAddress(data), RankTag(data))

(* What Node's constructor and accessors return for the node at data. *)
GetNode(data) ==
  [kind   |-> "node",
   label  |-> SubSeq(out, LabelBegin(data), RankAddress(data) - 1),
   rank   |-> GetRank(out, RankAddress(data), RankTag(data)),
   offset |-> GetOffset(out, data + 1, OffsetTag(data)),
   leaf   |-> IsLeaf(data)]

-----------------------------------------------------------------------------
Init == written = <<>> /\ out = <<>> /\ at = 1 /\ got = <<>>

Write(bytes) ==
  /\ Len(written) < MaxItems
  /\ out' = out \o bytes
  /\ UNCHANGED <<at, got>>

WriteRank(n) ==
  /\ written' = Append(written, [kind |-> "rank", rank |-> n])
  /\ Write(PutRank(n))

WriteOffset(n) ==
  /\ written' = Append(written, [kind |-> "offset", offset |-> n])
  /\ Write(PutOffset(n))

WriteNode(label, rank, offset, leaf) ==
  /\ written' = Append(written, [kind |-> "node", label |-> label, rank |-> rank,
                                offset |-> offset, leaf |-> leaf])
  /\ Write(PutNode(label, rank, offset, leaf))

(* The reader knows the kind of the next item, and the tag of a codeword   *)
(* that stands by itself; everything about a node is read from its bytes.  *)
NextItem == written[Len(got) + 1]

Read(kind, item, next) ==
  /\ Len(got) < Len(written)
  /\ NextItem.kind = kind
  /\ got' = Append(got, item)
  /\ at' = next
  /\ UNCHANGED <<written, out>>

ReadRank ==
  LET tag == TagOf(NextItem.rank)
  IN  Read("rank", [kind |-> "rank", rank |-> GetRank(out, at, tag)],
           SkipRank(out, at, tag))

ReadOffset ==
  LET tag == TagOf(NextItem.offset)
  IN  Read("offset", [kind |-> "offset", offset |-> GetOffset(out, at, tag)],
           SkipOffset(at, tag))

ReadNode == Read("node", GetNode(at), SkipNode(at))

Next ==
  \/ \E n \in Ranks : WriteRank(n)
  \/ \E n \in Offsets : WriteOffset(n)
  \/ \E label \in Labels, rank \in Ranks, offset \in Offsets, leaf \in BOOLEAN :
       WriteNode(label, rank, offset, leaf)
  \/ ReadRank
  \/ ReadOffset
  \/ ReadNode

Spec == Init /\ [][Next]_vars

-----------------------------------------------------------------------------
(* A byte never overflows: a group of a rank and its continuation bit      *)
(* share one, and so do the four fields of a header.  The reader stays     *)
(* within the vector.                                                      *)
TypeOK ==
  /\ written \in Seq(Item)
  /\ out \in Seq(Byte \cup HeaderByte)
  /\ (\A i \in 1 .. Len(written) : written[i].kind # "node") => out \in Seq(Byte)
  /\ at \in 1 .. Len(out) + 1
  /\ Len(got) <= Len(written)

(* Everything read back equals what was written, whatever the widths the   *)
(* encoders chose and whatever was written before and after it.            *)
RoundTrip ==
  \A i \in 1 .. Len(got) : got[i] = written[i]

(* The size of an item, computed from its fields and not from its bytes:   *)
(* the address arithmetic of the trie modules relies on it.                *)
ItemSize(item) ==
  CASE item.kind = "rank"   -> RankSize(item.rank)
    [] item.kind = "offset" -> OffsetSize(item.offset)
    [] item.kind = "node"   -> NodeSize(item.label, item.rank, item.offset)

SizeOf(items) ==
  LET first[n \in 0 .. Len(items)] ==  \* the size of the first n items
        IF n = 0 THEN 0 ELSE first[n - 1] + ItemSize(items[n])
  IN  first[Len(items)]

(* skip takes the reader from the first byte of an item to the first byte  *)
(* of the next one and never into the middle of a codeword; after the last *)
(* item it stands one past the end of the vector.                          *)
Aligned ==
  /\ at = 1 + SizeOf(SubSeq(written, 1, Len(got)))
  /\ Len(out) = SizeOf(written)
=============================================================================
