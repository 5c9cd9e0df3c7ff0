--------------------------- MODULE MCTrieHandles ----------------------------
(***************************************************************************)
(* Three tries and two addresses: a Store that is freed is soon replaced   *)
(* by another at the same place.                                           *)
(***************************************************************************)
EXTENDS TrieHandles, TLC

CONSTANTS c1, c2, d1

MCContent == {<<>>, <<c1, c2>>, <<d1>>}

(* A query for the second of two entries, or for nothing. *)
MCSubtrie == {{c2}}

(* Tries are not asked to complete anything, only for all they have. *)
MCNoSubtrie == {}

Symmetry ==
  Permutations(Trie) \cup Permutations(Address) \cup Permutations(Iterator)
=============================================================================
