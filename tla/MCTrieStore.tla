---------------------------- MODULE MCTrieStore -----------------------------
(***************************************************************************)
(* Two programs share a file.  One trie has no score table, and the files  *)
(* of both have the same size.                                             *)
(***************************************************************************)
EXTENDS TrieStore

CONSTANTS p1, p2

MCBuilt ==
  {[table |-> <<>>, trie |-> <<1, 2>>],
   [table |-> <<4>>, trie |-> <<6>>]}

base == [type |-> <<3>>, endianness |-> LITTLE, major |-> 1]

(* Two programs of one kind, or the second differs in one respect. *)
MCKinds ==
  {[p \in Program |-> IF p = p1 THEN base ELSE other] :
     other \in {base,
               [base EXCEPT !.type = <<4, 3>>],
               [base EXCEPT !.endianness = BIG],
               [base EXCEPT !.major = 2]}}

MCOneKind == {[p \in Program |-> base]}

(* In a header with initials of one byte, before the segment of the trie   *)
(* and behind the first byte of what follows it; in one with two, inside   *)
(* the size of the table and at its end.                                   *)
MCCuts == {8, 13}
=============================================================================
