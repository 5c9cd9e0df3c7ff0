--------------------------- MODULE MCTrieBuilder ---------------------------
(* Inputs in any order, with repeated suggestions and with ranges of       *)
(* different sizes.  Labels hold at most two characters, so a branch of    *)
(* four characters is both collapsed and cut.                              *)
EXTENDS BuilderRefinement

CONSTANTS a, b

MCChar == {a, b}

(* Every pair of sequences up to these sizes, of one size or not. *)
InputsUpTo(strings, rankValues, max) ==
  {[suggestions |-> s, ranks |-> r] :
     s \in BoundedSeq(strings, max), r \in BoundedSeq(rankValues, max)}

SameSizes(inputs) == {i \in inputs : Len(i.suggestions) = Len(i.ranks)}

(* Ranks whose differences take no byte, one byte and four.  A subtrie is  *)
(* up to some thirty bytes long, so its size takes all the widths too.     *)
MCRanks == {0, 1, 20}

MCInputs ==
  UNION {InputsUpTo(BoundedSeq({a, b}, 1), {0, 1}, 2),
         SameSizes(InputsUpTo(BoundedSeq({a, b}, 2), MCRanks, 3)),
         SameSizes(InputsUpTo(BoundedSeq({a, b}, 4), {0, 20}, 2))}

MCFewInputs == InputsUpTo(BoundedSeq({a, b}, 2), {0}, 3)
=============================================================================
