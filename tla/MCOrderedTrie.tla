--------------------------- MODULE MCOrderedTrie ---------------------------
(* Inputs in which equal prefixes are neighbours, as in a sorted range,    *)
(* with repeated suggestions and suggestions that are prefixes of others.  *)
EXTENDS OrderedTrie

CONSTANTS a, b

MCChar == {a, b}

SortedBy(before(_, _), strings, max) ==
  {s \in BoundedSeq(strings, max) :
     \A i \in 1 .. Len(s) - 1 : s[i] = s[i + 1] \/ before(s[i], s[i + 1])}

(* Lexicographic order, a before b. *)
Before(s, t) ==
  \/ IsPrefix(s, t)
  \/ \E n \in 1 .. Min({Len(s), Len(t)}) :
       /\ SubSeq(s, 1, n - 1) = SubSeq(t, 1, n - 1)
       /\ s[n] = a /\ t[n] = b

Ranked(sequences, rankValues) ==
  UNION {{[suggestions |-> s, ranks |-> r] : r \in [1 .. Len(s) -> rankValues]} :
           s \in sequences}

(* Any sorted input up to these bounds, and four suggestions of different  *)
(* shape: a label that is cut, a leaf next to its father's other children, *)
(* subtries of different sizes.                                            *)
MCInputs ==
  Ranked(SortedBy(Before, BoundedSeq({a, b}, 2), 2), {0, 20}) \cup
  Ranked({<<<<a>>, <<a, a, a, b>>, <<a, b>>, <<b, b, b>>>>,
          <<<<>>, <<a, a, a, a>>, <<a, b, a>>, <<a, b, b>>>>,
          <<<<a, b>>, <<a, b>>, <<a, b, a, a>>, <<b>>>>}, {0, 1, 20})

MCQueries == BoundedSeq({a, b}, 3) \cup {<<a, a, a, b>>, <<a, a, a, a, a>>}
=============================================================================
