------------------------------ MODULE MCScores ------------------------------
(* Scores of two parts, compared by the first only: scores of one value    *)
(* are equivalent and not equal.                                           *)
EXTENDS Scores

MCScore == {<<1, "x">>, <<2, "x">>, <<2, "y">>, <<2, "z">>, <<3, "x">>}

MCPrecedes(s, t) == s[1] > t[1]

MCWidth(s) == s[1]
=============================================================================
