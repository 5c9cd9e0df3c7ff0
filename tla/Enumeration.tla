---------------------------- MODULE Enumeration -----------------------------
(***************************************************************************)
(* The entries of a sequence that a query wants, in the order in which the *)
(* sequence has them.                                                      *)
(***************************************************************************)
EXTENDS Naturals, FiniteSets

(* Where the wanted entries are. *)
Where(entries, wanted) == {n \in DOMAIN entries : entries[n] \in wanted}

(* The sequences that enumerate a set of positions from the first to the   *)
(* last: there is one for every finite set.                                *)
InOrder(places) ==
  {s \in [1 .. Cardinality(places) -> places] :
     \A j, k \in DOMAIN s : j < k => s[j] < s[k]}
=============================================================================
