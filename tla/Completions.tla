---------------------------- MODULE Completions ----------------------------
(***************************************************************************)
(* What begin () and complete () promise: the suggestions asked for come   *)
(* out one by one, as many times as they were put in, none before one of   *)
(* lower rank, and the end is not reached before all of them have.         *)
(***************************************************************************)
EXTENDS Naturals, Sequences, Bags

VARIABLES
  wanted,  \* the suggestions that were asked for: a bag of entries
  owed,    \* those of them that have not come out yet
  out,     \* what has come out
  ended    \* the iterator is at its end

vars == <<wanted, owed, out, ended>>

Init == wanted = EmptyBag /\ owed = EmptyBag /\ out = <<>> /\ ~ended

Ask ==
  /\ out = <<>> /\ ~ended
  /\ owed' = wanted'
  /\ UNCHANGED <<out, ended>>

Take ==
  /\ ~ended
  /\ \E entry \in BagToSet(owed) :
       /\ \A other \in BagToSet(owed) : entry.rank <= other.rank
       /\ owed' = owed (-) SetToBag({entry})
       /\ out' = Append(out, entry)
  /\ UNCHANGED <<wanted, ended>>

End ==
  /\ owed = EmptyBag
  /\ ended'
  /\ UNCHANGED <<wanted, owed, out>>

Next == Ask \/ Take \/ End

Spec == Init /\ [][Next]_vars
=============================================================================
