--------------------------- MODULE SuggestionBag ---------------------------
(***************************************************************************)
(* What building a trie promises: the entries of the input are added one   *)
(* after the other to a bag, none is lost, repeated or changed, and the    *)
(* trie is delivered once all of them are in it.                           *)
(***************************************************************************)
EXTENDS Sequences, Bags

VARIABLES
  bag,   \* the entries the trie holds
  left,  \* the entries still to be added
  done   \* the trie has been delivered

vars == <<bag, left, done>>

Init == bag = EmptyBag /\ ~done

Add ==
  /\ left # <<>>
  /\ bag' = bag (+) SetToBag({Head(left)})
  /\ left' = Tail(left)
  /\ UNCHANGED done

Deliver ==
  /\ left = <<>>
  /\ ~done
  /\ done'
  /\ UNCHANGED <<bag, left>>

Next == Add \/ Deliver

Spec == Init /\ [][Next]_vars
=============================================================================
