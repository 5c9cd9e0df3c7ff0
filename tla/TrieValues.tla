----------------------------- MODULE TrieValues -----------------------------
(***************************************************************************)
(* What OrderedTrie promises to its users: the objects are values, as the  *)
(* standard containers are, and copies have nothing to do with each other. *)
(* An iterator enumerates what its trie held when it was made, until that  *)
(* trie is assigned, moved from or destroyed.                              *)
(***************************************************************************)
EXTENDS Sequences, Enumeration

CONSTANTS
  Trie,         \* the objects of class OrderedTrie
  Iterator,     \* the objects of class iterator
  Content,      \* what a trie may hold: sequences of entries, best first
  Subtrie,      \* sets of entries that a query may ask for
  Gone,         \* there is no such object
  Unspecified,  \* the value of a trie that was moved from
  NoIterator    \* no iterator, or one that may not be used any more

VARIABLES
  value,   \* value[t]
  cursor   \* cursor[i]: the owner of i and the entries that are left

vars == <<value, cursor>>

CursorsOn(t) == {i \in Iterator : cursor[i] # NoIterator /\ cursor[i].owner = t}

Invalidate(ts) ==
  cursor' = [i \in Iterator |->
               IF \E t \in ts : i \in CursorsOn(t) THEN NoIterator ELSE cursor[i]]

Init ==
  /\ value = [t \in Trie |-> Gone]
  /\ cursor = [i \in Iterator |-> NoIterator]

Construct(t, entries) ==
  /\ value[t] = Gone
  /\ value' = [value EXCEPT ![t] = entries]
  /\ UNCHANGED cursor

Copy(t, source) ==
  /\ value[t] = Gone
  /\ value[source] # Gone
  /\ value' = [value EXCEPT ![t] = value[source]]
  /\ UNCHANGED cursor

Move(t, source) ==
  /\ value[t] = Gone
  /\ value[source] # Gone
  /\ value' = [value EXCEPT ![t] = value[source], ![source] = Unspecified]
  /\ Invalidate({source})

(* An object assigned to itself keeps its value and its iterators. *)
CopyAssign(t, source) ==
  /\ t # source
  /\ value[t] # Gone
  /\ value[source] # Gone
  /\ value' = [value EXCEPT ![t] = value[source]]
  /\ Invalidate({t})

MoveAssign(t, source) ==
  /\ t # source
  /\ value[t] # Gone
  /\ value[source] # Gone
  /\ value' = [value EXCEPT ![t] = value[source], ![source] = Unspecified]
  /\ Invalidate({t, source})

Destroy(t) ==
  /\ value[t] # Gone
  /\ value' = [value EXCEPT ![t] = Gone]
  /\ Invalidate({t})

Iterate(i, t, entries) ==
  /\ value[t] \notin {Gone, Unspecified}
  /\ cursor' = [cursor EXCEPT ![i] = [owner |-> t, left |-> entries]]
  /\ UNCHANGED value

Begin(i, t) == Iterate(i, t, value[t])

End(i, t) == Iterate(i, t, <<>>)

Complete(i, t, wanted) ==
  /\ value[t] \notin {Gone, Unspecified}
  /\ \E places \in InOrder(Where(value[t], wanted)) :
       Iterate(i, t, [n \in DOMAIN places |-> value[t][places[n]]])

Increment(i) ==
  /\ cursor[i] # NoIterator
  /\ cursor[i].left # <<>>
  /\ cursor' = [cursor EXCEPT ![i].left = Tail(@)]
  /\ UNCHANGED value

CopyIterator(i, source) ==
  /\ cursor' = [cursor EXCEPT ![i] = cursor[source]]
  /\ UNCHANGED value

Next ==
  \/ \E t \in Trie :
       \/ \E entries \in Content : Construct(t, entries)
       \/ \E source \in Trie :
            \/ Copy(t, source)
            \/ Move(t, source)
            \/ CopyAssign(t, source)
            \/ MoveAssign(t, source)
       \/ Destroy(t)
  \/ \E i \in Iterator :
       \/ \E t \in Trie :
            \/ Begin(i, t)
            \/ End(i, t)
            \/ \E wanted \in Subtrie : Complete(i, t, wanted)
       \/ Increment(i)
       \/ \E source \in Iterator : CopyIterator(i, source)

Spec == Init /\ [][Next]_vars
=============================================================================
