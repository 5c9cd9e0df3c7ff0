------------------------- MODULE TrieHandlesProofs --------------------------
(***************************************************************************)
(* No raw pointer of a trie that owns a Store, and none of an iterator     *)
(* that may be used, ever dangles: for any number of tries and iterators,  *)
(* any contents and any reuse of addresses.                                *)
(***************************************************************************)
EXTENDS TrieHandles, SequenceLemmas, FiniteSetTheorems, TLAPS

(* What of the types the argument needs: the leaves an iterator has left   *)
(* do not matter.                                                          *)
IterType(it) ==
  /\ DOMAIN it = {"trie", "store", "left"}
  /\ it.trie \in Trie
  /\ it.store \in Address

Types ==
  /\ memory \in [Address -> Content \cup {Free}]
  /\ handle \in [Trie -> Handle \cup {Gone}]
  /\ DOMAIN iter = Iterator
  /\ valid \subseteq Iterator
  /\ \A i \in valid : IterType(iter[i])

Inv == Types /\ PointersOK

-----------------------------------------------------------------------------
(* An operation that gives tries only what other tries have, or takes it   *)
(* from them, keeps the pointers of tries right: what it frees no trie     *)
(* points to.                                                              *)
LEMMA HandlesKept ==
  ASSUME Inv,
         NEW hs \in [Trie -> Handle \cup {Gone}],
         SetHandles(hs),
         \A t \in Trie : hs[t] # Gone /\ hs[t].store # Null =>
                           \E s \in Trie : handle[s] = hs[t]
  PROVE  /\ memory' \in [Address -> Content \cup {Free}]
         /\ handle' \in [Trie -> Handle \cup {Gone}]
         /\ \A a \in Address : memory'[a] # Free <=> Owned(handle, a)'
         /\ \A t \in Trie :
              handle'[t] # Gone /\ handle'[t].store # Null =>
                PointsIntoItsStore(handle[t])'
<1>1. handle' = hs
  BY DEF SetHandles
<1>2. \A a \in Address : Owned(hs, a) => memory'[a] = memory[a] /\ memory[a] # Free
  <2> SUFFICES ASSUME NEW a \in Address, Owned(hs, a)
               PROVE  memory'[a] = memory[a] /\ memory[a] # Free
    OBVIOUS
  <2>1. PICK t \in Trie : hs[t] # Gone /\ hs[t].store = a
    BY DEF Owned
  <2>2. PICK s \in Trie : handle[s] = hs[t]
    BY <2>1, NullIsNoAddress
  <2>3. Owned(handle, a)
    BY <2>1, <2>2 DEF Owned
  <2> QED
    BY <2>3 DEF SetHandles, Inv, PointersOK
<1>3. \A a \in Address : ~ Owned(hs, a) => memory'[a] = Free
  BY DEF SetHandles
<1>4. memory' \in [Address -> Content \cup {Free}]
  BY <1>2, <1>3 DEF SetHandles, Inv, Types
<1>5. ASSUME NEW t \in Trie, hs[t] # Gone, hs[t].store # Null
      PROVE  PointsIntoItsStore(hs[t])'
  <2>1. PICK s \in Trie : handle[s] = hs[t]
    BY <1>5
  <2>2. PointsIntoItsStore(hs[t])
    BY <1>5, <2>1 DEF Inv, PointersOK, Exists
  <2>3. hs[t].store \in Address
    BY <1>5 DEF Handle
  <2>4. memory'[hs[t].store] = memory[hs[t].store]
    BY <1>2, <1>5, <2>3 DEF Owned
  <2> QED
    BY <2>2, <2>4, <1>1 DEF PointsIntoItsStore
<1> QED
  BY <1>1, <1>2, <1>3, <1>4, <1>5

(* An iterator that stays valid belongs to a trie that was left alone. *)
LEMMA IteratorsKept ==
  ASSUME Inv,
         iter' = iter,
         valid' \subseteq valid,
         \A i \in valid' : handle'[iter[i].trie] = handle[iter[i].trie]
  PROVE  /\ DOMAIN iter' = Iterator
         /\ valid' \subseteq Iterator
         /\ \A i \in valid' : IterType(iter'[i]) /\ Follows(iter[i])'
BY DEF Inv, Types, PointersOK, Follows, Exists, IterType

-----------------------------------------------------------------------------
LEMMA InitInv == Init => Inv
<1> SUFFICES ASSUME Init PROVE Inv
  OBVIOUS
<1>1. Types
  BY DEF Init, Types
<1>2. \A a \in Address : ~ Owned(handle, a)
  BY DEF Init, Owned
<1>3. PointersOK
  BY <1>2 DEF Init, PointersOK, Exists
<1> QED
  BY <1>1, <1>3 DEF Inv

(* A new Store lies where there was none, so it is nobody's else. *)
LEMMA OpenKeeps ==
  ASSUME Inv, NEW t \in Trie, NEW entries \in Content,
         ~ Exists(t), Open(t, entries), UNCHANGED <<iter, valid>>
  PROVE  Inv'
<1>1. PICK a \in Address :
        /\ memory[a] = Free
        /\ memory' = [memory EXCEPT ![a] = entries]
        /\ handle' = [handle EXCEPT ![t] =
                        [root |-> a,
                         table |-> IF entries = <<>> THEN Null ELSE a,
                         store |-> a]]
  BY DEF Open
<1> DEFINE new == [root |-> a,
                   table |-> IF entries = <<>> THEN Null ELSE a,
                   store |-> a]
<1>2. new \in Handle
  BY DEF Handle
<1>3. new # Gone
  BY <1>2, GoneIsNoHandle
<1>4. handle'[t] = new /\ (\A s \in Trie \ {t} : handle'[s] = handle[s])
  BY <1>1 DEF Inv, Types
<1>5. memory'[a] = entries /\ (\A b \in Address \ {a} : memory'[b] = memory[b])
  BY <1>1 DEF Inv, Types
<1>6. ~ Owned(handle, a)
  BY <1>1 DEF Inv, PointersOK
<1>7. memory' \in [Address -> Content \cup {Free}]
  BY <1>1 DEF Inv, Types
<1>8. handle' \in [Trie -> Handle \cup {Gone}]
  BY <1>1, <1>2 DEF Inv, Types
<1>9. \A b \in Address : memory'[b] # Free <=> Owned(handle, b)'
  <2> SUFFICES ASSUME NEW b \in Address
               PROVE  memory'[b] # Free <=> Owned(handle, b)'
    OBVIOUS
  <2>1. CASE b = a
    BY <2>1, <1>3, <1>4, <1>5, FreeIsNoContent DEF Owned
  <2>2. CASE b # a
    <3>1. memory[b] # Free <=> Owned(handle, b)
      BY DEF Inv, PointersOK
    <3>2. Owned(handle, b) <=> Owned(handle, b)'
      BY <2>2, <1>4 DEF Owned, Exists
    <3> QED
      BY <2>2, <3>1, <3>2, <1>5
  <2> QED
    BY <2>1, <2>2
<1>10. ASSUME NEW s \in Trie, handle'[s] # Gone, handle'[s].store # Null
       PROVE  PointsIntoItsStore(handle[s])'
  <2>1. CASE s = t
    BY <2>1, <1>4, <1>5 DEF PointsIntoItsStore
  <2>2. CASE s # t
    <3>1. handle'[s] = handle[s] /\ handle[s] \in Handle
      BY <2>2, <1>4, <1>10 DEF Inv, Types
    <3>2. handle[s].store \in Address /\ Owned(handle, handle[s].store)
      BY <3>1, <1>10 DEF Handle, Owned
    <3>3. handle[s].store # a
      BY <3>2, <1>6
    <3>4. PointsIntoItsStore(handle[s])
      BY <3>1, <1>10 DEF Inv, PointersOK, Exists
    <3> QED
      BY <3>1, <3>2, <3>3, <3>4, <1>5 DEF PointsIntoItsStore
  <2> QED
    BY <2>1, <2>2
<1>11. \A i \in valid : iter[i].trie # t
  BY DEF Inv, PointersOK, Follows
<1>12. \A i \in valid : handle'[iter[i].trie] = handle[iter[i].trie]
  BY <1>4, <1>11 DEF Inv, Types, IterType
<1>13. \A i \in valid : iter'[i] = iter[i]
  OBVIOUS
<1>14. /\ DOMAIN iter' = Iterator
       /\ valid' \subseteq Iterator
       /\ \A i \in valid' : IterType(iter'[i]) /\ Follows(iter[i])'
  BY <1>12, IteratorsKept
<1> QED
  BY <1>7, <1>8, <1>9, <1>10, <1>14 DEF Inv, Types, PointersOK, Exists

(* Copies, moves, assignments and destruction put hs in place of the tries *)
(* and invalidate the iterators of the tries ts that they change.          *)
LEMMA SetKeeps ==
  ASSUME Inv, NEW ts,
         NEW hs \in [Trie -> Handle \cup {Gone}],
         SetHandles(hs),
         \A t \in Trie : hs[t] # Gone /\ hs[t].store # Null =>
                           \E s \in Trie : handle[s] = hs[t],
         \A i \in valid : iter[i].trie \notin ts =>
                            hs[iter[i].trie] = handle[iter[i].trie],
         Invalidate(ts), UNCHANGED iter
  PROVE  Inv'
<1>1. handle' = hs
  BY DEF SetHandles
<1>2. valid' \subseteq valid
  BY DEF Invalidate
<1>3. \A i \in valid' : handle'[iter[i].trie] = handle[iter[i].trie]
  BY <1>1 DEF Invalidate
<1>4. /\ DOMAIN iter' = Iterator
      /\ valid' \subseteq Iterator
      /\ \A i \in valid' : IterType(iter'[i]) /\ Follows(iter[i])'
  BY <1>2, <1>3, IteratorsKept
<1> QED
  BY <1>4, HandlesKept DEF Inv, Types, PointersOK, Exists

-----------------------------------------------------------------------------
LEMMA CopyKeeps ==
  ASSUME Inv, NEW t \in Trie, NEW source \in Trie, Copy(t, source)
  PROVE  Inv'
<1> DEFINE hs == [handle EXCEPT ![t] = handle[source]]
<1>1. hs \in [Trie -> Handle \cup {Gone}]
  BY DEF Inv, Types
<1>2. \A s \in Trie : \E r \in Trie : handle[r] = hs[s]
  BY DEF Inv, Types
<1>3. \A i \in valid : iter[i].trie # t
  BY DEF Copy, Inv, PointersOK, Follows
<1>4. \A i \in valid : hs[iter[i].trie] = handle[iter[i].trie]
  BY <1>3 DEF Inv, Types, IterType
<1>5. SetHandles(hs) /\ Invalidate({}) /\ UNCHANGED iter
  BY DEF Copy, Invalidate, Inv, Types
<1> HIDE DEF hs
<1> QED
  BY <1>1, <1>2, <1>4, <1>5, SetKeeps

LEMMA MoveKeeps ==
  ASSUME Inv, NEW t \in Trie, NEW source \in Trie, Move(t, source)
  PROVE  Inv'
<1> DEFINE hs == [handle EXCEPT ![t] = handle[source], ![source] = Moved(@)]
<1>1. t # source /\ handle[source] \in Handle
  BY DEF Move, Exists, Inv, Types
<1>2. Moved(handle[source]) \in Handle /\ Moved(handle[source]).store = Null
  BY <1>1 DEF Moved, Handle
<1>3. /\ hs[t] = handle[source]
      /\ hs[source] = Moved(handle[source])
      /\ \A s \in Trie \ {t, source} : hs[s] = handle[s]
  BY <1>1 DEF Inv, Types
<1>4. hs \in [Trie -> Handle \cup {Gone}]
  BY <1>1, <1>2 DEF Inv, Types
<1>5. \A s \in Trie : hs[s] # Gone /\ hs[s].store # Null =>
                       \E r \in Trie : handle[r] = hs[s]
  BY <1>2, <1>3
<1>6. \A i \in valid : iter[i].trie # t
  BY DEF Move, Inv, PointersOK, Follows
<1>7. \A i \in valid : iter[i].trie \notin {source} =>
                        hs[iter[i].trie] = handle[iter[i].trie]
  BY <1>3, <1>6 DEF Inv, Types, IterType
<1>8. SetHandles(hs) /\ Invalidate({source}) /\ UNCHANGED iter
  BY DEF Move
<1> HIDE DEF hs
<1> QED
  BY <1>4, <1>5, <1>7, <1>8, SetKeeps

(* A trie that is assigned to itself changes nothing, and frees nothing. *)
LEMMA CopyAssignKeeps ==
  ASSUME Inv, NEW t \in Trie, NEW source \in Trie, CopyAssign(t, source)
  PROVE  Inv'
<1> DEFINE hs == [handle EXCEPT ![t] = handle[source]]
<1>1. hs \in [Trie -> Handle \cup {Gone}]
  BY DEF Inv, Types
<1>2. \A s \in Trie : \E r \in Trie : handle[r] = hs[s]
  BY DEF Inv, Types
<1>3. \A i \in valid : iter[i].trie \notin {t} \ {source} =>
                        hs[iter[i].trie] = handle[iter[i].trie]
  BY DEF Inv, Types, IterType
<1>4. SetHandles(hs) /\ Invalidate({t} \ {source}) /\ UNCHANGED iter
  BY DEF CopyAssign
<1> HIDE DEF hs
<1> QED
  BY <1>1, <1>2, <1>3, <1>4, SetKeeps

LEMMA MoveAssignKeeps ==
  ASSUME Inv, NEW t \in Trie, NEW source \in Trie, MoveAssign(t, source)
  PROVE  Inv'
<1>1. CASE t = source
  <2>1. handle \in [Trie -> Handle \cup {Gone}]
    BY DEF Inv, Types
  <2>2. SetHandles(handle) /\ Invalidate({}) /\ UNCHANGED iter
    BY <1>1 DEF MoveAssign, Invalidate, Inv, Types
  <2> QED
    BY <2>1, <2>2, SetKeeps
<1>2. CASE t # source
  <2> DEFINE hs == [handle EXCEPT ![t] = handle[source], ![source] = Moved(@)]
  <2>1. handle[source] \in Handle
    BY DEF MoveAssign, Exists, Inv, Types
  <2>2. Moved(handle[source]) \in Handle /\ Moved(handle[source]).store = Null
    BY <2>1 DEF Moved, Handle
  <2>3. /\ hs[t] = handle[source]
        /\ hs[source] = Moved(handle[source])
        /\ \A s \in Trie \ {t, source} : hs[s] = handle[s]
    BY <1>2 DEF Inv, Types
  <2>4. hs \in [Trie -> Handle \cup {Gone}]
    BY <2>1, <2>2 DEF Inv, Types
  <2>5. \A s \in Trie : hs[s] # Gone /\ hs[s].store # Null =>
                         \E r \in Trie : handle[r] = hs[s]
    BY <2>2, <2>3
  <2>6. \A i \in valid : iter[i].trie \notin {t, source} =>
                          hs[iter[i].trie] = handle[iter[i].trie]
    BY <2>3 DEF Inv, Types, IterType
  <2>7. SetHandles(hs) /\ Invalidate({t, source}) /\ UNCHANGED iter
    BY <1>2 DEF MoveAssign
  <2> HIDE DEF hs
  <2> QED
    BY <2>4, <2>5, <2>6, <2>7, SetKeeps
<1> QED
  BY <1>1, <1>2

LEMMA DestroyKeeps ==
  ASSUME Inv, NEW t \in Trie, Destroy(t)
  PROVE  Inv'
<1> DEFINE hs == [handle EXCEPT ![t] = Gone]
<1>1. hs \in [Trie -> Handle \cup {Gone}]
  BY DEF Inv, Types
<1>2. \A s \in Trie : hs[s] # Gone => \E r \in Trie : handle[r] = hs[s]
  BY DEF Inv, Types
<1>3. \A i \in valid : iter[i].trie \notin {t} =>
                        hs[iter[i].trie] = handle[iter[i].trie]
  BY DEF Inv, Types, IterType
<1>4. SetHandles(hs) /\ Invalidate({t}) /\ UNCHANGED iter
  BY DEF Destroy
<1> HIDE DEF hs
<1> QED
  BY <1>1, <1>2, <1>3, <1>4, SetKeeps

-----------------------------------------------------------------------------
(* A new iterator gets its pointers from a trie that owns a Store. *)
LEMMA IterateKeeps ==
  ASSUME Inv, NEW i \in Iterator, NEW t \in Trie, NEW leaves,
         Iterate(i, t, leaves)
  PROVE  Inv'
<1> DEFINE it == [trie |-> t, store |-> handle[t].root, left |-> leaves]
<1>1. iter' = [iter EXCEPT ![i] = it] /\ valid' = valid \cup {i}
  BY DEF Iterate
<1>2. UNCHANGED <<memory, handle>>
  BY DEF Iterate
<1>3. iter'[i] = it /\ (\A j \in Iterator \ {i} : iter'[j] = iter[j])
  BY <1>1 DEF Inv, Types
<1>4. PointsIntoItsStore(handle[t]) /\ handle[t].root \in Address
  BY DEF Iterate, Inv, Types, PointersOK, Exists, Handle
<1>5. /\ IterType(it)
      /\ handle[t] # Gone
      /\ handle[t].store = handle[t].root
  BY <1>4 DEF IterType, PointsIntoItsStore, Exists, Iterate
<1>6. \A j \in valid' : IterType(iter'[j]) /\ Follows(iter[j])'
  <2> SUFFICES ASSUME NEW j \in valid'
               PROVE  IterType(iter'[j]) /\ Follows(iter[j])'
    OBVIOUS
  <2>1. CASE j = i
    BY <2>1, <1>2, <1>3, <1>5 DEF Follows, Exists
  <2>2. CASE j # i
    BY <2>2, <1>1, <1>2, <1>3 DEF Inv, Types, PointersOK, Follows, Exists
  <2> QED
    BY <2>1, <2>2
<1>7. DOMAIN iter' = Iterator /\ valid' \subseteq Iterator
  BY <1>1 DEF Inv, Types
<1> QED
  BY <1>2, <1>6, <1>7
  DEF Inv, Types, PointersOK, Exists, Owned, PointsIntoItsStore

LEMMA IncrementKeeps ==
  ASSUME Inv, NEW i \in Iterator, Increment(i)
  PROVE  Inv'
<1>1. /\ UNCHANGED <<memory, handle, valid>>
      /\ i \in valid
      /\ iter' = [iter EXCEPT ![i].left = Tail(@)]
  BY DEF Increment
<1>2. /\ DOMAIN iter' = Iterator
      /\ \A j \in Iterator \ {i} : iter'[j] = iter[j]
      /\ iter'[i] = [iter[i] EXCEPT !.left = Tail(@)]
  BY <1>1 DEF Inv, Types
<1>3. /\ DOMAIN iter'[i] = DOMAIN iter[i]
      /\ iter'[i].trie = iter[i].trie
      /\ iter'[i].store = iter[i].store
  BY <1>1, <1>2 DEF Inv, Types, IterType
<1>4. \A j \in valid' : IterType(iter'[j]) /\ Follows(iter[j])'
  BY <1>1, <1>2, <1>3 DEF Inv, Types, PointersOK, IterType, Follows, Exists
<1> QED
  BY <1>1, <1>2, <1>4
  DEF Inv, Types, PointersOK, Exists, Owned, PointsIntoItsStore

LEMMA CopyIteratorKeeps ==
  ASSUME Inv, NEW i \in Iterator, NEW source \in Iterator,
         CopyIterator(i, source)
  PROVE  Inv'
<1>1. /\ UNCHANGED <<memory, handle>>
      /\ iter' = [iter EXCEPT ![i] = iter[source]]
      /\ valid' = IF source \in valid THEN valid \cup {i} ELSE valid \ {i}
  BY DEF CopyIterator
<1>2. /\ DOMAIN iter' = Iterator
      /\ \A j \in Iterator \ {i} : iter'[j] = iter[j]
      /\ iter'[i] = iter[source]
  BY <1>1 DEF Inv, Types
<1>3. \A j \in valid' : IterType(iter'[j]) /\ Follows(iter[j])'
  BY <1>1, <1>2 DEF Inv, Types, PointersOK, Follows, Exists
<1> QED
  BY <1>1, <1>2, <1>3
  DEF Inv, Types, PointersOK, Exists, Owned, PointsIntoItsStore

-----------------------------------------------------------------------------
(* Every operation keeps all pointers right. *)
LEMMA NextInv == Inv /\ [Next]_vars => Inv'
<1> SUFFICES ASSUME Inv, [Next]_vars PROVE Inv'
  OBVIOUS
<1>1. ASSUME NEW t \in Trie, NEW entries \in Content, Construct(t, entries)
      PROVE  Inv'
  BY <1>1, OpenKeeps DEF Construct
<1>2. ASSUME NEW t \in Trie, DefaultConstruct(t)
      PROVE  Inv'
  BY <1>2, OpenKeeps, EmptyIsContent DEF DefaultConstruct
<1>3. ASSUME NEW t \in Trie, NEW source \in Trie,
             \/ Copy(t, source)
             \/ Move(t, source)
             \/ CopyAssign(t, source)
             \/ MoveAssign(t, source)
      PROVE  Inv'
  BY <1>3, CopyKeeps, MoveKeeps, CopyAssignKeeps, MoveAssignKeeps
<1>4. ASSUME NEW t \in Trie, Destroy(t)
      PROVE  Inv'
  BY <1>4, DestroyKeeps
<1>5. ASSUME NEW i \in Iterator, NEW t \in Trie, NEW wanted \in Subtrie,
             Complete(i, t, wanted)
      PROVE  Inv'
  BY <1>5, IterateKeeps DEF Complete
<1>6. ASSUME NEW i \in Iterator, NEW t \in Trie, Begin(i, t) \/ End(i, t)
      PROVE  Inv'
  BY <1>6, IterateKeeps DEF Begin, End
<1>7. ASSUME NEW i \in Iterator, Increment(i)
      PROVE  Inv'
  BY <1>7, IncrementKeeps
<1>8. ASSUME NEW i \in Iterator, NEW source \in Iterator,
             CopyIterator(i, source)
      PROVE  Inv'
  BY <1>8, CopyIteratorKeeps
<1>9. CASE UNCHANGED vars
  BY <1>9 DEF vars, Inv, Types, PointersOK, Exists, Owned, Follows,
              PointsIntoItsStore
<1> QED
  BY <1>1, <1>2, <1>3, <1>4, <1>5, <1>6, <1>7, <1>8, <1>9 DEF Next

(* However tries are copied, moved, assigned and destroyed (the members of *)
(* OrderedTrie that the compiler makes), a Store is freed with the last    *)
(* trie that owns it, and until then the pointers of its tries and of      *)
(* their iterators lead into it.                                           *)
THEOREM PointersNeverDangle == Spec => []PointersOK
<1>1. Inv => PointersOK
  BY DEF Inv
<1> QED
  BY <1>1, InitInv, NextInv, PTL DEF Spec

-----------------------------------------------------------------------------
(* The places where a sequence has some entries are finitely many. *)
LEMMA PlacesAreFinite ==
  ASSUME NEW E, NEW s \in Seq(E), NEW wanted
  PROVE  /\ Where(s, wanted) \in SUBSET (1 .. Len(s))
         /\ IsFiniteSet(Where(s, wanted))
         /\ Cardinality(Where(s, wanted)) \in Nat
<1>1. Where(s, wanted) \in SUBSET (1 .. Len(s)) /\ Len(s) \in Nat
  BY DEF Where
<1>2. IsFiniteSet(1 .. Len(s))
  BY <1>1, FS_Interval
<1>3. IsFiniteSet(Where(s, wanted))
  BY <1>1, <1>2, FS_Subset
<1> QED
  BY <1>1, <1>3, FS_CardinalityType

(* An enumeration of those places is a sequence of indices. *)
LEMMA PlacesAreIndices ==
  ASSUME NEW E, NEW s \in Seq(E), NEW wanted,
         NEW places \in InOrder(Where(s, wanted))
  PROVE  places \in Seq(1 .. Len(s))
<1> DEFINE n == Cardinality(Where(s, wanted))
<1>1. n \in Nat
  BY PlacesAreFinite
<1>2. Where(s, wanted) \subseteq 1 .. Len(s)
  BY DEF Where
<1>3. places \in [1 .. n -> 1 .. Len(s)]
  BY <1>2 DEF InOrder
<1> QED
  BY <1>1, <1>3

(* A longer enumeration: one more place, after all others. *)
LEMMA OneMorePlace ==
  ASSUME NEW n \in Nat, NEW W \in SUBSET (1 .. n), NEW s \in InOrder(W)
  PROVE  \E longer : longer \in InOrder(W \cup {n + 1})
<1> DEFINE c == Cardinality(W)
           more == W \cup {n + 1}
           longer == [k \in 1 .. c + 1 |-> IF k = c + 1 THEN n + 1 ELSE s[k]]
<1>1. IsFiniteSet(W)
  <2>1. IsFiniteSet(1 .. n)
    BY FS_Interval
  <2> QED
    BY <2>1, FS_Subset
<1>2. c \in Nat /\ Cardinality(more) = c + 1
  BY <1>1, FS_CardinalityType, FS_AddElement
<1>3. s \in [1 .. c -> W] /\ (\A j, k \in 1 .. c : j < k => s[j] < s[k])
  BY DEF InOrder
<1> HIDE DEF c
<1>4. longer \in [1 .. c + 1 -> more]
  BY <1>2, <1>3
<1>5. \A j, k \in 1 .. c + 1 : j < k => longer[j] < longer[k]
  <2> SUFFICES ASSUME NEW j \in 1 .. c + 1, NEW k \in 1 .. c + 1, j < k
               PROVE  longer[j] < longer[k]
    OBVIOUS
  <2>1. j \in 1 .. c
    BY <1>2
  <2>2. longer[j] = s[j] /\ s[j] \in 1 .. n
    <3>1. j # c + 1
      BY <1>2, <2>1
    <3>2. longer[j] = s[j]
      BY <3>1
    <3>3. s[j] \in W
      BY <1>3, <2>1
    <3> QED
      BY <3>2, <3>3
  <2>3. CASE k = c + 1
    BY <1>2, <2>1, <2>2, <2>3
  <2>4. CASE k # c + 1
    BY <1>2, <1>3, <2>1, <2>2, <2>4
  <2> QED
    BY <2>3, <2>4
<1>6. longer \in [1 .. Cardinality(more) -> more]
  BY <1>2, <1>4
<1>7. DOMAIN longer = 1 .. c + 1
  OBVIOUS
<1> HIDE DEF longer, more
<1>8. longer \in InOrder(more)
  BY <1>5, <1>6, <1>7 DEF InOrder
<1> QED
  BY <1>8 DEF more

(* There is an enumeration: a query is never stuck for want of one. *)
LEMMA SomeOrder ==
  ASSUME NEW n \in Nat, NEW W \in SUBSET (1 .. n)
  PROVE  InOrder(W) # {}
<1> DEFINE Bad == {m \in Nat : \E V \in SUBSET (1 .. m) : InOrder(V) = {}}
<1> SUFFICES ASSUME Bad # {} PROVE FALSE
  OBVIOUS
<1>1. PICK m \in Bad : \A k \in Bad : m <= k
  BY LeastNumber
<1>2. PICK V \in SUBSET (1 .. m) : InOrder(V) = {}
  BY <1>1
<1>3. CASE m = 0
  <2>1. V = {}
    BY <1>3
  <2>2. Cardinality(V) = 0
    BY <2>1, FS_EmptySet
  <2>3. <<>> \in InOrder(V)
    BY <2>1, <2>2 DEF InOrder
  <2> QED
    BY <2>3, <1>2
<1>4. CASE m # 0
  <2>1. m \in Nat /\ m - 1 \in Nat /\ (m - 1) + 1 = m
    BY <1>4
  <2>2. m - 1 \notin Bad
    BY <1>1, <2>1
  <2>3. V \ {m} \in SUBSET (1 .. m - 1)
    BY <2>1
  <2>4. PICK s : s \in InOrder(V \ {m})
    BY <2>1, <2>2, <2>3
  <2>5. CASE m \in V
    <3>1. (V \ {m}) \cup {m} = V
      BY <2>5
    <3> QED
      BY <2>1, <2>3, <2>4, <3>1, <1>2, OneMorePlace
  <2>6. CASE m \notin V
    <3>1. V \ {m} = V
      BY <2>6
    <3> QED
      BY <2>4, <3>1, <1>2
  <2> QED
    BY <2>5, <2>6
<1> QED
  BY <1>3, <1>4

-----------------------------------------------------------------------------
(* The leaves of iterators.  An iterator that may be used is one, and not  *)
(* what stands for none.                                                   *)
LeafIterator == [trie : Trie, store : Address, left : Seq(Nat \ {0})]

Typed ==
  /\ \A i \in Iterator : IterOK(iter[i])
  /\ \A i \in valid : iter[i] \in LeafIterator /\ LeavesStand(iter[i])

TypeInv == Inv /\ Typed

(* A trie's entries are a content. *)
LEMMA EntriesAreContent ==
  ASSUME Inv, NEW t \in Trie, Exists(t)
  PROVE  /\ Entries(handle[t]) \in Content
         /\ Entries(handle[t]) \in Seq(Entry)
<1>1. handle[t].root \in Address
  BY DEF Inv, Types, Exists, Handle
<1>2. memory[handle[t].root] \in Content \cup {Free}
  BY <1>1 DEF Inv, Types
<1> QED
  BY <1>2, EmptyIsContent, ContentIsSequences DEF Entries

LEMMA IterateTyped ==
  ASSUME TypeInv, NEW i \in Iterator, NEW t \in Trie,
         NEW leaves \in Seq(DOMAIN Entries(handle[t])), Iterate(i, t, leaves)
  PROVE  Typed'
<1> DEFINE it == [trie |-> t, store |-> handle[t].root, left |-> leaves]
<1>1. it \in LeafIterator
  <2>1. Entries(handle[t]) \in Seq(Entry)
    BY EntriesAreContent DEF Iterate, TypeInv
  <2>2. DOMAIN Entries(handle[t]) \subseteq Nat \ {0}
    BY <2>1
  <2>3. leaves \in Seq(Nat \ {0})
    BY <2>2
  <2> QED
    BY <2>3 DEF Iterate, LeafIterator, TypeInv, Inv, Types, Exists, Handle
<1>2. iter'[i] = it /\ (\A j \in Iterator \ {i} : iter'[j] = iter[j])
  BY DEF Iterate, TypeInv, Inv, Types
<1>3. valid' = valid \cup {i} /\ memory' = memory
  BY DEF Iterate
<1>4. valid \subseteq Iterator
  BY DEF TypeInv, Inv, Types
<1>5. it.store = handle[t].root /\ it.left = leaves
  OBVIOUS
<1> HIDE DEF it
<1>6. LeavesStand(iter[i])'
  BY <1>2, <1>3, <1>5 DEF LeavesStand, Entries
<1>7. \A j \in valid' \ {i} : LeavesStand(iter[j])'
  BY <1>2, <1>3, <1>4 DEF LeavesStand, Typed, TypeInv
<1>8. \A j \in Iterator : IterOK(iter'[j])
  BY <1>1, <1>2 DEF Typed, TypeInv, IterOK, LeafIterator
<1>9. \A j \in valid' : iter'[j] \in LeafIterator
  BY <1>1, <1>2, <1>3, <1>4 DEF Typed, TypeInv
<1> QED
  BY <1>6, <1>7, <1>8, <1>9 DEF Typed

LEMMA IncrementTyped ==
  ASSUME TypeInv, NEW i \in Iterator, Increment(i)
  PROVE  Typed'
<1>1. i \in valid /\ iter[i] \in LeafIterator /\ iter[i].left # <<>>
  BY DEF Increment, More, TypeInv, Typed
<1>2. /\ iter'[i] = [iter[i] EXCEPT !.left = Tail(@)]
      /\ \A j \in Iterator \ {i} : iter'[j] = iter[j]
  BY DEF Increment, TypeInv, Inv, Types
<1>3. iter[i].left \in Seq(Nat \ {0})
  BY <1>1 DEF LeafIterator
<1>4. Tail(iter[i].left) \in Seq(Nat \ {0})
  BY <1>1, <1>3
<1>5. iter'[i] \in LeafIterator
  BY <1>1, <1>2, <1>4 DEF LeafIterator
<1>6. valid' = valid /\ valid \subseteq Iterator /\ memory' = memory
  BY DEF Increment, TypeInv, Inv, Types
<1>7. LeavesStand(iter[i])'
  <2>1. /\ iter'[i].store = iter[i].store
        /\ iter'[i].left = Tail(iter[i].left)
    BY <1>1, <1>2 DEF LeafIterator
  <2>2. ASSUME memory[iter[i].store] # Free
        PROVE  Tail(iter[i].left) \in Seq(DOMAIN memory[iter[i].store])
    <3> DEFINE S == DOMAIN memory[iter[i].store]
    <3>1. iter[i].left \in Seq(S) /\ iter[i].left # <<>>
      BY <1>1, <2>2 DEF TypeInv, Typed, LeavesStand
    <3> HIDE DEF S
    <3>2. Tail(iter[i].left) \in Seq(S)
      BY <3>1
    <3> QED
      BY <3>2 DEF S
  <2> QED
    BY <1>6, <2>1, <2>2 DEF LeavesStand
<1>8. \A j \in valid' \ {i} : LeavesStand(iter[j])'
  BY <1>2, <1>6 DEF LeavesStand, Typed, TypeInv
<1>9. \A j \in Iterator : IterOK(iter'[j])
  BY <1>2, <1>5 DEF Typed, TypeInv, IterOK, LeafIterator
<1>10. \A j \in valid' : iter'[j] \in LeafIterator
  BY <1>2, <1>5, <1>6 DEF Typed, TypeInv
<1> QED
  BY <1>7, <1>8, <1>9, <1>10 DEF Typed

LEMMA CopyIteratorTyped ==
  ASSUME TypeInv, NEW i \in Iterator, NEW source \in Iterator,
         CopyIterator(i, source)
  PROVE  Typed'
<1>1. iter'[i] = iter[source] /\ (\A j \in Iterator \ {i} : iter'[j] = iter[j])
  BY DEF CopyIterator, TypeInv, Inv, Types
<1>2. /\ valid' = IF source \in valid THEN valid \cup {i} ELSE valid \ {i}
      /\ memory' = memory
  BY DEF CopyIterator
<1>3. valid \subseteq Iterator
  BY DEF TypeInv, Inv, Types
<1>4. \A j \in Iterator : IterOK(iter'[j])
  BY <1>1 DEF Typed, TypeInv
<1>5. \A j \in valid' : iter'[j] \in LeafIterator /\ LeavesStand(iter[j])'
  BY <1>1, <1>2, <1>3 DEF Typed, TypeInv, LeavesStand
<1> QED
  BY <1>4, <1>5 DEF Typed

(* What changes only tries may invalidate iterators, and makes none.  It   *)
(* leaves a Store as it is, frees it, or builds one where none is.         *)
LEMMA SameIteratorsTyped ==
  ASSUME TypeInv, iter' = iter, valid' \subseteq valid,
         \A a \in Address : \/ memory'[a] = memory[a]
                           \/ Free \in {memory[a], memory'[a]}
  PROVE  Typed'
<1>1. ASSUME NEW i \in valid'
      PROVE  iter'[i] \in LeafIterator /\ LeavesStand(iter[i])'
  <2>1. i \in valid /\ iter[i] \in LeafIterator /\ iter'[i] = iter[i]
    BY <1>1 DEF TypeInv, Typed
  <2>2. iter[i].store \in Address /\ iter[i].trie \in Trie
    BY <2>1 DEF LeafIterator
  <2>3. Exists(iter[i].trie) /\ handle[iter[i].trie].store = iter[i].store
    BY <2>1 DEF TypeInv, Inv, PointersOK, Follows
  <2>4. memory[iter[i].store] # Free
    BY <2>2, <2>3 DEF TypeInv, Inv, PointersOK, Owned, Exists
  <2> QED
    BY <2>1, <2>2, <2>4 DEF TypeInv, Typed, LeavesStand
<1>2. \A i \in Iterator : IterOK(iter'[i])
  BY DEF TypeInv, Typed
<1> QED
  BY <1>1, <1>2 DEF Typed

LEMMA OpenIsElsewhere ==
  ASSUME TypeInv, NEW t \in Trie, NEW entries, Open(t, entries)
  PROVE  \A a \in Address : \/ memory'[a] = memory[a]
                           \/ Free \in {memory[a], memory'[a]}
BY DEF Open, TypeInv, Inv, Types

LEMMA SetOnlyFrees ==
  ASSUME NEW handles, SetHandles(handles)
  PROVE  \A a \in Address : \/ memory'[a] = memory[a]
                           \/ Free \in {memory[a], memory'[a]}
BY DEF SetHandles

LEMMA NextTyped == TypeInv /\ [Next]_vars => Typed'
<1> SUFFICES ASSUME TypeInv, [Next]_vars PROVE Typed'
  OBVIOUS
<1>1. ASSUME NEW t \in Trie, NEW entries \in Content, Construct(t, entries)
      PROVE  Typed'
  BY <1>1, SameIteratorsTyped, OpenIsElsewhere DEF Construct
<1>2. ASSUME NEW t \in Trie,
             \/ DefaultConstruct(t)
             \/ Destroy(t)
      PROVE  Typed'
  BY <1>2, SameIteratorsTyped, OpenIsElsewhere, SetOnlyFrees
  DEF DefaultConstruct, Destroy, Invalidate
<1>3. ASSUME NEW t \in Trie, NEW source \in Trie,
             \/ Copy(t, source)
             \/ Move(t, source)
             \/ CopyAssign(t, source)
             \/ MoveAssign(t, source)
      PROVE  Typed'
  BY <1>3, SameIteratorsTyped, SetOnlyFrees
  DEF Copy, Move, CopyAssign, MoveAssign, Invalidate
<1>4. ASSUME NEW i \in Iterator, NEW t \in Trie, Begin(i, t)
      PROVE  Typed'
  <2>1. Exists(t)
    BY <1>4 DEF Begin
  <2>2. Entries(handle[t]) \in Seq(Entry)
    BY <2>1, EntriesAreContent DEF TypeInv
  <2>3. Leaves(t) \in Seq(DOMAIN Entries(handle[t]))
    BY <2>2 DEF Leaves
  <2> QED
    BY <1>4, <2>3, IterateTyped DEF Begin
<1>5. ASSUME NEW i \in Iterator, NEW t \in Trie, End(i, t)
      PROVE  Typed'
  <2>1. <<>> \in Seq(DOMAIN Entries(handle[t]))
    OBVIOUS
  <2> QED
    BY <1>5, <2>1, IterateTyped DEF End
<1>6. ASSUME NEW i \in Iterator, NEW t \in Trie, NEW wanted \in Subtrie,
             Complete(i, t, wanted)
      PROVE  Typed'
  <2>1. Exists(t)
    BY <1>6 DEF Complete
  <2>2. Entries(handle[t]) \in Seq(Entry)
    BY <2>1, EntriesAreContent DEF TypeInv
  <2>3. PICK leaves \in InOrder(Where(Entries(handle[t]), wanted)) :
          Iterate(i, t, leaves)
    BY <1>6 DEF Complete
  <2>4. leaves \in Seq(1 .. Len(Entries(handle[t])))
    BY <2>2, PlacesAreIndices
  <2>5. leaves \in Seq(DOMAIN Entries(handle[t]))
    BY <2>2, <2>4
  <2> QED
    BY <2>3, <2>5, IterateTyped
<1>7. ASSUME NEW i \in Iterator,
             \/ Increment(i)
             \/ \E source \in Iterator : CopyIterator(i, source)
      PROVE  Typed'
  BY <1>7, IncrementTyped, CopyIteratorTyped
<1>8. CASE UNCHANGED vars
  BY <1>8, SameIteratorsTyped DEF vars
<1> QED
  BY <1>1, <1>2, <1>3, <1>4, <1>5, <1>6, <1>7, <1>8 DEF Next

LEMMA InitTypeInv == Init => TypeInv
BY InitInv DEF Init, TypeInv, Typed, IterOK

(* Every operation keeps the types. *)
LEMMA NextTypeInv == TypeInv /\ [Next]_vars => TypeInv'
BY NextInv, NextTyped DEF TypeInv

(* Memory, handles and iterators keep their types: the leaves that are     *)
(* left to an iterator that may be used are in the Store it walks,         *)
(* whichever query it is from and whatever became of other tries.          *)
THEOREM HandlesTypeCorrect == Spec => []TypeOK
<1>1. TypeInv => TypeOK
  BY DEF TypeInv, Inv, Types, Typed, TypeOK
<1> QED
  BY <1>1, InitTypeInv, NextTypeInv, PTL DEF Spec

(* A query is always answered: a trie that has a value has an iterator for *)
(* what any query wants.                                                   *)
THEOREM QueriesAreAnswered ==
  ASSUME TypeInv, NEW t \in Trie, Exists(t), NEW wanted
  PROVE  InOrder(Where(Entries(handle[t]), wanted)) # {}
<1>1. Entries(handle[t]) \in Seq(Entry)
  BY EntriesAreContent DEF TypeInv
<1>2. /\ Len(Entries(handle[t])) \in Nat
      /\ Where(Entries(handle[t]), wanted) \in
            SUBSET (1 .. Len(Entries(handle[t])))
  BY <1>1, PlacesAreFinite
<1> QED
  BY <1>2, SomeOrder

-----------------------------------------------------------------------------
(***************************************************************************)
(* The handles implement values (TrieValues), for any number of tries and  *)
(* iterators, any contents and any reuse of addresses.                     *)
(***************************************************************************)

(* The state that the abstract specification sees. *)
Value == [t \in Trie |-> ValueOf(t)]
Cursor == [i \in Iterator |-> CursorOf(i)]

(* While no pointer dangles, a trie has the value that is in the Store it  *)
(* owns, and nothing else of it matters ...                                *)
Held(stores, h) ==
  IF h = Gone THEN Gone
  ELSE IF h.store = Null THEN Unspecified
  ELSE stores[h.store]

(* ... and an iterator reads the entries of the Store it points to. *)
Enumerated(entries, leaves) ==
  [n \in 1 .. Len(leaves) |->
     IF leaves[n] \in DOMAIN entries THEN entries[leaves[n]] ELSE Broken]

CursorAt(stores, it) ==
  [owner |-> it.trie, left |-> Enumerated(stores[it.store], it.left)]

-----------------------------------------------------------------------------
(* What an operation may rely on: the Store of a trie that has a value. *)
LEMMA StoreOfTrie ==
  ASSUME TypeInv, NEW t \in Trie, Exists(t), handle[t].store # Null
  PROVE  /\ handle[t].store \in Address
         /\ handle[t].root = handle[t].store
         /\ memory[handle[t].store] \in Content
         /\ memory[handle[t].store] \in Seq(Entry)
         /\ handle[t].table = IF memory[handle[t].store] = <<>> THEN Null
                              ELSE handle[t].store
         /\ Entries(handle[t]) = memory[handle[t].store]
         /\ memory[handle[t].store] # Free
<1>1. handle[t] \in Handle /\ handle[t] # Gone
  BY DEF TypeInv, Inv, Types, Exists
<1>2. handle[t].store \in Address
  BY <1>1 DEF Handle
<1>3. PointsIntoItsStore(handle[t])
  BY DEF TypeInv, Inv, PointersOK
<1>4. memory[handle[t].store] # Free
  BY <1>1, <1>2 DEF TypeInv, Inv, PointersOK, Owned
<1>5. memory[handle[t].store] \in Content
  BY <1>2, <1>4 DEF TypeInv, Inv, Types
<1> QED
  BY <1>2, <1>3, <1>4, <1>5, ContentIsSequences
  DEF PointsIntoItsStore, Entries

(* A leaf that is read through the pointers of a trie is the entry of its  *)
(* Store, also when the trie has no scores and no pointer to them.         *)
LEMMA LeafIsEntry ==
  ASSUME TypeInv, NEW t \in Trie, Exists(t), handle[t].store # Null, NEW leaf
  PROVE  Dereference(handle[t], handle[t].root, leaf) =
           IF leaf \in DOMAIN memory[handle[t].store]
           THEN memory[handle[t].store][leaf] ELSE Broken
<1>1. CASE memory[handle[t].store] = <<>>
  <2>1. DOMAIN memory[handle[t].store] = {}
    BY <1>1
  <2> QED
    BY <2>1, StoreOfTrie DEF Dereference
<1>2. CASE memory[handle[t].store] # <<>>
  BY <1>2, StoreOfTrie DEF Dereference, Exists
<1> QED
  BY <1>1, <1>2

(* The value of a trie is read from the Store it owns. *)
LEMMA ValueIsHeld ==
  ASSUME TypeInv, NEW t \in Trie
  PROVE  ValueOf(t) = Held(memory, handle[t])
<1>1. CASE ~ Exists(t) \/ handle[t].store = Null
  BY <1>1 DEF ValueOf, Held, Exists
<1>2. CASE Exists(t) /\ handle[t].store # Null
  <2> DEFINE entries == memory[handle[t].store]
  <2>1. /\ entries \in Seq(Entry)
        /\ Entries(handle[t]) = entries
        /\ memory[handle[t].root] # Free
    BY <1>2, StoreOfTrie
  <2>2. ValueOf(t) = ReadThrough(handle[t], handle[t].root,
                                 [n \in 1 .. Len(entries) |-> n])
    BY <1>2, <2>1 DEF ValueOf
  <2>3. ReadThrough(handle[t], handle[t].root, [n \in 1 .. Len(entries) |-> n])
          = [n \in 1 .. Len(entries) |->
               Dereference(handle[t], handle[t].root, n)]
    BY <2>1 DEF ReadThrough
  <2>4. \A n \in 1 .. Len(entries) :
          Dereference(handle[t], handle[t].root, n) = entries[n]
    BY <1>2, <2>1, LeafIsEntry
  <2>5. entries = [n \in 1 .. Len(entries) |-> entries[n]]
    BY <2>1
  <2> HIDE DEF entries
  <2>6. ValueOf(t) = entries
    BY <2>2, <2>3, <2>4, <2>5
  <2> QED
    BY <1>2, <2>6 DEF Held, Exists, entries
<1> QED
  BY <1>1, <1>2

(* What a trie holds tells whether it exists and has a value. *)
LEMMA ValueTells ==
  ASSUME TypeInv, NEW t \in Trie
  PROVE  /\ ValueOf(t) = Gone <=> ~ Exists(t)
         /\ ValueOf(t) = Unspecified <=> Exists(t) /\ handle[t].store = Null
<1>1. CASE ~ Exists(t) \/ handle[t].store = Null
  BY <1>1, ValuesDiffer DEF ValueOf, Exists
<1>2. CASE Exists(t) /\ handle[t].store # Null
  <2>1. ValueOf(t) \in Content
    BY <1>2, ValueIsHeld, StoreOfTrie DEF Held, Exists
  <2> QED
    BY <1>2, <2>1, ValuesDiffer
<1> QED
  BY <1>1, <1>2

(* What an iterator enumerates is read from the Store it points to. *)
LEMMA CursorIsAt ==
  ASSUME TypeInv, NEW i \in valid
  PROVE  CursorOf(i) = CursorAt(memory, iter[i])
<1> DEFINE t == iter[i].trie
<1>1. t \in Trie /\ iter[i].left \in Seq(Nat \ {0}) /\ iter[i].store \in Address
  BY DEF TypeInv, Typed, LeafIterator
<1>2. Exists(t) /\ handle[t].store = iter[i].store
  BY DEF TypeInv, Inv, PointersOK, Follows
<1>3. handle[t].store # Null /\ handle[t].root = iter[i].store
  BY <1>1, <1>2, NullIsNoAddress, StoreOfTrie
<1>4. \A leaf : Dereference(handle[t], iter[i].store, leaf) =
                  IF leaf \in DOMAIN memory[iter[i].store]
                  THEN memory[iter[i].store][leaf] ELSE Broken
  BY <1>1, <1>2, <1>3, LeafIsEntry
<1>5. ReadThrough(handle[t], iter[i].store, iter[i].left) =
        Enumerated(memory[iter[i].store], iter[i].left)
  BY <1>4 DEF ReadThrough, Enumerated
<1> QED
  BY <1>5 DEF CursorOf, CursorAt

(* An iterator that may be used is one for the user too. *)
LEMMA CursorTells ==
  ASSUME TypeInv, NEW i \in Iterator
  PROVE  /\ CursorOf(i) # NoIterator <=> i \in valid
         /\ i \in valid => CursorOf(i).owner = iter[i].trie
<1>1. CASE i \notin valid
  BY <1>1 DEF CursorOf
<1>2. CASE i \in valid
  <2> DEFINE it == iter[i]
             left == Enumerated(memory[it.store], it.left)
  <2>1. it.trie \in Trie /\ it.left \in Seq(Nat \ {0}) /\ it.store \in Address
    BY <1>2 DEF TypeInv, Typed, LeafIterator
  <2>2. Exists(it.trie) /\ handle[it.trie].store = it.store
    BY <1>2 DEF TypeInv, Inv, PointersOK, Follows
  <2>3. memory[it.store] \in Seq(Entry)
    BY <2>1, <2>2, NullIsNoAddress, StoreOfTrie
  <2>4. \A leaf \in DOMAIN memory[it.store] : memory[it.store][leaf] \in Entry
    BY <2>3
  <2>5. Len(it.left) \in Nat
    BY <2>1
  <2>6. left \in [1 .. Len(it.left) -> Entry \cup {Broken}]
    BY <2>4 DEF Enumerated
  <2>7. left \in Seq(Entry \cup {Broken})
    BY <2>5, <2>6
  <2>8. CursorOf(i) = [owner |-> it.trie, left |-> left]
    BY <1>2, CursorIsAt DEF CursorAt
  <2> HIDE DEF left
  <2> QED
    BY <1>2, <2>1, <2>7, <2>8, NoIteratorIsNoCursor
<1> QED
  BY <1>1, <1>2

-----------------------------------------------------------------------------
(* The same facts of the state after a step. *)
Readable ==
  /\ \A t \in Trie : ValueOf(t) = Held(memory, handle[t])
  /\ \A i \in valid : CursorOf(i) = CursorAt(memory, iter[i])

LEMMA TypedIsReadable == TypeInv => Readable
BY ValueIsHeld, CursorIsAt DEF Readable

LEMMA ReadableAfter == TypeInv' => Readable'
BY TypedIsReadable, PTL

(* The invalidation of iterators is the same for the user. *)
LEMMA InvalidateRefines ==
  ASSUME TypeInv, TypeInv', NEW ts,
         Invalidate(ts), iter' = iter,
         \A i \in valid' : memory'[iter[i].store] = memory[iter[i].store]
  PROVE  Values!Invalidate(ts)
<1>1. \A i \in Iterator : i \in valid' <=> i \in valid /\ iter[i].trie \notin ts
  BY DEF Invalidate
<1>2. \A i \in Iterator :
        CursorOf(i)' = IF i \in valid /\ iter[i].trie \in ts THEN NoIterator
                       ELSE CursorOf(i)
  <2> SUFFICES ASSUME NEW i \in Iterator
               PROVE  CursorOf(i)' = IF i \in valid /\ iter[i].trie \in ts
                                     THEN NoIterator ELSE CursorOf(i)
    OBVIOUS
  <2>1. CASE i \notin valid'
    BY <2>1, <1>1 DEF CursorOf
  <2>2. CASE i \in valid'
    <3>1. CursorOf(i)' = CursorAt(memory, iter[i])'
      BY <2>2, ReadableAfter DEF Readable
    <3>2. CursorAt(memory, iter[i])' = CursorAt(memory, iter[i])
      BY <2>2 DEF CursorAt
    <3> QED
      BY <2>2, <3>1, <3>2, <1>1, CursorIsAt
  <2> QED
    BY <2>1, <2>2
<1>3. \A i \in Iterator :
        (\E t \in ts : i \in Values!CursorsOn(t))
          <=> i \in valid /\ iter[i].trie \in ts
  BY CursorTells DEF Values!CursorsOn
<1> QED
  BY <1>2, <1>3 DEF Values!Invalidate

(* What hs puts in place of the tries is what they hold then; an iterator  *)
(* that stays valid points to a Store that nothing became of.              *)
LEMMA SetRefines ==
  ASSUME TypeInv, TypeInv', NEW ts,
         NEW hs \in [Trie -> Handle \cup {Gone}],
         SetHandles(hs), Invalidate(ts), iter' = iter
  PROVE  /\ \A t \in Trie : ValueOf(t)' = Held(memory, hs[t])
         /\ Values!Invalidate(ts)
<1>1. handle' = hs
  BY DEF SetHandles
<1>2. \A a \in Address : Owned(hs, a) => memory'[a] = memory[a]
  BY DEF SetHandles
<1>3. \A t \in Trie : hs[t] # Gone /\ hs[t].store # Null =>
                       memory'[hs[t].store] = memory[hs[t].store]
  BY <1>2 DEF Owned, Handle
<1>4. \A t \in Trie : ValueOf(t)' = Held(memory', hs[t])
  BY <1>1, ReadableAfter DEF Readable
<1>5. \A t \in Trie : ValueOf(t)' = Held(memory, hs[t])
  BY <1>3, <1>4 DEF Held
<1>6. ASSUME NEW i \in valid'
      PROVE  memory'[iter[i].store] = memory[iter[i].store]
  <2>1. /\ iter[i].trie \in Trie
        /\ iter[i].store \in Address
        /\ hs[iter[i].trie] # Gone
        /\ hs[iter[i].trie].store = iter[i].store
    BY <1>1
    DEF TypeInv, Typed, LeafIterator, Inv, PointersOK, Follows, Exists
  <2> QED
    BY <2>1, <1>2 DEF Owned
<1> QED
  BY <1>5, <1>6, InvalidateRefines

LEMMA HeldHandle ==
  ASSUME TypeInv, NEW t \in Trie
  PROVE  /\ Held(memory, handle[t]) = ValueOf(t)
         /\ Exists(t) => handle[t] \in Handle
BY ValueIsHeld DEF TypeInv, Inv, Types, Exists

LEMMA MovedHasNoValue ==
  ASSUME NEW h \in Handle
  PROVE  Moved(h) \in Handle /\ Held(memory, Moved(h)) = Unspecified
<1>1. Moved(h) \in Handle /\ Moved(h).store = Null
  BY DEF Moved, Handle
<1> QED
  BY <1>1, GoneIsNoHandle DEF Held

(* When no iterator is invalidated, none changes for the user. *)
LEMMA NoneInvalidated ==
  ASSUME Values!Invalidate({})
  PROVE  Cursor' = Cursor
BY DEF Values!Invalidate, Cursor

LEMMA CopyRefines ==
  ASSUME TypeInv, TypeInv', NEW t \in Trie, NEW source \in Trie,
         Copy(t, source)
  PROVE  Values!Copy(t, source)
<1> DEFINE hs == [handle EXCEPT ![t] = handle[source]]
<1>1. hs \in [Trie -> Handle \cup {Gone}]
  BY DEF TypeInv, Inv, Types
<1>2. hs[t] = handle[source] /\ (\A s \in Trie \ {t} : hs[s] = handle[s])
  BY DEF TypeInv, Inv, Types
<1>3. SetHandles(hs) /\ Invalidate({}) /\ iter' = iter
  BY DEF Copy, Invalidate, TypeInv, Inv, Types
<1> HIDE DEF hs
<1>4. /\ \A s \in Trie : ValueOf(s)' = Held(memory, hs[s])
      /\ Values!Invalidate({})
  BY <1>1, <1>3, SetRefines
<1>5. Cursor' = Cursor
  BY <1>4, NoneInvalidated
<1>6. \A s \in Trie : ValueOf(s)' = IF s = t THEN ValueOf(source) ELSE ValueOf(s)
  BY <1>2, <1>4, HeldHandle
<1>7. ValueOf(t) = Gone /\ ValueOf(source) # Gone
  BY ValueTells DEF Copy
<1> QED
  BY <1>5, <1>6, <1>7 DEF Values!Copy, Cursor

LEMMA MoveRefines ==
  ASSUME TypeInv, TypeInv', NEW t \in Trie, NEW source \in Trie,
         Move(t, source)
  PROVE  Values!Move(t, source)
<1> DEFINE hs == [handle EXCEPT ![t] = handle[source], ![source] = Moved(@)]
<1>1. t # source /\ handle[source] \in Handle
  BY DEF Move, Exists, TypeInv, Inv, Types
<1>2. Moved(handle[source]) \in Handle
      /\ Held(memory, Moved(handle[source])) = Unspecified
  BY <1>1, MovedHasNoValue
<1>3. hs \in [Trie -> Handle \cup {Gone}]
  BY <1>1, <1>2 DEF TypeInv, Inv, Types
<1>4. /\ hs[t] = handle[source]
      /\ hs[source] = Moved(handle[source])
      /\ \A s \in Trie \ {t, source} : hs[s] = handle[s]
  BY <1>1 DEF TypeInv, Inv, Types
<1>5. SetHandles(hs) /\ Invalidate({source}) /\ iter' = iter
  BY DEF Move
<1> HIDE DEF hs
<1>6. /\ \A s \in Trie : ValueOf(s)' = Held(memory, hs[s])
      /\ Values!Invalidate({source})
  BY <1>3, <1>5, SetRefines
<1>7. \A s \in Trie : ValueOf(s)' = IF s = t THEN ValueOf(source)
                                    ELSE IF s = source THEN Unspecified
                                    ELSE ValueOf(s)
  BY <1>1, <1>2, <1>4, <1>6, HeldHandle
<1>8. ValueOf(t) = Gone /\ ValueOf(source) # Gone
  BY ValueTells DEF Move
<1> QED
  BY <1>1, <1>6, <1>7, <1>8 DEF Values!Move

(* A trie assigned to itself changes nothing that the user can see. *)
LEMMA SelfAssignmentStutters ==
  ASSUME TypeInv, TypeInv', SetHandles(handle), Invalidate({}), iter' = iter
  PROVE  Value' = Value /\ Cursor' = Cursor
<1>1. handle \in [Trie -> Handle \cup {Gone}]
  BY DEF TypeInv, Inv, Types
<1>2. /\ \A s \in Trie : ValueOf(s)' = Held(memory, handle[s])
      /\ Values!Invalidate({})
  BY <1>1, SetRefines
<1>3. \A s \in Trie : ValueOf(s)' = ValueOf(s)
  BY <1>2, HeldHandle
<1> QED
  BY <1>2, <1>3, NoneInvalidated DEF Value

LEMMA CopyAssignRefines ==
  ASSUME TypeInv, TypeInv', NEW t \in Trie, NEW source \in Trie,
         CopyAssign(t, source)
  PROVE  \/ Values!CopyAssign(t, source)
         \/ Value' = Value /\ Cursor' = Cursor
<1> DEFINE hs == [handle EXCEPT ![t] = handle[source]]
<1>1. hs \in [Trie -> Handle \cup {Gone}]
  BY DEF TypeInv, Inv, Types
<1>2. hs[t] = handle[source] /\ (\A s \in Trie \ {t} : hs[s] = handle[s])
  BY DEF TypeInv, Inv, Types
<1>3. SetHandles(hs) /\ Invalidate({t} \ {source}) /\ iter' = iter
  BY DEF CopyAssign
<1>4. CASE t = source
  <2>1. hs = handle
    BY <1>4 DEF TypeInv, Inv, Types
  <2>2. {t} \ {source} = {}
    BY <1>4
  <2> QED
    BY <2>1, <2>2, <1>3, SelfAssignmentStutters
<1>5. CASE t # source
  <2>1. {t} \ {source} = {t}
    BY <1>5
  <2> HIDE DEF hs
  <2>2. /\ \A s \in Trie : ValueOf(s)' = Held(memory, hs[s])
        /\ Values!Invalidate({t})
    BY <1>1, <1>3, <2>1, SetRefines
  <2>3. \A s \in Trie : ValueOf(s)' = IF s = t THEN ValueOf(source)
                                      ELSE ValueOf(s)
    BY <1>2, <2>2, HeldHandle
  <2>4. ValueOf(t) # Gone /\ ValueOf(source) # Gone
    BY ValueTells DEF CopyAssign
  <2> QED
    BY <1>5, <2>2, <2>3, <2>4 DEF Values!CopyAssign
<1> QED
  BY <1>4, <1>5

LEMMA MoveAssignRefines ==
  ASSUME TypeInv, TypeInv', NEW t \in Trie, NEW source \in Trie,
         MoveAssign(t, source)
  PROVE  \/ Values!MoveAssign(t, source)
         \/ Value' = Value /\ Cursor' = Cursor
<1>1. CASE t = source
  <2>1. SetHandles(handle) /\ Invalidate({}) /\ iter' = iter
    BY <1>1 DEF MoveAssign, Invalidate, TypeInv, Inv, Types
  <2> QED
    BY <2>1, SelfAssignmentStutters
<1>2. CASE t # source
  <2> DEFINE hs == [handle EXCEPT ![t] = handle[source], ![source] = Moved(@)]
  <2>1. handle[source] \in Handle
    BY DEF MoveAssign, Exists, TypeInv, Inv, Types
  <2>2. Moved(handle[source]) \in Handle
        /\ Held(memory, Moved(handle[source])) = Unspecified
    BY <2>1, MovedHasNoValue
  <2>3. hs \in [Trie -> Handle \cup {Gone}]
    BY <2>1, <2>2 DEF TypeInv, Inv, Types
  <2>4. /\ hs[t] = handle[source]
        /\ hs[source] = Moved(handle[source])
        /\ \A s \in Trie \ {t, source} : hs[s] = handle[s]
    BY <1>2 DEF TypeInv, Inv, Types
  <2>5. SetHandles(hs) /\ Invalidate({t, source}) /\ iter' = iter
    BY <1>2 DEF MoveAssign
  <2> HIDE DEF hs
  <2>6. /\ \A s \in Trie : ValueOf(s)' = Held(memory, hs[s])
        /\ Values!Invalidate({t, source})
    BY <2>3, <2>5, SetRefines
  <2>7. \A s \in Trie : ValueOf(s)' = IF s = t THEN ValueOf(source)
                                      ELSE IF s = source THEN Unspecified
                                      ELSE ValueOf(s)
    BY <1>2, <2>2, <2>4, <2>6, HeldHandle
  <2>8. ValueOf(t) # Gone /\ ValueOf(source) # Gone
    BY ValueTells DEF MoveAssign
  <2> QED
    BY <1>2, <2>6, <2>7, <2>8 DEF Values!MoveAssign
<1> QED
  BY <1>1, <1>2

LEMMA DestroyRefines ==
  ASSUME TypeInv, TypeInv', NEW t \in Trie, Destroy(t)
  PROVE  Values!Destroy(t)
<1> DEFINE hs == [handle EXCEPT ![t] = Gone]
<1>1. hs \in [Trie -> Handle \cup {Gone}]
  BY DEF TypeInv, Inv, Types
<1>2. hs[t] = Gone /\ (\A s \in Trie \ {t} : hs[s] = handle[s])
  BY DEF TypeInv, Inv, Types
<1>3. SetHandles(hs) /\ Invalidate({t}) /\ iter' = iter
  BY DEF Destroy
<1> HIDE DEF hs
<1>4. /\ \A s \in Trie : ValueOf(s)' = Held(memory, hs[s])
      /\ Values!Invalidate({t})
  BY <1>1, <1>3, SetRefines
<1>5. \A s \in Trie : ValueOf(s)' = IF s = t THEN Gone ELSE ValueOf(s)
  BY <1>2, <1>4, HeldHandle DEF Held
<1>6. ValueOf(t) # Gone
  BY ValueTells DEF Destroy
<1> QED
  BY <1>4, <1>5, <1>6 DEF Values!Destroy

(* A trie in a new Store: the Store was nobody's before. *)
LEMMA OpenRefines ==
  ASSUME TypeInv, TypeInv', NEW t \in Trie, NEW entries \in Content,
         ~ Exists(t), Open(t, entries), UNCHANGED <<iter, valid>>
  PROVE  Values!Construct(t, entries)
<1>1. PICK a \in Address :
        /\ memory[a] = Free
        /\ memory' = [memory EXCEPT ![a] = entries]
        /\ handle' = [handle EXCEPT ![t] =
                        [root |-> a,
                         table |-> IF entries = <<>> THEN Null ELSE a,
                         store |-> a]]
  BY DEF Open
<1>2. ~ Owned(handle, a)
  BY <1>1 DEF TypeInv, Inv, PointersOK
<1>3. \A s \in Trie \ {t} : handle'[s] = handle[s] /\ handle'[s] \in Handle \cup {Gone}
  BY <1>1 DEF TypeInv, Inv, Types
<1>4. handle'[t] = [root |-> a, table |-> IF entries = <<>> THEN Null ELSE a,
                    store |-> a]
  BY <1>1 DEF TypeInv, Inv, Types
<1>5. handle'[t] \in Handle /\ handle'[t] # Gone /\ handle'[t].store = a
  BY <1>4, GoneIsNoHandle DEF Handle
<1>6. memory'[a] = entries /\ (\A b \in Address \ {a} : memory'[b] = memory[b])
  BY <1>1 DEF TypeInv, Inv, Types
<1>7. ValueOf(t)' = entries
  <2>1. ValueOf(t)' = Held(memory', handle'[t])
    BY ReadableAfter DEF Readable
  <2> QED
    BY <2>1, <1>5, <1>6, NullIsNoAddress DEF Held
<1>8. \A s \in Trie \ {t} : ValueOf(s)' = ValueOf(s)
  <2> SUFFICES ASSUME NEW s \in Trie \ {t}
               PROVE  ValueOf(s)' = ValueOf(s)
    OBVIOUS
  <2>1. ValueOf(s)' = Held(memory', handle[s])
    BY <1>3, ReadableAfter DEF Readable
  <2>2. handle[s] # Gone /\ handle[s].store # Null =>
          handle[s].store \in Address \ {a}
    BY <1>2, <1>3 DEF Owned, Handle
  <2> QED
    BY <2>1, <2>2, <1>6, HeldHandle DEF Held
<1>9. \A i \in Iterator : CursorOf(i)' = CursorOf(i)
  <2> SUFFICES ASSUME NEW i \in Iterator
               PROVE  CursorOf(i)' = CursorOf(i)
    OBVIOUS
  <2>1. CASE i \notin valid
    BY <2>1 DEF CursorOf
  <2>2. CASE i \in valid
    <3>1. iter[i].trie \in Trie /\ iter[i].store \in Address
      BY <2>2 DEF TypeInv, Typed, LeafIterator
    <3>2. Owned(handle, iter[i].store)
      BY <2>2, <3>1 DEF TypeInv, Inv, PointersOK, Follows, Exists, Owned
    <3>3. memory'[iter[i].store] = memory[iter[i].store]
      BY <3>1, <3>2, <1>2, <1>6
    <3>4. CursorOf(i)' = CursorAt(memory', iter[i])
      BY <2>2, ReadableAfter DEF Readable
    <3> QED
      BY <2>2, <3>3, <3>4, CursorIsAt DEF CursorAt
  <2> QED
    BY <2>1, <2>2
<1>10. ValueOf(t) = Gone
  BY ValueTells
<1>11. \A s \in Trie : ValueOf(s)' = IF s = t THEN entries ELSE ValueOf(s)
  BY <1>7, <1>8
<1> QED
  BY <1>9, <1>10, <1>11 DEF Values!Construct

-----------------------------------------------------------------------------
(* Whatever a new iterator reads, it reads in the Store of its trie. *)
LEMMA IterateRefines ==
  ASSUME TypeInv, TypeInv', NEW i \in Iterator, NEW t \in Trie, NEW leaves,
         Iterate(i, t, leaves)
  PROVE  Values!Iterate(i, t,
           ReadThrough(handle[t], handle[t].root, leaves))
<1>1. Exists(t) /\ handle[t].store # Null
  BY DEF Iterate
<1>2. ValueOf(t) \notin {Gone, Unspecified}
  BY <1>1, ValueTells
<1>3. /\ memory' = memory /\ handle' = handle
      /\ valid' = valid \cup {i}
      /\ iter'[i] = [trie |-> t, store |-> handle[t].root, left |-> leaves]
      /\ \A j \in Iterator \ {i} : iter'[j] = iter[j]
  BY DEF Iterate, TypeInv, Inv, Types
<1>4. CursorOf(i)' = [owner |-> t,
                      left |-> ReadThrough(handle[t], handle[t].root, leaves)]
  BY <1>3 DEF CursorOf, ReadThrough, Dereference
<1>5. \A j \in Iterator \ {i} : CursorOf(j)' = CursorOf(j)
  BY <1>3 DEF CursorOf, ReadThrough, Dereference
<1>6. \A s \in Trie : ValueOf(s)' = ValueOf(s)
  BY <1>3, HeldHandle, ReadableAfter DEF Readable
<1> QED
  BY <1>2, <1>4, <1>5, <1>6 DEF Values!Iterate

LEMMA BeginRefines ==
  ASSUME TypeInv, TypeInv', NEW i \in Iterator, NEW t \in Trie, Begin(i, t)
  PROVE  Values!Begin(i, t)
<1>1. Exists(t) /\ handle[t].store # Null /\ Iterate(i, t, Leaves(t))
  BY DEF Begin, Iterate
<1>2. memory[handle[t].root] # Free
  BY <1>1, StoreOfTrie
<1>3. ValueOf(t) = ReadThrough(handle[t], handle[t].root, Leaves(t))
  BY <1>1, <1>2 DEF ValueOf, Leaves
<1> QED
  BY <1>1, <1>3, IterateRefines DEF Values!Begin

LEMMA EndRefines ==
  ASSUME TypeInv, TypeInv', NEW i \in Iterator, NEW t \in Trie, End(i, t)
  PROVE  Values!End(i, t)
<1>1. ReadThrough(handle[t], handle[t].root, <<>>) = <<>>
  BY DEF ReadThrough
<1> QED
  BY <1>1, IterateRefines DEF End, Values!End

(* The two specifications take the same order. *)
LEMMA SameOrder ==
  ASSUME NEW places
  PROVE  Values!InOrder(places) = InOrder(places)
BY DEF Values!InOrder, InOrder, Values!Cardinality, Cardinality

LEMMA CompleteRefines ==
  ASSUME TypeInv, TypeInv', NEW i \in Iterator, NEW t \in Trie,
         NEW wanted \in Subtrie, Complete(i, t, wanted)
  PROVE  Values!Complete(i, t, wanted)
<1>1. PICK leaves \in InOrder(Where(Entries(handle[t]), wanted)) :
        Iterate(i, t, leaves)
  BY DEF Complete
<1>2. Exists(t) /\ handle[t].store # Null
  BY <1>1 DEF Iterate
<1> DEFINE entries == Entries(handle[t])
<1>3. /\ entries \in Seq(Entry)
      /\ entries = memory[handle[t].store]
  BY <1>2, StoreOfTrie
<1>4. ValueOf(t) = entries
  BY <1>2, <1>3, ValueIsHeld DEF Held, Exists
<1> HIDE DEF entries
<1>5. leaves \in InOrder(Where(ValueOf(t), wanted))
  BY <1>1, <1>4 DEF entries
<1>6. leaves \in Seq(1 .. Len(entries))
  BY <1>1, <1>3, PlacesAreIndices DEF entries
<1>7. ReadThrough(handle[t], handle[t].root, leaves) =
        [n \in DOMAIN leaves |-> ValueOf(t)[leaves[n]]]
  <2>1. DOMAIN leaves = 1 .. Len(leaves)
    BY <1>6
  <2>2. \A n \in DOMAIN leaves : leaves[n] \in DOMAIN entries
    BY <1>3, <1>6
  <2>3. \A n \in DOMAIN leaves :
          Dereference(handle[t], handle[t].root, leaves[n]) = entries[leaves[n]]
    BY <1>2, <1>3, <2>2, LeafIsEntry
  <2> QED
    BY <1>4, <2>1, <2>3 DEF ReadThrough
<1>8. Values!Iterate(i, t, [n \in DOMAIN leaves |-> ValueOf(t)[leaves[n]]])
  BY <1>1, <1>7, IterateRefines
<1>9. ValueOf(t) \notin {Gone, Unspecified}
  BY <1>2, ValueTells
<1>10. leaves \in Values!InOrder(Values!Where(ValueOf(t), wanted))
  BY <1>5, SameOrder DEF Values!Where, Where
<1>11. [s \in Trie |-> ValueOf(s)][t] = ValueOf(t)
  OBVIOUS
<1> QED
  BY <1>8, <1>9, <1>10, <1>11 DEF Values!Complete

(* The entries that are left of an iterator are as many as its leaves. *)
LEMMA CursorLeft ==
  ASSUME TypeInv, NEW i \in valid
  PROVE  /\ iter[i].left \in Seq(Nat \ {0})
         /\ CursorOf(i).left = Enumerated(memory[iter[i].store], iter[i].left)
         /\ Len(CursorOf(i).left) = Len(iter[i].left)
         /\ CursorOf(i).left # <<>> <=> More(i)
<1>1. iter[i].left \in Seq(Nat \ {0})
  BY DEF TypeInv, Typed, LeafIterator
<1>2. CursorOf(i).left = Enumerated(memory[iter[i].store], iter[i].left)
  BY CursorIsAt DEF CursorAt
<1>3. Len(iter[i].left) \in Nat
  BY <1>1
<1>4. DOMAIN CursorOf(i).left = 1 .. Len(iter[i].left)
  BY <1>2 DEF Enumerated
<1>5. Len(CursorOf(i).left) = Len(iter[i].left)
  BY <1>2, <1>3 DEF Enumerated
<1>6. iter[i].left # <<>> => 1 \in DOMAIN CursorOf(i).left
  BY <1>1, <1>4
<1>7. iter[i].left = <<>> => CursorOf(i).left = <<>>
  BY <1>2 DEF Enumerated
<1> QED
  BY <1>1, <1>2, <1>5, <1>6, <1>7 DEF More

(* The tail of a sequence that is given by its elements. *)
LEMMA TailOfFunction ==
  ASSUME NEW m \in Nat \ {0}, NEW s, DOMAIN s = 1 .. m,
         s = [n \in 1 .. m |-> s[n]]
  PROVE  Tail(s) = [n \in 1 .. m - 1 |-> s[n + 1]]
<1> DEFINE E == {s[n] : n \in 1 .. m}
<1>1. s \in [1 .. m -> E]
  OBVIOUS
<1>2. s \in Seq(E) /\ Len(s) = m
  BY <1>1
<1> HIDE DEF E
<1>3. /\ Tail(s) \in Seq(E)
      /\ Len(Tail(s)) = m - 1
      /\ \A n \in 1 .. m - 1 : Tail(s)[n] = s[n + 1]
  BY <1>2
<1>4. DOMAIN Tail(s) = 1 .. m - 1
  BY <1>3
<1>5. Tail(s) = [n \in 1 .. m - 1 |-> Tail(s)[n]]
  BY <1>3, <1>4
<1> QED
  BY <1>3, <1>5

(* To replace what a cursor has left. *)
LEMMA LeftReplaced ==
  ASSUME NEW owner, NEW left, NEW later
  PROVE  [[owner |-> owner, left |-> left] EXCEPT !.left = later] =
           [owner |-> owner, left |-> later]
OBVIOUS

(* To increment an iterator is to drop what it enumerates first. *)
LEMMA TailOfCursor ==
  ASSUME NEW owner, NEW left, NEW c, c = [owner |-> owner, left |-> left]
  PROVE  [c EXCEPT !.left = Tail(@)] = [owner |-> owner, left |-> Tail(left)]
<1>1. c.left = left
  OBVIOUS
<1>2. [c EXCEPT !.left = Tail(c.left)] = [owner |-> owner, left |-> Tail(left)]
  BY <1>1, LeftReplaced
<1> QED
  BY <1>2

LEMMA IncrementRefines ==
  ASSUME TypeInv, TypeInv', NEW i \in Iterator, Increment(i)
  PROVE  Values!Increment(i)
<1>1. i \in valid /\ More(i)
  BY DEF Increment
<1>2. /\ memory' = memory /\ handle' = handle /\ valid' = valid
      /\ iter'[i] = [iter[i] EXCEPT !.left = Tail(@)]
      /\ \A j \in Iterator \ {i} : iter'[j] = iter[j]
  BY DEF Increment, TypeInv, Inv, Types
<1> DEFINE it == iter[i]
           entries == memory[it.store]
<1>3. it \in LeafIterator
  BY <1>1 DEF TypeInv, Typed
<1>4. it.left \in Seq(Nat \ {0}) /\ it.left # <<>>
  BY <1>1, <1>3 DEF LeafIterator, More
<1>5. /\ iter'[i].trie = it.trie
      /\ iter'[i].store = it.store
      /\ iter'[i].left = Tail(it.left)
  BY <1>2, <1>3 DEF LeafIterator
<1>6. CursorOf(i) = [owner |-> it.trie, left |-> Enumerated(entries, it.left)]
  BY <1>1, CursorIsAt DEF CursorAt
<1>7. CursorOf(i)' = [owner |-> it.trie,
                      left |-> Enumerated(entries, Tail(it.left))]
  BY <1>1, <1>2, <1>5, ReadableAfter DEF Readable, CursorAt
<1> HIDE DEF entries
<1>8. Enumerated(entries, Tail(it.left)) = Tail(Enumerated(entries, it.left))
  <2>1. Len(it.left) \in Nat \ {0}
    BY <1>4
  <2>2. /\ Len(Tail(it.left)) = Len(it.left) - 1
        /\ \A n \in 1 .. Len(it.left) - 1 : Tail(it.left)[n] = it.left[n + 1]
    BY <1>4
  <2>3. Tail(Enumerated(entries, it.left)) =
          [n \in 1 .. Len(it.left) - 1 |-> Enumerated(entries, it.left)[n + 1]]
    BY <2>1, TailOfFunction DEF Enumerated
  <2> QED
    BY <2>1, <2>2, <2>3 DEF Enumerated
<1>9. CursorOf(i)' = [CursorOf(i) EXCEPT !.left = Tail(@)]
  BY <1>6, <1>7, <1>8, TailOfCursor
<1>10. \A j \in Iterator \ {i} : CursorOf(j)' = CursorOf(j)
  BY <1>2 DEF CursorOf, ReadThrough, Dereference
<1>11. \A s \in Trie : ValueOf(s)' = ValueOf(s)
  BY <1>2, HeldHandle, ReadableAfter DEF Readable
<1>12. CursorOf(i) # NoIterator /\ CursorOf(i).left # <<>>
  BY <1>1, CursorTells, CursorLeft
<1> QED
  BY <1>9, <1>10, <1>11, <1>12 DEF Values!Increment

LEMMA CopyIteratorRefines ==
  ASSUME TypeInv, TypeInv', NEW i \in Iterator, NEW source \in Iterator,
         CopyIterator(i, source)
  PROVE  Values!CopyIterator(i, source)
<1>1. /\ memory' = memory /\ handle' = handle
      /\ valid' = IF source \in valid THEN valid \cup {i} ELSE valid \ {i}
      /\ iter'[i] = iter[source]
      /\ \A j \in Iterator \ {i} : iter'[j] = iter[j]
  BY DEF CopyIterator, TypeInv, Inv, Types
<1>2. CursorOf(i)' = CursorOf(source)
  BY <1>1 DEF CursorOf, ReadThrough, Dereference
<1>3. \A j \in Iterator \ {i} : CursorOf(j)' = CursorOf(j)
  BY <1>1 DEF CursorOf, ReadThrough, Dereference
<1>4. \A s \in Trie : ValueOf(s)' = ValueOf(s)
  BY <1>1, HeldHandle, ReadableAfter DEF Readable
<1> QED
  BY <1>2, <1>3, <1>4 DEF Values!CopyIterator

-----------------------------------------------------------------------------
(* The initial states map to initial states. *)
LEMMA InitRefines == Init => Values!Init
BY DEF Init, Values!Init, ValueOf, CursorOf, Exists

(* Every step maps to the operation on values, or to none. *)
LEMMA NextRefines ==
  TypeInv /\ TypeInv' /\ [Next]_vars => [Values!Next]_Values!vars
<1> SUFFICES ASSUME TypeInv, TypeInv', [Next]_vars
             PROVE  Values!Next \/ (Value' = Value /\ Cursor' = Cursor)
  BY DEF Values!vars, Value, Cursor
<1>1. ASSUME NEW t \in Trie, NEW entries \in Content, Construct(t, entries)
      PROVE  Values!Next
  BY <1>1, OpenRefines DEF Construct, Values!Next
<1>2. ASSUME NEW t \in Trie, DefaultConstruct(t)
      PROVE  Values!Next
  BY <1>2, EmptyIsContent, OpenRefines DEF DefaultConstruct, Values!Next
<1>3. ASSUME NEW t \in Trie, NEW source \in Trie,
             Copy(t, source) \/ Move(t, source)
      PROVE  Values!Next
  BY <1>3, CopyRefines, MoveRefines DEF Values!Next
<1>4. ASSUME NEW t \in Trie, NEW source \in Trie,
             CopyAssign(t, source) \/ MoveAssign(t, source)
      PROVE  Values!Next \/ (Value' = Value /\ Cursor' = Cursor)
  BY <1>4, CopyAssignRefines, MoveAssignRefines DEF Values!Next
<1>5. ASSUME NEW t \in Trie, Destroy(t)
      PROVE  Values!Next
  BY <1>5, DestroyRefines DEF Values!Next
<1>6. ASSUME NEW i \in Iterator, NEW t \in Trie, Begin(i, t) \/ End(i, t)
      PROVE  Values!Next
  BY <1>6, BeginRefines, EndRefines DEF Values!Next
<1>7. ASSUME NEW i \in Iterator, NEW t \in Trie, NEW wanted \in Subtrie,
             Complete(i, t, wanted)
      PROVE  Values!Next
  BY <1>7, CompleteRefines DEF Values!Next
<1>8. ASSUME NEW i \in Iterator, Increment(i)
      PROVE  Values!Next
  BY <1>8, IncrementRefines DEF Values!Next
<1>9. ASSUME NEW i \in Iterator, NEW source \in Iterator,
             CopyIterator(i, source)
      PROVE  Values!Next
  BY <1>9, CopyIteratorRefines DEF Values!Next
<1>10. CASE UNCHANGED vars
  BY <1>10 DEF vars, Value, Cursor, ValueOf, CursorOf, ReadThrough,
               Dereference, Exists, Entries
<1> QED
  BY <1>1, <1>2, <1>3, <1>4, <1>5, <1>6, <1>7, <1>8, <1>9, <1>10 DEF Next

(* Copies share a Store, moves leave pointers behind and addresses are     *)
(* used again (the members of OrderedTrie and of its iterator); yet to the *)
(* user every trie is a value of its own, and an iterator that may be used *)
(* enumerates, entry by entry, what its trie held when it was made.        *)
THEOREM TriesAreValues == Spec => ValueSemantics
<1>1. Init => TypeInv
  BY InitTypeInv
<1>2. TypeInv /\ [Next]_vars => TypeInv'
  BY NextTypeInv
<1> QED
  BY <1>1, <1>2, InitRefines, NextRefines, PTL
  DEF Spec, ValueSemantics, Values!Spec
=============================================================================
