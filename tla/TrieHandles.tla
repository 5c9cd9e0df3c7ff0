----------------------------- MODULE TrieHandles ----------------------------
(***************************************************************************)
(* The objects of class OrderedTrie and their iterators (ordered_trie.hpp, *)
(* ordered_trie_impl.hpp): who keeps the bytes alive, and where the raw    *)
(* pointers lead.                                                          *)
(*                                                                         *)
(* A trie is a handle: two raw pointers into a Store and a shared_ptr to   *)
(* it.  The Store, with its two byte vectors, is freed with the last       *)
(* shared_ptr, and its address is used again.  An iterator has the address *)
(* of its trie and raw pointers to nodes.  The way an iterator finds the   *)
(* next leaf is in LeavesIterator; here it has the leaves that are left.   *)
(***************************************************************************)
EXTENDS Naturals, Sequences, Enumeration

CONSTANTS
  Trie, Iterator, Content, Subtrie,  \* see TrieValues
  Address,      \* addresses of Stores
  Null,         \* the null pointer
  Free,         \* nothing is at an address
  Gone, Unspecified, NoIterator,
  Broken        \* what a read outside of a Store returns

ASSUME EmptyIsContent == <<>> \in Content
ASSUME NullIsNoAddress == Null \notin Address
ASSUME FreeIsNoContent == Free \notin Content

(* A trie holds a sequence of entries, and what stands for something else  *)
(* is none.                                                                *)
Entry == UNION {{c[n] : n \in DOMAIN c} : c \in Content}

ASSUME ContentIsSequences == Content \subseteq Seq(Entry)
ASSUME ValuesDiffer ==
  Gone # Unspecified /\ Gone \notin Content /\ Unspecified \notin Content
ASSUME NoIteratorIsNoCursor ==
  NoIterator \notin [owner : Trie, left : Seq(Entry \cup {Broken})]

VARIABLES
  memory,  \* memory[a]: the entries of the trie in the Store at a, or Free
  handle,  \* handle[t]: m_root, m_score_table and m_store
  iter,    \* iter[i]: m_trie, and m_visitor: the Store and leaves it visits
  valid    \* history: the iterators that may be used

vars == <<memory, handle, iter, valid>>

Handle == [root : Address, table : Address \cup {Null},
           store : Address \cup {Null}]

ASSUME GoneIsNoHandle == Gone \notin Handle

Exists(t) == handle[t] # Gone

(* The reference count of the Store at a is not 0. *)
Owned(handles, a) ==
  \E t \in Trie : handles[t] # Gone /\ handles[t].store = a

(* shared_ptr frees the Stores that no handle owns any more. *)
SetHandles(handles) ==
  /\ handle' = handles
  /\ memory' = [a \in Address |-> IF Owned(handles, a) THEN memory[a] ELSE Free]

Invalidate(ts) == valid' = {i \in valid : iter[i].trie \notin ts}

-----------------------------------------------------------------------------
Init ==
  /\ memory = [a \in Address |-> Free]
  /\ handle = [t \in Trie |-> Gone]
  /\ iter = [i \in Iterator |-> NoIterator]
  /\ valid = {}

(* from_memory makes a new Store, and the constructor looks up its data.   *)
(* score_table_data is null when there are no scores.                      *)
Open(t, entries) ==
  \E a \in Address :
    /\ memory[a] = Free
    /\ memory' = [memory EXCEPT ![a] = entries]
    /\ handle' = [handle EXCEPT ![t] =
                    [root |-> a,
                     table |-> IF entries = <<>> THEN Null ELSE a,
                     store |-> a]]

(* The range constructor and, with what was in the file, read. *)
Construct(t, entries) ==
  /\ ~ Exists(t)
  /\ Open(t, entries)
  /\ UNCHANGED <<iter, valid>>

DefaultConstruct(t) ==
  /\ ~ Exists(t)
  /\ Open(t, <<>>)
  /\ UNCHANGED <<iter, valid>>

(* The copy and move members are those of the compiler: member by member.  *)
Moved(h) == [h EXCEPT !.store = Null]

Copy(t, source) ==
  /\ ~ Exists(t)
  /\ Exists(source)
  /\ SetHandles([handle EXCEPT ![t] = handle[source]])
  /\ UNCHANGED <<iter, valid>>

(* The raw pointers stay in the trie that was moved from. *)
Move(t, source) ==
  /\ ~ Exists(t)
  /\ Exists(source)
  /\ SetHandles([handle EXCEPT ![t] = handle[source], ![source] = Moved(@)])
  /\ Invalidate({source})
  /\ UNCHANGED iter

(* Mutant: the pointer to the scores is forgotten. *)
CopyAssignOfTwo(t, source) ==
  /\ Exists(t)
  /\ Exists(source)
  /\ SetHandles([handle EXCEPT ![t] =
                   [handle[source] EXCEPT !.table = handle[t].table]])
  /\ Invalidate({t} \ {source})
  /\ UNCHANGED iter

CopyAssign(t, source) ==
  /\ Exists(t)
  /\ Exists(source)
  /\ SetHandles([handle EXCEPT ![t] = handle[source]])
  /\ Invalidate({t} \ {source})
  /\ UNCHANGED iter

(* Mutant: a trie that is moved to itself loses its Store. *)
MoveAssignAnyway(t, source) ==
  /\ Exists(t)
  /\ Exists(source)
  /\ SetHandles([handle EXCEPT ![t] = handle[source], ![source] = Moved(@)])
  /\ IF t = source THEN UNCHANGED valid ELSE Invalidate({t, source})
  /\ UNCHANGED iter

(* A shared_ptr that is moved to itself is kept. *)
MoveAssign(t, source) ==
  /\ Exists(t)
  /\ Exists(source)
  /\ SetHandles(IF t = source THEN handle
                ELSE [handle EXCEPT ![t] = handle[source], ![source] = Moved(@)])
  /\ IF t = source THEN UNCHANGED valid ELSE Invalidate({t, source})
  /\ UNCHANGED iter

Destroy(t) ==
  /\ Exists(t)
  /\ SetHandles([handle EXCEPT ![t] = Gone])
  /\ Invalidate({t})
  /\ UNCHANGED iter

-----------------------------------------------------------------------------
(* The bytes at m_root, followed as long as they are there. *)
Entries(h) == IF memory[h.root] = Free THEN <<>> ELSE memory[h.root]

(* A new iterator over some leaves takes the place of i.  A trie that was  *)
(* moved from has no value and is not asked.                               *)
Iterate(i, t, leaves) ==
  /\ Exists(t)
  /\ handle[t].store # Null
  /\ iter' = [iter EXCEPT ![i] =
                [trie |-> t, store |-> handle[t].root, left |-> leaves]]
  /\ valid' = valid \cup {i}
  /\ UNCHANGED <<memory, handle>>

(* Mutant: the iteration goes one sibling too far. *)
LeavesPastEnd(t) == [n \in 1 .. Len(Entries(handle[t])) + 1 |-> n]

Leaves(t) == [n \in 1 .. Len(Entries(handle[t])) |-> n]

Begin(i, t) == Exists(t) /\ Iterate(i, t, Leaves(t))

End(i, t) == Iterate(i, t, <<>>)

(* The leaves below the node that matches the prefix. *)
Complete(i, t, wanted) ==
  /\ Exists(t)
  /\ \E leaves \in InOrder(Where(Entries(handle[t]), wanted)) :
       Iterate(i, t, leaves)

(* operator bool of the visitor *)
More(i) == iter[i].left # <<>>

Increment(i) ==
  /\ i \in valid
  /\ More(i)
  /\ iter' = [iter EXCEPT ![i].left = Tail(@)]
  /\ UNCHANGED <<memory, handle, valid>>

CopyIterator(i, source) ==
  /\ iter[source] # NoIterator
  /\ iter' = [iter EXCEPT ![i] = iter[source]]
  /\ valid' = IF source \in valid THEN valid \cup {i} ELSE valid \ {i}
  /\ UNCHANGED <<memory, handle>>

(* leaf_to_suggestion: the string comes of the path from m_root of the     *)
(* owner to the leaf, the score from m_score_table of the owner.           *)
Dereference(h, store, leaf) ==
  IF /\ h # Gone
     /\ h.root = store
     /\ h.table = store
     /\ memory[store] # Free
     /\ leaf \in DOMAIN memory[store]
  THEN memory[store][leaf]
  ELSE Broken

(* iterator::equal.  The visitors have no operator ==, and are compared as *)
(* the Booleans they convert to.                                           *)
Equal(i, j) ==
  /\ iter[i].trie = iter[j].trie
  /\ More(i) = More(j)

Next ==
  \/ \E t \in Trie :
       \/ \E entries \in Content : Construct(t, entries)
       \/ DefaultConstruct(t)
       \/ \E source \in Trie :
            \/ Copy(t, source)
            \/ Move(t, source)
            \/ CopyAssign(t, source)
            \/ MoveAssign(t, source)
       \/ Destroy(t)
  \/ \E i \in Iterator :
       \/ \E t \in Trie :
            \/ Begin(i, t)
            \/ End(i, t)
            \/ \E wanted \in Subtrie : Complete(i, t, wanted)
       \/ Increment(i)
       \/ \E source \in Iterator : CopyIterator(i, source)

Spec == Init /\ [][Next]_vars

-----------------------------------------------------------------------------
(* Types.  The leaves of a trie are numbered from 1, and those that are    *)
(* left to an iterator which may be used are in the Store it walks: a copy *)
(* or an assignment of tries puts no other one at that address.            *)
IterOK(it) ==
  \/ it = NoIterator
  \/ it \in [trie : Trie, store : Address, left : Seq(Nat \ {0})]

LeavesStand(it) ==
  memory[it.store] # Free => it.left \in Seq(DOMAIN memory[it.store])

TypeOK ==
  /\ memory \in [Address -> Content \cup {Free}]
  /\ handle \in [Trie -> Handle \cup {Gone}]
  /\ DOMAIN iter = Iterator
  /\ \A i \in Iterator : IterOK(iter[i])
  /\ valid \subseteq Iterator
  /\ \A i \in valid : LeavesStand(iter[i])

(* No raw pointer dangles.  A Store is there as long as a trie owns it,    *)
(* the raw pointers of a trie that owns a Store lead into that one, and so *)
(* do those of an iterator of that trie, until it may not be used.         *)
PointsIntoItsStore(h) ==
  /\ h.root = h.store
  /\ h.table = IF memory[h.store] = <<>> THEN Null ELSE h.store

Follows(it) ==
  /\ Exists(it.trie)
  /\ handle[it.trie].store = it.store

PointersOK ==
  /\ \A a \in Address : memory[a] # Free <=> Owned(handle, a)
  /\ \A t \in Trie :
       Exists(t) /\ handle[t].store # Null => PointsIntoItsStore(handle[t])
  /\ \A i \in valid : Follows(iter[i])

(* What can be read from a trie and through an iterator. *)
ReadThrough(h, store, leaves) ==
  [n \in 1 .. Len(leaves) |-> Dereference(h, store, leaves[n])]

ValueOf(t) ==
  IF ~ Exists(t) THEN Gone
  ELSE LET h == handle[t]
       IN  IF h.store = Null THEN Unspecified
           ELSE IF memory[h.root] = Free THEN Broken
           ELSE ReadThrough(h, h.root, [n \in 1 .. Len(Entries(h)) |-> n])

CursorOf(i) ==
  IF i \notin valid THEN NoIterator
  ELSE [owner |-> iter[i].trie,
        left  |-> ReadThrough(handle[iter[i].trie], iter[i].store, iter[i].left)]

(* Tries are values, and an iterator that may be used reads what its trie  *)
(* held when it was made, whatever became of the copies of that trie.      *)
Values ==
  INSTANCE TrieValues WITH value  <- [t \in Trie |-> ValueOf(t)],
                           cursor <- [i \in Iterator |-> CursorOf(i)]

ValueSemantics == Values!Spec

(* "The output is of type conforming the Forward Range concept": iterators *)
(* of a range that are equal stand at the same entry.  For tries that are  *)
(* asked for one range only.                                               *)
EqualMeansSame ==
  \A i, j \in valid : Equal(i, j) => CursorOf(i) = CursorOf(j)
=============================================================================
