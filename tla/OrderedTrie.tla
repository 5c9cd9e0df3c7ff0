---------------------------- MODULE OrderedTrie ----------------------------
(***************************************************************************)
(* class OrderedTrie (ordered_trie_impl.hpp): a trie is built once, and    *)
(* its const operations walk over the bytes the builder made.  A call is   *)
(* begin, complete, mismatch, count or score; the last four first match    *)
(* their argument (TrieMatch), the first two then visit leaves by          *)
(* increasing rank (LeavesIterator).                                       *)
(*                                                                         *)
(* A reader changes nothing but its own iterator, so one call per          *)
(* behaviour shows what any sequence of calls can do.                      *)
(***************************************************************************)
EXTENDS BuilderRefinement

CONSTANTS
  NegativeChar,  \* see TrieMatch
  Queries        \* the arguments of the calls

ASSUME NegativeCharAssumption == NegativeChar \subseteq Char
ASSUME QueriesAssumption == Queries \subseteq Seq(Char)

VARIABLES
  finder, string, first, locus, spelled, found, search,  \* TrieMatch
  frontier, visitor, phase, yielded,                     \* LeavesIterator
  call,    \* the operation called, or "none"
  answer   \* the number it returned, or NoAnswer

Match == INSTANCE TrieMatch
Visit == INSTANCE LeavesIterator

builderVars  == vars
matchVars    == <<finder, string, first, locus, spelled, found, search>>
iteratorVars == <<frontier, visitor, phase, yielded>>
allVars == <<vars, matchVars, iteratorVars, call, answer>>

NoAnswer == -1
NoScore  == -2   \* score () throws, or returns false

-----------------------------------------------------------------------------
ReaderInit ==
  /\ Match!Init
  /\ Visit!Init
  /\ call = "none"
  /\ answer = NoAnswer

(* The builder of the constructor.  Nobody has the trie before it is done. *)
Build ==
  /\ Next
  /\ UNCHANGED <<matchVars, iteratorVars, call, answer>>

empty == IsLeaf(trie, Root(trie))

Calls(operation) ==
  /\ pc = "done"
  /\ call = "none"
  /\ call' = operation

CallBegin ==
  /\ Calls("begin")
  /\ Visit!Open(VisitChildren(trie, Root(trie)))
  /\ UNCHANGED <<builderVars, matchVars, answer>>

(* complete, mismatch, count and score. *)
CallMatch(operation, function, argument) ==
  /\ Calls(operation)
  /\ Match!Start(function, argument)
  /\ UNCHANGED <<builderVars, iteratorVars, answer>>

CallComplete(prefix) == CallMatch("complete", "prefix_match", prefix) /\ ~empty

CallMismatch(input_) == CallMatch("mismatch", "prefix_match", input_)
CallCount(input_)    == CallMatch("count", "find_leaf", input_)
CallScore(input_)    == CallMatch("score", "find_leaf", input_)

(* complete does not search an empty trie. *)
CallCompleteOfEmpty(prefix) ==
  /\ Calls("complete")
  /\ empty
  /\ string' = prefix
  /\ Visit!Open(NoSiblings)
  /\ UNCHANGED <<builderVars, finder, first, locus, spelled, found, search,
                 answer>>

MatchStep ==
  /\ Match!Next
  /\ UNCHANGED <<builderVars, iteratorVars, call, answer>>

(* The whole prefix must have been matched. *)
OpenCompletions ==
  /\ call = "complete"
  /\ search = "returned"
  /\ Visit!Open(IF first = Len(string) THEN Visit!Alone(locus) ELSE NoSiblings)
  /\ UNCHANGED <<builderVars, matchVars, call, answer>>

Answer(operation, number) ==
  /\ call = operation
  /\ search = "returned"
  /\ answer = NoAnswer
  /\ answer' = number
  /\ UNCHANGED <<builderVars, matchVars, iteratorVars, call>>

FoundLeaf == found /\ locus.data # Root(trie).data

ReturnMismatch == Answer("mismatch", first)
ReturnCount    == Answer("count", IF FoundLeaf THEN 1 ELSE 0)
ReturnScore    == Answer("score", IF FoundLeaf THEN locus.rank ELSE NoScore)

Increment ==
  /\ Visit!Increment
  /\ UNCHANGED <<builderVars, matchVars, call, answer>>

AdvanceStep ==
  /\ Visit!Advance
  /\ UNCHANGED <<builderVars, matchVars, call, answer>>

Read ==
  \/ CallBegin
  \/ \E q \in Queries : \/ CallComplete(q) \/ CallCompleteOfEmpty(q)
                        \/ CallMismatch(q) \/ CallCount(q) \/ CallScore(q)
  \/ MatchStep
  \/ OpenCompletions
  \/ ReturnMismatch \/ ReturnCount \/ ReturnScore
  \/ Increment
  \/ AdvanceStep

(* A call that has been made runs to its end. *)
Running ==
  MatchStep \/ OpenCompletions \/ ReturnMismatch \/ ReturnCount \/ ReturnScore
    \/ AdvanceStep

TrieInit == Init /\ ReaderInit
TrieNext == Build \/ Read

TrieSpec == TrieInit /\ [][TrieNext]_allVars /\ WF_allVars(Running)

-----------------------------------------------------------------------------
(* The types of the reader's state; those of the builder's are TypeOK.     *)
ReaderTypeOK ==
  /\ Match!TypeOK
  /\ Visit!TypeOK
  /\ call \in {"none", "begin", "complete", "mismatch", "count", "score"}
  /\ answer \in Nat \cup {NoAnswer, NoScore}

InputEntries ==
  {[string |-> suggestions[i], rank |-> ranks[i]] : i \in DOMAIN suggestions}

HowOften(entry) ==
  Cardinality({i \in DOMAIN suggestions :
                 suggestions[i] = entry.string /\ ranks[i] = entry.rank})

(* What the call asks for, from the input of the builder. *)
Wanted ==
  LET entries ==
        CASE call = "begin"    -> InputEntries
          [] call = "complete" -> {e \in InputEntries : IsPrefix(string, e.string)}
          [] OTHER             -> {}
  IN  [e \in entries |-> HowOften(e)]

(* The entries of the leaves that the iterator can still get to. *)
AddressesFrom[it \in Siblings] ==
  {node.data : node \in NodesFrom(trie, it)}

EntriesAt ==
  [leaves \in Seq([data : Nat, entry : Entry]) |->
     [addresses \in SUBSET Nat |->
        LET there == {i \in DOMAIN leaves : leaves[i].data \in addresses}
        IN  [e \in {leaves[i].entry : i \in there} |->
               Cardinality({i \in there : leaves[i].entry = e})]]]

Reachable ==
  EntriesAt[Leaves(trie, Root(trie), <<>>)]
           [UNION {AddressesFrom[it] : it \in frontier \cup {visitor}}]

Promised == INSTANCE Completions
  WITH wanted <- Wanted,
       owed   <- IF phase = "none" THEN Wanted ELSE Reachable,
       out    <- yielded,
       ended  <- (phase = "ready" /\ frontier = {})

(* begin and complete return exactly the suggestions asked for, by         *)
(* increasing rank.  No step of the loops loses a subtrie or visits it     *)
(* twice, and the string of every leaf is spelled by the path that is      *)
(* found again from the root by comparing addresses.                       *)
CompletesAll == Promised!Spec

(* mismatch returns the length of the longest prefix of its argument that  *)
(* some suggestion starts with, wherever in a label that prefix ends.      *)
MismatchIsLongest ==
  call = "mismatch" /\ answer # NoAnswer =>
    answer = Max({n \in 0 .. Len(string) :
                    n = 0 \/ \E e \in InputEntries :
                               IsPrefix(SubSeq(string, 1, n), e.string)})

(* count says whether its argument is a suggestion, and score returns the  *)
(* best of its ranks, or fails, also when a suggestion ends inside a       *)
(* label, at a node with children or in an empty trie.                     *)
LeafIsFound ==
  answer # NoAnswer =>
    LET equal == {e.rank : e \in {f \in InputEntries : f.string = string}}
    IN  /\ call = "count" => answer = IF equal = {} THEN 0 ELSE 1
        /\ call = "score" => answer = IF equal = {} THEN NoScore ELSE Min(equal)

(* count's comment: "Returns number of times a suggestion with text equal  *)
(* to given input string appears in the trie."                             *)
CountsOccurrences ==
  call = "count" /\ answer # NoAnswer =>
    answer = Cardinality({i \in DOMAIN suggestions : suggestions[i] = string})

(* Every call returns: the loops over siblings, labels and levels end. *)
CallReturns == call # "none" ~> answer # NoAnswer \/ phase = "ready"

(* Every increment of an iterator returns, at a leaf or at the end. *)
IncrementReturns == phase = "advance" ~> phase = "ready"
=============================================================================
