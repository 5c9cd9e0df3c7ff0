----------------------------- MODULE TrieMatch ------------------------------
(***************************************************************************)
(* prefix_match and find_leaf (ordered_trie_impl.hpp): the descent from    *)
(* the root along the characters of a string.  The two functions have the  *)
(* same loops and differ in what they return; one step is one iteration.   *)
(***************************************************************************)
EXTENDS TrieNode

CONSTANT
  NegativeChar  \* characters a signed char holds as a negative number:
                \* the bytes from 0x80 on, where char is signed

VARIABLES
  trie,    \* the serialised trie, never changed here
  finder,  \* the function called, or "none"
  string,  \* its argument
  first,   \* how many characters of the string have been matched
  locus,   \* the last node matched
  spelled, \* how many characters of its label have been matched
  found,   \* what find_leaf returns
  search   \* "none", "match", "label" or "returned"

matchVars == <<finder, string, first, locus, spelled, found, search>>
vars == <<trie, matchVars>>

-----------------------------------------------------------------------------
(* A byte of a label, unsigned, against a character of the argument.       *)
Equal(byte, char) == byte = char /\ char \notin NegativeChar

StartsWith(node, char) ==
  /\ Label(trie, node) # <<>>
  /\ Equal(Head(Label(trie, node)), char)

Child(char) ==
  FindSibling(trie, VisitChildren(trie, locus),
              [node \in NodeView |-> StartsWith(node, char)])

(* The leaf of the suggestion that ends at node. *)
EndLeaf(node) ==
  FindSibling(trie, VisitChildren(trie, node),
              [n \in NodeView |-> IsLeaf(trie, n) /\ Label(trie, n) = <<>>])

-----------------------------------------------------------------------------
Init ==
  /\ finder = "none"
  /\ string = <<>>
  /\ first = 0
  /\ locus = NullNode
  /\ spelled = 0
  /\ found = FALSE
  /\ search = "none"

Start(function, argument) ==
  /\ search = "none"
  /\ finder' = function
  /\ string' = argument
  /\ locus' = Root(trie)
  /\ search' = "match"
  /\ UNCHANGED <<trie, first, spelled, found>>

Return(result) ==
  /\ search' = "returned"
  /\ found' = result
  /\ UNCHANGED <<trie, finder, string, first, spelled>>

(* The outer loop looks for the child that starts with the next character. *)
Descend ==
  /\ search = "match"
  /\ first < Len(string)
  /\ AtNode(Child(string[first + 1]))
  /\ locus' = Child(string[first + 1]).current
  /\ spelled' = 1
  /\ first' = first + 1
  /\ search' = "label"
  /\ UNCHANGED <<trie, finder, string, found>>

NoChild ==
  /\ search = "match"
  /\ first < Len(string)
  /\ ~AtNode(Child(string[first + 1]))
  /\ Return(FALSE)
  /\ UNCHANGED locus

(* The inner loop goes along the label of the child. *)
InLabel ==
  /\ search = "label"
  /\ spelled < Len(Label(trie, locus))
  /\ first < Len(string)

(* Mutant: the rest of the label is not compared. *)
SkipsLabel ==
  /\ InLabel
  /\ first' = first + 1
  /\ spelled' = spelled + 1
  /\ UNCHANGED <<trie, finder, string, locus, found, search>>

LabelGoesOn ==
  /\ InLabel
  /\ Equal(Label(trie, locus)[spelled + 1], string[first + 1])
  /\ first' = first + 1
  /\ spelled' = spelled + 1
  /\ UNCHANGED <<trie, finder, string, locus, found, search>>

LabelDiffers ==
  /\ InLabel
  /\ ~Equal(Label(trie, locus)[spelled + 1], string[first + 1])
  /\ Return(FALSE)
  /\ UNCHANGED locus

(* Mutant: a string that ends inside a label counts as matched. *)
EndsAnywhere == FALSE

(* find_leaf gives up if the string ends inside a label. *)
EndsInLabel ==
  /\ finder = "find_leaf"
  /\ spelled < Len(Label(trie, locus))

LabelEnds ==
  /\ search = "label"
  /\ spelled = Len(Label(trie, locus)) \/ first = Len(string)
  /\ IF EndsInLabel
     THEN Return(FALSE) /\ UNCHANGED locus
     ELSE /\ search' = "match"
          /\ UNCHANGED <<trie, finder, string, first, locus, spelled, found>>

(* The string has been matched: find_leaf takes the leaf reached, or the   *)
(* child that is a leaf and has no label.                                  *)
StringEnds ==
  /\ search = "match"
  /\ first = Len(string)
  /\ IF finder = "find_leaf" /\ ~IsLeaf(trie, locus)
     THEN /\ Return(AtNode(EndLeaf(locus)))
          /\ locus' = IF AtNode(EndLeaf(locus))
                      THEN EndLeaf(locus).current ELSE locus
     ELSE /\ Return(finder = "find_leaf")
          /\ UNCHANGED locus

Next ==
  \/ Descend
  \/ NoChild
  \/ LabelGoesOn
  \/ LabelDiffers
  \/ LabelEnds
  \/ StringEnds

-----------------------------------------------------------------------------
TypeOK ==
  /\ finder \in {"none", "prefix_match", "find_leaf"}
  /\ string \in Seq(Char)
  /\ first \in 0 .. Len(string)
  /\ locus \in NodeView
  /\ spelled \in 0 .. MaxLabelSize - 1
  /\ found \in BOOLEAN
  /\ search \in {"none", "match", "label", "returned"}
=============================================================================
