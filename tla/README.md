# Ordered Trie: models, checks and proofs

`ordered_trie` is a header-only C++ library: a trie of strings, each with a
score, serialised once into a flat byte vector and then only read. Given a
prefix it enumerates the strings that start with it, best score first. This
directory holds TLA+ models of the library, the TLC configurations that check
them, and TLAPS proofs. Source lines are named in `PROJECT.json` ("map").

## 1. Inventory

File names are short for `include/detail/ordered_trie_<name>.hpp`;
`ordered_trie.hpp` is the public interface.

| Component | State | Operations | What makes it correct |
|---|---|---|---|
| Integer encoders (`varint`, `builtin_serialise`) | none; append to a byte vector | `serialise`, `deserialise`, `skip` of `RankEncoder` and `OffsetEncoder` | reading gives back what was written, `skip` lands on the next item, at every change of width |
| Node encoding (`node`) | none; one node is header byte, offset, label, rank, metadata | `serialise_node`; `Node` is a view: `label_begin`, `rank`, `is_leaf`, `first_child`, `skip` | the four header fields do not disturb each other; address arithmetic agrees with what was written |
| Sibling iteration (`iterator`) | current node, end of the sibling headers | `++`, `visit_children`, `find_sibling` | stays inside the headers of the siblings |
| Trie builder (`builder`) | `levels`, one list of unfinished nodes per character of the previous suggestion, and two input iterators | `make_serialised_ordered_trie`: take a suggestion, `merge_levels`, `add_children` (collapse, sort, `serialise_siblings`), extend, make the root | the trie holds exactly its input; ranks are least-first; nothing throws but a size mismatch; the internal assertions hold |
| Score table (`builder`) | sorted scores, table bytes, map of ranks | `serialise_scores` | rank order is score order, a rank leads to its score, every score has a rank |
| Ordered leaves iteration (`iterator`, `impl`) | `m_frontier`, a priority queue of sibling iterators | open, `++` (`advance_to_leaf`, `push_leftmost_path`), `*` (`traverse_descending_path`) | every wanted leaf once, by increasing rank, with its right string; every step ends |
| Queries (`impl`) | none | `begin`, `complete`, `mismatch`, `count`, `score`, `empty` over `prefix_match` and `find_leaf` | answers agree with the input the trie was built from |
| Handles and lifetime (`ordered_trie.hpp`, `impl`) | `m_root`, `m_score_table` (raw pointers), `m_store` (shared); an iterator holds its trie's address | copy, move, assign, iterator `==` | pointers never outlive what they point into |
| Store and file format (`store`) | two byte vectors; a file and the streams on it | `write`, `from_file`, `from_memory` | a file is read as it was written, or is refused |
| Custom serialisers (`ordered_trie_serialise.hpp`) | none | `Serialise<T>`, specialised by the user | external to the library |

**Interaction.** The constructor calls `serialise_scores`, then the builder with
each score replaced by its rank (the score's offset in the table), and moves
both vectors into a `Store`. From then on all is read-only: a query makes `Node`
views on the bytes, an iterator keeps its own frontier of such views, and a
leaf's rank is used as an offset into the score table. Nothing in the library
runs concurrently; the actors are the caller, who decides when to increment an
iterator or reassign a trie, and, for files, other processes: nothing locks a
file, and any of them may crash or meet a full disk between two steps.

**What is hard.** The difficulty is in long histories rather than in threads.
Whether a node is still open, was collapsed, or is a leaf depends on all
suggestions so far; the address of a subtrie is relative to what is serialised
around it; a rank is relative to a neighbour that an unstable sort chose; the
lazy iteration must neither lose nor repeat a subtrie over many increments; and
the string of a leaf is found by comparing addresses only. The `hazards` in
`PROJECT.json` list these places with the property that guards each.

## 2. Modules

    Varint ── NodeBytes ─┬─ MCNodeBytes           bytes of integers and nodes
      │                  └─ NodeBytesProofs
    TrieNode ─┬─ TrieContent                      a trie as an array of node records
              ├─ TrieBuilder ── TrieBuilderProofs
              ├─ TrieMatch
              └─ LeavesIterator
    SuggestionBag <= BuilderRefinement (TrieBuilder + TrieContent)
                                                 ├─ MCTrieBuilder
                                                 └─ TrieContentProofs (+ TrieBuilderProofs)
    Completions   <= OrderedTrie (BuilderRefinement + TrieMatch + LeavesIterator)
                                                 ├─ MCOrderedTrie
                                                 └─ OrderedTrieProofs (+ TrieContentProofs)
    Scores ─┬─ MCScores
            └─ ScoresProofs
    SafeFile      <= TrieStore ─┬─ MCTrieStore         files
                                └─ TrieStoreProofs
    TrieValues    <= TrieHandles ─┬─ MCTrieHandles    objects and pointers
                                  └─ TrieHandlesProofs
    Enumeration                                   used by TrieValues and TrieHandles
    SequenceLemmas                                facts the proofs share

`A <= B`: B implements A, by the refinement mapping in B.

| Module | Models | State and actions |
|---|---|---|
| `Varint` | `RankEncoder`, `OffsetEncoder`, the `memcpy` of words | operators; the weight of the top bit of a byte (`TopBit`, 128 in the code) and the byte order are constants |
| `NodeBytes` | `serialise_node`, `Node`, byte by byte | `out` is the vector, `written` what was put into it, `at` and `got` a reader that walks with `deserialise` and `skip` only |
| `TrieNode` | the same encoding one level up | the first byte of a node is a record of its header, the others are `Pad`; the widths are exact, so all address arithmetic is that of the code, and reading a record at a wrong address is an error TLC reports |
| `TrieContent` | nothing in the code | the reference meaning of a serialised trie: a plain recursive walk over all nodes |
| `TrieBuilder` | `MakeTrie`, `make_serialised_ordered_trie` | `levels`, `target` (of `merge_levels`), `pos` (of both input iterators). `NextSuggestion` computes the common prefix, `MergeLevel` is one iteration of `merge_levels`, `Extend` the rest of the loop body, `LastMerge`/`MakeRoot` the end, `BuildEmpty` the empty case, `ThrowSizes` the size errors. The unstable `boost::sort` is a choice among all sorted orders |
| `SuggestionBag` | the promise of the builder | a bag to which the input's entries are added one by one |
| `BuilderRefinement` | the refinement mapping | reads unfinished levels as tries; also the layout properties |
| `TrieMatch` | `prefix_match`, `find_leaf` | one action per branch of their loops |
| `LeavesIterator` | `OrderedLeavesIterator`, `traverse_descending_path`, `OrderedTrie::iterator` | `frontier` is `m_frontier`, `visitor` the local of `push_leftmost_path`; one action per loop iteration |
| `Completions` | the promise of `begin` and `complete` | a bag of what is owed, taken from in rank order |
| `OrderedTrie` | the class | a trie is built, then one call is made on it. `CallX` starts an operation, `MatchStep`/`AdvanceStep` run its loops, `ReturnX`/`OpenCompletions` end it |
| `SafeFile` | the promise of `write` and `read` | Lamport's safe register with writes that may fail: a read that no write overlaps returns what the last write stored, or is refused if that write failed or a program of another kind made it; any other read may return anything |
| `TrieStore` | `Store` | `file` is the bytes, `buffer`, `at` and `bad` the `ofstream` of each program. `OpenWrite` truncates, `PutHeader`, `PutTable` and `PutTrie` put the segments into the stream, which passes any part on to the file, `Close` is the destructor. `HeaderBytes` writes the header byte by byte and `HeaderRead` decodes each field from its own bytes; its size is that of the kind's initials (`HeaderSize`). `OpenRead`, `ReadHeader`, `ReadTable` and `ReadTrie` are the steps of `from_file` with their refusals. `Fault` and `Crash` may come at any time. `muddled` (two programs wrote at once), `overlapped` and `misled` (took the header of a muddled file for one) are history |
| `TrieValues` | the promise of copies, moves and iterators | tries are values; an iterator enumerates what its trie held until that trie is assigned, moved from or destroyed |
| `Enumeration` | the order in which an iterator has its leaves | the wanted positions of a sequence, enumerated from the first to the last |
| `TrieHandles` | `OrderedTrie` as an object, its `iterator` | `handle` is `m_root`, `m_score_table` and `m_store`; `memory` the Stores at their addresses, freed with the last owner and used again; `iter` is `m_trie` and `m_visitor`. One action per constructor, assignment, destructor and iterator operation. `valid` is history: which iterators the caller may still use |
| `Scores` | `serialise_scores` | `Sort`, `Unique`, one `Write` per score; the comparison is a constant operator, and may hold different scores equivalent |

Definitions named in the comments as mutants are deliberately wrong variants of
the definition that follows them (an off-by-one, a dropped condition). They are
used by nothing; replacing the real definition by one of them must break the
property named with it in `PROJECT.json`, which shows that the property depends
on that piece of code.

## 3. Runs

From this directory, `tlc -workers 2 -config X.cfg M`.

| Run (cfg) | Question | Size |
|---|---|---|
| `MCNodeBytes` | do the encoders and the node header round-trip and align? | 712k states, 30 s |
| `MCTrieBuilder` | does the builder put exactly its input into the trie, for input in any order? | 180k states, 40 s |
| `MCScores` | do ranks follow any comparison and lead back to the scores? | 131k states, 6 s |
| `MCOrderedTrie` | does every call on every such trie answer correctly, and end? | 339k states, 70 s |
| `MCTrieStore` | is a trie read as it was written, whatever happens to the programs and the file, and is no empty one read? | 1.1M states, 90 s |
| `MCTrieHandles` | are tries values, and do iterators of shared Stores stay right? | 34k states under symmetry, 80 s |
| `MCUnsortedInput`, `MCCountTimes`, `MCSignedChar`, `MCEmptyTrie` and `MCUnreportedFlush` (of `MCTrieStore`), `MCIteratorEquality` (of `MCTrieHandles`) | does the program do what its comments say? (it does not, see 6) | stop at the counterexample |

**Bounds, and why they suffice.**

- *Byte width.* With `TopBit = 4` (node bytes) a byte has three bits and holds 0..7, so ranks and
  offsets on both sides of every boundary (one byte, two bytes, the continuation
  bit of the word, each further group) are small integers. Two items are
  written: enough for one to be misread into the other. The header byte keeps
  its real layout but for a label field of two bits instead of three
  (`LabelRange = 4`), and is wider than the other bytes; in the code its fields
  fill it exactly. The proofs take any width.
- *Labels* are shorter than 3 instead of 8: a branch of four characters is both
  collapsed and cut, which is all a longer limit does. The proofs do not depend
  on the number.
- *Builder inputs*: all pairs of ranges up to three suggestions of up to two
  characters with three ranks, up to two suggestions of four characters, and
  ranges of different sizes; two characters are enough for two branches. Ranks
  0, 1 and 20 have differences of zero, one and four bytes when a byte has two
  bits, so every relative field takes every width. Characters are not ordered
  for the builder, which never compares their order.
- *Queries*: every sorted input up to two suggestions, and three shapes of four
  that contain the cases of the readers (a cut label, a leaf beside its father's
  other children, repeated suggestions, the empty suggestion, siblings of equal
  rank); every argument of up to three characters and longer ones that go
  beyond the trie.
- *Scores*: up to five completions with five scores, three of them equivalent
  and different, so that `std::unique` leaves a repeated score.
- One call per behaviour: a reader changes nothing that another one sees.
- *Store*: two programs, of one kind or of two that differ in the type of the
  scores, the endianness or the major release; with a writer and a reader, or
  two writers, every pair of steps interleaves. The two tries give files of one
  size with different segments, and one has no score table, so that segments
  of one taken for the other's are seen. A byte has seven values (`Radix`). The numbers of a header take two bytes
  each instead of four or eight, and the minor and the patch number are left
  out, which nothing reads; the initials take one byte or two, so that headers
  differ in size and bytes of one may be taken for the table or the trie of
  another. A write may be cut at two positions (`Cuts`, 8 and 13 bytes), which
  are before the segment of the trie and behind the header, or, with the longer
  initials, inside a number and at the end of the header; the proofs take any.
  `Storable`: only tries that were built are written, not the mixtures a read
  that was overlapped may return, which would only multiply the states.
- *Handles*: three tries (one changed, one that shares its Store, one that takes
  the address over), two iterators, two addresses, the empty trie and two that
  differ. Nothing counts or grows, so no bound cuts a behaviour short but the
  number of objects.

Symmetry is used in `MCTrieHandles` only, for tries, addresses and iterators,
which nothing tells apart; both its invariants and its refinement are safety
properties. The other runs name their characters and programs, and the liveness
run would not be sound with it. `CHECK_DEADLOCK FALSE`, where a configuration
has it, is right: the builder ends in `done` or `failed`, an iterator at its end
cannot be incremented, the reader of bytes stops at the end of the vector.
Programs with a file and tries never stop, and their runs check deadlock.

**Fairness.** `WF_allVars(Running)` says only that a call that has been made
goes on executing, which sequential code does. Making a call, building a trie
and incrementing an iterator are the caller's decisions and have no fairness.
`CallReturns` and `IncrementReturns` are thus termination of the loops. The
programs of `TrieStore` and `TrieHandles` have no fairness: they may crash, and
what is shown of them is safety.

**What the properties say.** *Builder*: `Implements` (each step of the builder
keeps the bag of entries the unfinished trie holds, and the finished trie is the
input), `RankIsLeast` (a node has the least rank below it: the iteration relies
on it), `Compact` (no byte of the trie belongs to no node or to two),
`SiblingsDiffer` (siblings start differently if equal prefixes are neighbours in
the input: the search relies on it), `Spine` and `OnlySizesThrow` (the internal
assertions hold and three of the exceptions cannot happen). *Reader*:
`CompletesAll` (refinement of `Completions`), `MismatchIsLongest`, `LeafIsFound`.
*Store*: `IsSafeFile` (refinement of `SafeFile`); `NoEmptyTrie` (a read makes no
empty trie, even while the file is rewritten, unless two programs wrote it at
once when its header was read: `MCEmptyTrie` shows what happens then); its
`TypeOK` says also that what a good stream has put ends where the header it put
first says (`InPlace`). *Handles*: `ValueSemantics`
(refinement of `TrieValues`: what is read through the raw pointers of a trie or
of a valid iterator is its value), `PointersOK`.
*Encoders*: `RoundTrip`, `Aligned`. *Scores*: `RanksFollowOrder`,
`RankLeadsToScore`, `EveryScoreRanked`.

## 4. Proofs

`tlapm M.tla` for each module `M` named `...Proofs` and for `SequenceLemmas`;
nothing is assumed but the named assumptions on constants.

| Module | Theorems |
|---|---|
| `TrieBuilderProofs` | `TypeCorrect`, `SpineHolds`, `NeverThrowsOtherwise` |
| `ScoresProofs` | `ScoresTypeCorrect`, `OrderKept`, `RankReadsBack`, `RankForEveryScore` |
| `NodeBytesProofs` | `NodeBytesTypeCorrect`, `EverythingIsReadBack`, `ReaderStaysAligned`, `HeaderFitsInByte` |
| `TrieContentProofs` | `ContentsHold`: what the bytes of every subtrie stand for; `TrieCompact`, `SiblingsAreTold`, `LeastRank`; `PromiseHolds`: `BuilderRefinement` implements `SuggestionBag` |
| `OrderedTrieProofs` | `CallsHold`, `LongestMatch`, `BestLeaf`; `VisitsHold`; `VisitsAreComplete`: `OrderedTrie` implements `Completions`; `ReaderTypeCorrect` |
| `TrieHandlesProofs` | `PointersNeverDangle`, `HandlesTypeCorrect`, `QueriesAreAnswered`; `TriesAreValues`: `TrieHandles` implements `TrieValues` |
| `TrieStoreProofs` | `StoreTypeCorrect`, `NoEmptyTrieIsRead`; `FileIsSafe`: `TrieStore` implements `SafeFile` |

**TrieBuilder**, for every alphabet, label limit, byte width and set of inputs,
in any order:

- `TypeCorrect`: `TypeOK`. Every label fits its header bits and no level is empty.
- `SpineHolds`: `Spine`. Between suggestions there is one level per character of
  the previous one plus one; the last node of each but the last is open, with
  its own character for a label and no children. So `merge_levels` has a father
  for every level and `add_children` is called once per node, never on a leaf.
- `NeverThrowsOtherwise`: `OnlySizesThrow`.

The inductive invariant `Inv` is the conjunction of the three. None is inductive
alone: the types do not say that a father exists or that its label has room,
the spine does, and that the spine is extended correctly needs the common prefix
to be within both strings (`LcpInReach`). `MergedLevels` and `ExtendedLevels`
say what one merge and one extension do to the levels; `SortedSiblings`,
`AddChildrenIsNode`, `OpenNodeTakesChildren` and `RootTakesChildren` what
`add_children` returns; then one lemma per action. Assumptions used:
`InputsAssumption` (the input is made of strings and numbers),
`MaxLabelSizeAssumption` (a label may have one character).

**What the builder's bytes stand for**, for every input in any order:
`ContentsHold`, i.e. `Contents`. What an invariant says of the bytes must be
local, or no step could be shown to keep it: it asks for
*notes*: a function from the address of every node to its absolute rank, where
its first child and the end of its siblings are, where its own subtrie and those
of all its siblings stop, how many characters stand before its label, which suggestions are below it, and which on it or a later
sibling. What makes notes right is local: a node agrees with the next sibling
and with its first child (`NotedAt`, `Follows`, `Begins`), its suggestions all
go on with its label and its rank is the least of theirs (`Carries`), and
another node leads to it (`Entered`). All distances are counted from the node,
so notes survive when a subtrie is moved. The argument follows the code:

- `SiblingLayout`: where `serialise_siblings` puts the headers and the subtries,
  widths and offsets of every size included; `Relocated` and `MergedNotes` carry
  the notes of the subtries there, and `SerialisedTree` puts the parts together
  (`RanksInOrder`: after the sort a relative rank is not negative).
- `ChildrenHold`: `add_children`, when it collapses an only child and when it
  serialises. `LevelForest`, `MergedHolds`: one iteration of `merge_levels`.
  `JoinedLevel`, `GrownLevel`, `NewLevel`, `ExtendedHolds`: a suggestion is added
  to the levels. `RootHolds`: the root, of which the readers know by its address.
- Each open level owns a block of consecutive suggestions (`LevelsHold`), since
  they are taken in order. If equal prefixes are neighbours, an older sibling's
  suggestions cannot start like a later one's (`Differs` under `GroupedIn`).

From the notes of the finished trie:

- `TrieCompact`: `Compact`. What `++` and `visit_children` lead to are nodes with
  notes (`OnlyNotedReached`), and every node with a note is led to
  (`AllNotedReached`, from `Entered`).
- `SiblingsAreTold`: `SiblingsDiffer`.
- What a reader finds below a node, the list `Leaves`, is defined by recursion
  over the number of steps that are left, a number, so it can be reasoned
  about: `LeavesListed` says what its equation says, and by induction over the
  steps (`AllListed`) the leaves below a node correspond one to one to the
  suggestions of its note (`Paired`), each leaf having the string and the rank of
  its suggestion (`Ends`). Notes of siblings share no suggestion (`Follows`), so
  no leaf is there twice. `HeldListed` says the same of an unfinished node.
- `LeastRank`: `RankIsLeast`, since the note has the least rank of its
  suggestions (`Carries`).
- `PromiseHolds`: `Implements`. The blocks of suggestions of the levels cover
  those taken so far and share none (`LevelsCover`); the labels of the open nodes
  spell the first characters of all that is in the levels below (`PathSpells`),
  so each level gives its block (`LevelListed`) and together they are the bag of
  the suggestions taken (`LevelsContent`), as is the finished trie
  (`TrieContentIs`). So a merge changes nothing, `Extend` adds one entry
  (`BagGrows`) and `MakeRoot` delivers (`PromiseKept`).

The calls, in `OrderedTrieProofs`:

- `CallsHold`: the invariant of the two loops of `prefix_match` and `find_leaf`
  (`MatchHolds`). Of the suggestions that agree with the string as far as it has
  been matched, all are below the node reached and have been spelled by the path
  to it, and no longer prefix of the string is a suggestion's once a search has
  failed. The search takes the first sibling that starts with a character
  (`FindSiblingFinds`), so the step to a child needs that no other sibling does.
- `LongestMatch` and `BestLeaf`: `MismatchIsLongest` and `LeafIsFound`, for inputs
  in which equal prefixes are neighbours (`Grouped`: sorted inputs are) and
  arguments without negative characters (`PlainString`). Without either the
  properties are false, which are two of the divergences below. The runs check
  the two properties under the same conditions, which their inputs meet.

- `VisitsAreComplete`: `CompletesAll`. Every iterator over siblings that a visit
  works with is an item (`IsItem`) that owns the suggestions its note has on it
  or, if it stands for one node alone, below it. `VisitHolds` says that the items
  of the queue and the one at hand share no suggestion, and that after a loop the
  top of the queue is a leaf; from it `VisitsHold`. So nothing is pushed that the
  queue has already, and a set (`frontier`) holds the same as the queue. `ItemNext` and `ItemChildren`
  say what `++` and `visit_children` do to an item, so that the loops lose nothing
  and repeat nothing (`AdvanceKeeps`) and `++it` takes one suggestion, which has
  the least rank of all that are to come (`IncrementTakes`, `TopStands`). Its
  string is the one `traverse_descending_path` spells (`PathIsSpelled`): among
  siblings the subtries stand one after the other, so the last one that does not
  start after the leaf has it (`HeadFound`, `LaterStand`). What the items own is
  what can still be reached through their addresses (`OwedAre`), which is what
  the mapping calls owed, and each step of the iterator is one of `Completions`
  or changes none of it (`PromiseSteps`). `complete` starts from the node that
  matched, which has below it the suggestions that agree with the prefix;
  this is where it needs `Grouped` and `PlainString`. `begin` needs neither.
- `ReaderTypeCorrect`: `ReaderTypeOK`, without either.

A loop over siblings is modelled by as many steps as the trie has bytes
(`After`), a value that an exhausted iterator no longer changes; that no loop
needs more is proved, since every step goes to a higher address (`LoopRuns`,
`WalkStops`). Further assumptions: `PadAssumption` (a byte inside a node is not
taken for a header), `TopBitAssumption`, `QueriesAssumption` (arguments are
strings).

**Scores**, for every type of scores and every comparison that is irreflexive:
`ScoresTypeCorrect`, `OrderKept`, `RankReadsBack` and `RankForEveryScore`. The invariant adds to the
properties that the sequence is sorted and holds the scores of the completions,
that a score with a rank stands before all positions not yet written (`Behind`:
so a new rank, the end of the table, exceeds those of all better scores), and
that a position that is not to be written repeats its neighbour or has a rank
(`Covered`). `RankReadsBack` says that all bytes of a score's encoding stand in
the table from its rank on (`ReadsAt`), as deserialising there needs them. Assumption: an encoded score takes at least one byte.

**NodeBytes**, for bytes and labels of every width, all ranks and offsets of
eight bytes and any number of items, on a little-endian machine:
`NodeBytesTypeCorrect` (no byte overflows, the reader stays in the vector),
`EverythingIsReadBack` (`RoundTrip`) and `ReaderStaysAligned` (`Aligned`).
`HeaderFitsInByte`: with the widths of the code the four fields of a header fill
a byte and no more. `RoundTrip` says nothing of where the reader is, so the
invariant adds that it stands at the first byte of the next item and that the
bytes of every item written still stand at the item's place (`ItemsStand`,
`Holds`): a later item is only appended, and reading needs nothing but the bytes
at its own address. The lemmas follow the layers of the code: division and
remainder (`DivisionTwice`, `QuotientReaches`), words in any byte order
(`WordIsRead`), the groups of a wide rank (`PutGroupsEnd`: all but the last
continue; `GroupsAreRead`), ranks and offsets (`RankIsRead`, `OffsetIsRead`),
the header (`FieldsAreSeparate`), nodes (`NodeIsRead`). The byte order is used
once, in `RankIsSkipped`: `skip` looks for the continuation bit of the word in
its fourth byte. The word and the groups are defined by recursive functions over
numbers, which is not induction over data: that such a function is what its
equation says is `RecursionDefines` of `SequenceLemmas`, proved there from the
least element of a set of numbers. Assumptions: `TopBitAssumption` (a byte has
two bits at least), `LabelRangeAssumption` and `LabelsAssumption` (a label fits
its field), `ValuesAssumption` (a value fits in eight bytes).

**TrieHandles**, for any number of tries, iterators and addresses, and any
contents: `PointersNeverDangle`, i.e. `PointersOK`. A Store is at an address if
and only if a trie owns it; a trie that owns a Store has both raw pointers into
it; a valid iterator's trie owns the Store the iterator walks. The invariant is
this and the types the argument needs. `HandlesKept` carries it: an operation
after which every owning trie is equal to one that was there before frees
nothing that is pointed to; copies, moves, assignments (to oneself too) and
destruction are instances (`SetKeeps`), and a new Store lies where none was
(`OpenKeeps`). `HandlesTypeCorrect` adds the types of the iterators, valid or
not, and that the leaves left to a valid one are entries of the Store it walks
(`LeavesStand`): what changes tries only frees a Store or builds one where none is. Assumptions: the empty trie is a content; `Null`, `Free` and `Gone` are none
of an address, a content and a handle.

`TriesAreValues`, that they implement `TrieValues`: every operation on handles,
raw pointers and shared Stores is the operation on values of the same name. The
mapping reads a trie's value from the Store it owns and an iterator's entries
from the Store it points to, which `PointersOK` makes the same thing: what frees
a Store, or has a new one built at an address used before, changes the value of
no trie that lives and the entries of no iterator that is valid. An
iterator's leaves are the wanted positions of its content in their order, so
the content and what is enumerated correspond position by position. `Complete`
chooses such an enumeration; `QueriesAreAnswered` shows that every content has
one, so the choice blocks no call. Further assumptions: a content is a sequence
of entries (`ContentIsSequences`), and what stands for no value, no iterator or
an unspecified trie is no value (`ValuesDiffer`, `NoIteratorIsNoCursor`).

**TrieStore**, for any number of programs, any kinds (initials of any length),
any tries, any number of values of a byte and writes cut at any byte:

- `StoreTypeCorrect`: `TypeOK`. The invariant adds how far each step of `write`
  has come (`Length`): what a good stream has passed on and buffered is so long
  (`StreamOK`), which the segments of the header are compared with
  (`SegmentsInPlace`).
- `NoEmptyTrieIsRead`: `NoEmptyTrie`. While no two writes have been in each
  other's way (`FileIsBegun`), the file is the beginning of the encoding of one
  trie: of what the only writer has put into its stream and the stream has passed
  on (`SoleWriter`), or of what the last one left (`Left`). So a header that is
  accepted is one that a program of the reader's own kind wrote, all of it
  (`AcceptedIsOwn`: the initials of one kind do not begin like another's, and a
  number is what its bytes say, `WordIs`), and the size of its trie is not 0
  (`HasTrie`). Whatever is in the file when the trie itself is read, that many
  bytes are read or none.
- `FileIsSafe`: `IsSafeFile`, the refinement of `SafeFile`. A read that no
  write overlaps has taken all its segments from one such beginning (`CleanRead`),
  so it has the whole trie or finds the file too short and refuses it
  (`EncodingReads`, `BegunIsWhole`); a file is the encoding of one trie by one
  kind (`EncodingIsOne`), and another kind's header is refused by its initials,
  its endianness or its major release. Only an overlapped read, or one of a
  muddled file, may return anything.

Assumptions: a byte has three values at least, for the hole and the two
endiannesses (`RadixAssumption`); tries that are built or written are bytes with
at least that of the root (`BuiltAssumption`); what is written fits into the
numbers of the header (`StorableAssumption`); a kind is its three fields and
no initials begin like all of another's (`KindAssumption`: they end with a newline,
which a format identifier is assumed not to contain); and the values that stand
for no file and for nothing stored are no others (`NoFileHasNoBytes`,
`NothingIsStored`).

**Only model-checked.** Liveness (`CallReturns`, `IncrementReturns`): the
provers cannot reason about fairness. Every invariant and every refinement that
a run checks is proved.

## 5. Not modelled

- A segment that is fetched in several parts: a read takes the bytes of a segment
  at once, which `from_file` does of a header by one read of the system unless the
  file ends inside it.
- Losing power: what a crashed program has passed to the operating system is in
  the file. Errors of the device while reading, and a file that someone removes
  or edits by other means. It is assumed that
  after an error that a stream has noticed no more of its bytes reach the file:
  a library whose destructor tries again, on a device that has recovered, might
  append bytes out of order to a file whose `write` has thrown.
- Using a trie that was moved from: it keeps raw pointers into a Store it does
  not own (`Moved`), so asking it anything reads freed memory once the trie it
  was moved to is gone. The model leaves it to be copied, assigned or destroyed.
- An iterator whose trie was assigned, moved or destroyed may not be used: it
  looks up its string and score through its trie's address, whoever keeps the
  Store alive. This includes ranges over a temporary trie.
- Big-endian machines: `RankEncoder::skip` looks for the first continuation bit
  in the fourth byte of the word (`varint.hpp:158`), where a big-endian machine
  has the least significant one. With `BigEndian = TRUE` in `MCNodeBytes.cfg`
  TLC finds `Aligned` violated; the runs take a little-endian machine.
- *Custom serialisers*: the user's; `Scores` takes the width as a parameter.
- *Metadata* other than `Void`: `OrderedTrie` uses no other, and it takes no
  bytes. The metadata range has always the size of the suggestions'.
- Score values as bytes: a rank stands for the score it leads to in
  `OrderedTrie`; `Scores` shows that it does. Sizes near 2^64 and memory
  exhaustion are not modelled.
- `ordered_visit` and the `make_ordered_trie` wrappers, which only forward.

## 6. Divergences found

| Run | Comment | Code |
|---|---|---|
| `MCUnsortedInput` | `ordered_trie.hpp:217`: unsorted input raises an exception | the builder never compares the order of two suggestions |
| `MCCountTimes` | `ordered_trie.hpp:180`: `count` returns the number of times a suggestion appears | returns 0 or 1 |
| `MCSignedChar` | `ordered_trie.hpp:136`: `mismatch` returns the longest matching prefix | where `char` is signed, a `std::uint8_t` of a label is compared with a negative `char`: bytes from 0x80 on never match, so suggestions in UTF-8 are enumerated by `begin` but not found |
| `MCUnreportedFlush` | `ordered_trie.hpp:192`: `write` writes the trie to the file; `store.hpp:449` throws if it cannot | the stream is tested before its destructor flushes the rest: when that fails, `write` returns normally and the file is torn (`MCTrieStore` shows that such a file is refused by every later read that no write overlaps) |
| `MCIteratorEquality` | `README.md:51` of the repository: `complete` returns a Forward Range | `operator ==` compares two visitors as the Booleans they convert to: any two iterators of a trie that are not at their end are equal (`impl.hpp:247`) |
| `MCEmptyTrie` | `impl.hpp:380` asserts that a Store that was read has a trie | a trie segment of size 0 is refused only if its offset is not 0 (`store.hpp:357`); two programs that write at once, with a header that reaches the file in part, leave one that ends in a hole of zeros, which is accepted |

One more that no run shows: `varint.hpp:48` says that a rank beyond 32 bits
throws, and it is encoded (and read back, as `RoundTrip` says of such ranks too).

The other runs take `NegativeChar = {}`, i.e. text in ASCII or an unsigned `char`.

## 7. Plan

In this order; 1 to 9 are done.

1. Encoders and nodes: `Varint`, `NodeBytes`, `TrieNode`.
2. Builder with its refinement and proofs; score table with its proofs.
3. Readers: `TrieMatch`, `LeavesIterator`, `OrderedTrie` with the refinement of
   `Completions` and termination.
4. `TrieStore` and `SafeFile`: the file, its programs and their faults.
5. `TrieHandles` and `TrieValues`, with the proof that pointers never dangle.
6. Proofs about bytes, files and objects: the encoders and nodes for every
   width, that tries are values, that the file is safe.
7. Proofs about the builder's bytes and the readers: what every subtrie stands for, its
   layout, and the answers of `mismatch`, `count` and `score`.
8. Proofs about what the builder's bytes hold: `RankIsLeast` and the refinement
   of `SuggestionBag`.
9. Proofs about the iteration: `CompletesAll`, from notes that also say where a
   subtrie ends, and `ReaderTypeOK`.
10. Metadata other than `Void` in the builder, if the library comes to use any.
