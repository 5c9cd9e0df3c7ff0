------------------------------- MODULE Varint -------------------------------
(***************************************************************************)
(* The two variable-length integer encoders of ordered_trie_varint.hpp:    *)
(* OffsetEncoder (children offsets) and RankEncoder (ranks).  A codeword   *)
(* is a sequence of bytes; its tag (wordsize_t) is kept apart, in the      *)
(* header of the node that holds the codeword.                             *)
(*                                                                         *)
(* The width of a byte is a parameter, given by the weight of its top bit: *)
(* 128 in the code, less in the runs, so that every range of the encoders  *)
(* is reached by small integers.  Shifts and masks are divisions and       *)
(* remainders.                                                             *)
(***************************************************************************)
EXTENDS Integers, Sequences, FiniteSetsExt

CONSTANTS
  TopBit,     \* the weight of the top bit of a byte: 2^7 in the code
  BigEndian   \* byte order of the machine: the encoders memcpy whole words

ASSUME TopBitAssumption == TopBit \in Nat \ {0, 1}
ASSUME BigEndianAssumption == BigEndian \in BOOLEAN

EMPTY  == 0
UINT8  == 1
UINT16 == 2
UINT64 == 3
Tag    == {EMPTY, UINT8, UINT16, UINT64}

Base == 2 * TopBit
Byte == 0 .. Base - 1

(* The number of values that k bytes can hold. *)
Capacity[k \in Nat] == IF k = 0 THEN 1 ELSE Base * Capacity[k - 1]

(* The values an unsigned integer of k bytes can hold. *)
UInt(k) == 0 .. Capacity[k] - 1

-----------------------------------------------------------------------------
(* SerialiseArithmetic: memcpy of a k-byte word to and from memory.        *)

Place(k, i) == IF BigEndian THEN k - 1 - i ELSE i

PutWord(k, n) ==
  [i \in 1 .. k |-> (n \div Capacity[Place(k, i - 1)]) % Base]

GetWord(k, in, at) ==
  LET top[i \in 0 .. k] ==  \* the value of the i most significant bytes
        IF i = 0 THEN 0 ELSE top[i - 1] * Base + in[at + Place(k, k - i)]
  IN  top[k]

-----------------------------------------------------------------------------
(* Both encoders choose the tag by the same comparisons. *)
TagOf(n) ==
  IF n = 0 THEN EMPTY
  ELSE IF n \in UInt(1) THEN UINT8
  ELSE IF n \in UInt(2) THEN UINT16
  ELSE UINT64

(* OffsetEncoder::codeword_size *)
CodewordSize(tag) ==
  CASE tag = EMPTY -> 0 [] tag = UINT8 -> 1 [] tag = UINT16 -> 2 [] OTHER -> 8

(* OffsetEncoder::serialise, deserialise and skip *)
PutOffset(n) == PutWord(CodewordSize(TagOf(n)), n)
GetOffset(in, at, tag) == GetWord(CodewordSize(tag), in, at)
SkipOffset(at, tag) == at + CodewordSize(tag)

-----------------------------------------------------------------------------
(* RankEncoder: a rank wider than two bytes is written as a four-byte word *)
(* that holds the low bits and a continuation bit at its top, followed by  *)
(* groups of one byte, each with a continuation bit at its top.            *)

(* The weight of the top bit of a word. *)
WordTop == TopBit * Capacity[3]

Continues(byte) == byte >= TopBit

(* Mutant: the continuation bit is added to the byte as it is. *)
PutGroupsUnmasked(higher) ==
  LET groups[h \in Nat] ==
        IF h = 0 THEN <<>>
        ELSE <<(h % Base) + (IF h >= TopBit THEN TopBit ELSE 0)>>
               \o groups[h \div TopBit]
  IN  groups[higher]

(* The loop over "higher". *)
PutGroups(higher) ==
  LET groups[h \in Nat] ==
        IF h = 0 THEN <<>>
        ELSE <<(h % TopBit) + (IF h >= TopBit THEN TopBit ELSE 0)>>
               \o groups[h \div TopBit]
  IN  groups[higher]

(* RankEncoder::serialise *)
PutRank(n) ==
  IF TagOf(n) # UINT64
  THEN PutWord(CodewordSize(TagOf(n)), n)
  ELSE LET higher == n \div WordTop
       IN  PutWord(4, (n % WordTop) + (IF higher > 0 THEN WordTop ELSE 0))
             \o PutGroups(higher)

(* The first address from at on whose byte has no continuation bit, where  *)
(* the while loops of deserialise and skip stop.  A loop that finds none   *)
(* leaves the vector (undefined in the code): it is cut at the last byte.  *)
LastByte(in, at) ==
  Min({a \in at .. Len(in) : ~Continues(in[a])} \cup {Len(in)})

(* Mutant: every group is added to the lowest bits above the word. *)
GetGroupsUnshifted(in, first) ==
  LET last == LastByte(in, first)
      from[a \in 1 .. last + 1] ==
        IF a > last THEN 0 ELSE (in[a] % TopBit) + from[a + 1]
  IN  from[first]

(* The groups from first on, up to the last one. *)
GetGroups(in, first) ==
  LET last == LastByte(in, first)
      from[a \in 1 .. last + 1] ==
        IF a > last THEN 0 ELSE (in[a] % TopBit) + TopBit * from[a + 1]
  IN  from[first]

(* RankEncoder::deserialise *)
GetRank(in, at, tag) ==
  IF tag # UINT64
  THEN GetWord(CodewordSize(tag), in, at)
  ELSE LET word == GetWord(4, in, at)
       IN  IF word < WordTop THEN word
           ELSE (word % WordTop) + WordTop * GetGroups(in, at + 4)

(* Mutant: the search starts after the word. *)
SkipRankLate(in, at, tag) ==
  IF tag # UINT64
  THEN at + CodewordSize(tag)
  ELSE LastByte(in, at + 4) + 1

(* RankEncoder::skip looks for the end of the codeword from its fourth     *)
(* byte on, where a little-endian machine has put the top of the word.     *)
SkipRank(in, at, tag) ==
  IF tag # UINT64
  THEN at + CodewordSize(tag)
  ELSE LastByte(in, at + 3) + 1

(* Lengths of the codewords of n. *)
OffsetSize(n) == CodewordSize(TagOf(n))
RankSize(n) ==
  IF TagOf(n) # UINT64
  THEN CodewordSize(TagOf(n))
  ELSE 4 + Len(PutGroups(n \div WordTop))
=============================================================================
