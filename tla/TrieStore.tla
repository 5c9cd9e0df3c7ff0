------------------------------ MODULE TrieStore -----------------------------
(***************************************************************************)
(* class Store (ordered_trie_store.hpp): write and from_file, as programs  *)
(* that share one file run them.  A file is a header, the score table and  *)
(* the serialised trie, one after the other.                               *)
(*                                                                         *)
(* write goes through an ofstream: bytes reach the file from its buffer,   *)
(* in order, at any time until the stream is closed by its destructor.     *)
(* from_file reads three segments, each after a seekg that drops what was  *)
(* buffered.  Programs crash, devices fill up, and nothing keeps two       *)
(* programs from using the file at once.                                   *)
(***************************************************************************)
EXTENDS Integers, Sequences, FiniteSetsExt

CONSTANTS
  Program,     \* programs that share the file
  Kinds,       \* for each p, what it was compiled for: the initials that
               \* name the type of its scores, endianness and major release
  Built,       \* the tries that programs construct
  Storable,    \* bound: the tries that programs write
  Radix,       \* bound: values of a byte, 256 in the code
  Cuts,        \* bound: positions up to which part of a write may reach
  NoFile,      \* the file does not exist
  NoTrie,      \* a program holds no trie
  Nothing, Anything  \* see SafeFile

ASSUME RadixAssumption == Radix \in Nat \ {0, 1, 2}

Byte == 0 .. Radix - 1

(* A byte that was skipped and never written. *)
Hole == 0

(* enum class Endianness *)
LITTLE == 1
BIG    == 2

(* Bound: the numbers of a header take two bytes each instead of four or   *)
(* eight, enough for one to be torn.                                       *)
WordSize == 2
Word == 0 .. Radix * Radix - 1

(* A trie in memory.  That of a file may have any bytes, or none at all. *)
Trie == [table : Seq(Byte), trie : Seq(Byte)]

(* move_to_trie returns at least the byte of the root.  The constructor    *)
(* asserts that a trie has bytes, so none without is written.              *)
ASSUME BuiltAssumption ==
  \A t \in Built \cup Storable : t \in Trie /\ t.trie # <<>>

(* What a program was compiled for. *)
Kind == UNION {{k[p] : p \in Program} : k \in Kinds}

(* The newline at the end of the initials: those of one type do not begin  *)
(* like all of another's.                                                  *)
ASSUME KindAssumption ==
  /\ \A k \in Kind :
       /\ k = [type |-> k.type, endianness |-> k.endianness, major |-> k.major]
       /\ k.type \in Seq(Byte) \ {<<>>}
       /\ k.endianness \in {LITTLE, BIG}
       /\ k.major \in Word
  /\ \A j, k \in Kind :
       /\ Len(j.type) <= Len(k.type)
       /\ \A i \in 1 .. Len(j.type) : j.type[i] = k.type[i]
       => j.type = k.type

(* serialised_header_size *)
HeaderSize(k) == Len(k.type) + 1 + 5 * WordSize

(* The offsets and sizes of what is written fit into the header. *)
ASSUME StorableAssumption ==
  /\ NoTrie \notin Storable
  /\ \A k \in Kind, t \in Storable :
       HeaderSize(k) + Len(t.table) + Len(t.trie) \in Word

ASSUME CutsAssumption == Cuts \subseteq Nat

(* What stands for something else is none of it. *)
ASSUME NoFileHasNoBytes == NoFile \notin Seq(Byte)
ASSUME NothingIsStored ==
  /\ Nothing # Anything
  /\ Nothing \notin [kind : Kind, trie : Storable]

VARIABLES
  file,    \* the bytes of the file, or NoFile
  kind,    \* kind[p]: what p was compiled for
  holds,   \* holds[p]: the Store of p, its two byte vectors
  pc,      \* pc[p]: the next step of write or from_file
  buffer,  \* buffer[p]: bytes put into the stream and not in the file yet
  at,      \* at[p]: the position of the stream in the file
  bad,     \* the programs whose stream is not good
  faulty,  \* the writing programs whose device has failed
  header,  \* header[p]: the header p has read
  table,   \* table[p]: the score table p has read
  muddled,     \* history: the last write began while another was running
  overlapped,  \* history: the programs whose read overlaps a write
  misled       \* history: the programs that took the header of a muddled
               \* file for one, and hold no trie built since

memory  == <<kind, holds>>
streams == <<buffer, at, bad, faulty>>
reads   == <<header, table>>
history == <<muddled, overlapped, misled>>
vars == <<file, memory, pc, streams, reads, history>>

-----------------------------------------------------------------------------
NoSegment == [first |-> 0, size |-> 0]

(* Mutant: the segment of the trie is set only if there is a table. *)
HeaderOfTable(k, trie) ==
  IF trie.table = <<>> THEN [table |-> NoSegment, trie |-> NoSegment]
  ELSE [table |-> [first |-> HeaderSize(k), size |-> Len(trie.table)],
        trie  |-> [first |-> HeaderSize(k) + Len(trie.table),
                   size  |-> Len(trie.trie)]]

(* Mutant: the initials are not counted. *)
HeaderFromZero(k, trie) ==
  [table |-> IF trie.table = <<>> THEN NoSegment
             ELSE [first |-> HeaderSize(k) - Len(k.type), size |-> Len(trie.table)],
   trie  |-> [first |-> HeaderSize(k) - Len(k.type) + Len(trie.table),
              size |-> Len(trie.trie)]]

(* The segments; the other fields are those of the kind. *)
Header(k, trie) ==
  [table |-> IF trie.table = <<>> THEN NoSegment
             ELSE [first |-> HeaderSize(k), size |-> Len(trie.table)],
   trie  |-> [first |-> HeaderSize(k) + Len(trie.table), size |-> Len(trie.trie)]]

Segment == [first : Nat, size : Nat]
Headers == [table : Segment, trie : Segment]

(* memcpy of a number, in the byte order of the machine. *)
WordBytes(order, n) ==
  IF order = LITTLE THEN <<n % Radix, n \div Radix>>
  ELSE <<n \div Radix, n % Radix>>

(* serialise.  The minor and the patch number, which nothing looks at, are *)
(* left out.                                                               *)
HeaderBytes(k, h) ==
  k.type \o <<k.endianness>>
         \o WordBytes(k.endianness, k.major)
         \o WordBytes(k.endianness, h.table.first)
         \o WordBytes(k.endianness, h.table.size)
         \o WordBytes(k.endianness, h.trie.first)
         \o WordBytes(k.endianness, h.trie.size)

(* get_header: the number that starts n words behind the endianness. *)
WordAt(k, n) ==
  LET offset == Len(k.type) + 1 + n * WordSize
      low  == IF k.endianness = LITTLE THEN 1 ELSE 2
      high == IF k.endianness = LITTLE THEN 2 ELSE 1
  IN  file[offset + low] + Radix * file[offset + high]

HeaderRead(k) ==
  [table |-> [first |-> WordAt(k, 1), size |-> WordAt(k, 2)],
   trie  |-> [first |-> WordAt(k, 3), size |-> WordAt(k, 4)]]

(* A write to the operating system: it may leave a hole before offset. *)
Written(old, offset, bytes) ==
  IF bytes = <<>> THEN old
  ELSE [i \in 1 .. Max({Len(old), offset + Len(bytes)}) |->
          IF i \in offset + 1 .. offset + Len(bytes) THEN bytes[i - offset]
          ELSE IF i <= Len(old) THEN old[i] ELSE Hole]

(* The file has all the bytes of the segment; else the read meets its end  *)
(* and the stream, whose exceptions are enabled, throws.                   *)
Has(segment) == segment.first + segment.size <= Len(file)

Bytes(segment) ==
  SubSeq(file, segment.first + 1, segment.first + segment.size)

-----------------------------------------------------------------------------
(* A stream that is bad ends write with an exception; either way the       *)
(* destructor of the stream runs last.                                     *)
Writing == {p \in Program : pc[p] \in {"header", "table", "trie", "close"}}
Reading == {p \in Program : pc[p] \in {"get header", "get table", "get trie"}}

Goto(p, step) == pc' = [pc EXCEPT ![p] = step]

Init ==
  /\ file = NoFile
  /\ kind \in Kinds
  /\ holds = [p \in Program |-> NoTrie]
  /\ pc = [p \in Program |-> "idle"]
  /\ buffer = [p \in Program |-> <<>>]
  /\ at = [p \in Program |-> 0]
  /\ bad = {}
  /\ faulty = {}
  /\ header = [p \in Program |-> Nothing]
  /\ table = [p \in Program |-> <<>>]
  /\ muddled = FALSE
  /\ overlapped = {}
  /\ misled = {}

(* from_memory, with what a constructor of OrderedTrie made. *)
FromMemory(p, trie) ==
  /\ pc[p] = "idle"
  /\ holds' = [holds EXCEPT ![p] = trie]
  /\ misled' = misled \ {p}
  /\ UNCHANGED <<file, kind, pc, streams, reads, muddled, overlapped>>

-----------------------------------------------------------------------------
(* Mutant: the file is opened without trunc. *)
OpenWriteOver(p) ==
  /\ pc[p] = "idle"
  /\ holds[p] \in Storable
  /\ file' = IF file = NoFile THEN <<>> ELSE file
  /\ at' = [at EXCEPT ![p] = 0]
  /\ Goto(p, "header")
  /\ muddled' = (Writing # {})
  /\ overlapped' = overlapped \cup Reading
  /\ UNCHANGED <<memory, buffer, bad, faulty, reads, misled>>

(* write.  The stream is opened with trunc.  If it cannot be opened the    *)
(* header is not written either, and an exception leaves all as it was.    *)
OpenWrite(p) ==
  /\ pc[p] = "idle"
  /\ holds[p] \in Storable
  /\ file' = <<>>
  /\ at' = [at EXCEPT ![p] = 0]
  /\ Goto(p, "header")
  /\ muddled' = (Writing # {})
  /\ overlapped' = overlapped \cup Reading
  /\ UNCHANGED <<memory, buffer, bad, faulty, reads, misled>>

(* How many of these bytes may get to the file: none, all, or some. *)
Parts(p, bytes) ==
  {n \in 0 .. Len(bytes) : n \in {0, Len(bytes)} \/ at[p] + n \in Cuts}

(* ostream::write: the first n bytes of the buffer and of the argument get *)
(* to the file, and the rest is kept.  On a device that has failed the     *)
(* rest is lost and the stream turns bad, unless all fits into the buffer. *)
(* A bad stream ignores what is put into it.                               *)
Put(p, bytes) ==
  LET all == buffer[p] \o bytes
      reach(n) ==
        /\ file' = Written(file, at[p], SubSeq(all, 1, n))
        /\ at' = [at EXCEPT ![p] = @ + n]
  IN  \/ /\ p \in bad
         /\ UNCHANGED <<file, buffer, at, bad>>
      \/ /\ p \notin bad
         /\ \E n \in IF p \in faulty THEN {0} ELSE Parts(p, all) :
              /\ reach(n)
              /\ buffer' = [buffer EXCEPT ![p] = SubSeq(all, n + 1, Len(all))]
         /\ UNCHANGED bad
      \/ /\ p \in faulty \ bad
         /\ \E n \in Parts(p, all) \ {Len(all)} : reach(n)
         /\ bad' = bad \cup {p}
         /\ buffer' = [buffer EXCEPT ![p] = <<>>]

(* put_header and the last lines of write throw if the stream is bad.      *)
PutHeader(p) ==
  /\ pc[p] = "header"
  /\ Put(p, HeaderBytes(kind[p], Header(kind[p], holds[p])))
  /\ Goto(p, IF p \in bad' THEN "close" ELSE "table")
  /\ UNCHANGED <<memory, faulty, reads, history>>

PutTable(p) ==
  /\ pc[p] = "table"
  /\ IF holds[p].table = <<>>
     THEN UNCHANGED <<file, buffer, at, bad>>
     ELSE Put(p, holds[p].table)
  /\ Goto(p, "trie")
  /\ UNCHANGED <<memory, faulty, reads, history>>

PutTrie(p) ==
  /\ pc[p] = "trie"
  /\ Put(p, holds[p].trie)
  /\ Goto(p, "close")
  /\ UNCHANGED <<memory, faulty, reads, history>>

EndWrite(p) ==
  /\ Goto(p, "idle")
  /\ buffer' = [buffer EXCEPT ![p] = <<>>]
  /\ at' = [at EXCEPT ![p] = 0]
  /\ bad' = bad \ {p}
  /\ faulty' = faulty \ {p}

(* The destructor flushes the buffer and reports nothing.                  *)
Close(p) ==
  /\ pc[p] = "close"
  /\ \E n \in IF p \in faulty THEN Parts(p, buffer[p]) ELSE {Len(buffer[p])} :
       file' = Written(file, at[p], SubSeq(buffer[p], 1, n))
  /\ EndWrite(p)
  /\ UNCHANGED <<memory, reads, history>>

(* The disk is full, or the device fails, while p writes. *)
Fault(p) ==
  /\ p \in Writing
  /\ faulty' = faulty \cup {p}
  /\ UNCHANGED <<file, memory, pc, buffer, at, bad, reads, history>>

-----------------------------------------------------------------------------
(* from_file.  Without a file it throws at once and nothing changes.       *)
OpenRead(p) ==
  /\ pc[p] = "idle"
  /\ file # NoFile
  /\ Goto(p, "get header")
  /\ overlapped' = IF Writing = {} THEN overlapped ELSE overlapped \cup {p}
  /\ UNCHANGED <<file, memory, streams, reads, muddled, misled>>

(* The end of from_file: an exception leaves the trie there was. *)
Return(p, trie) ==
  /\ holds' = [holds EXCEPT ![p] = trie]
  /\ header' = [header EXCEPT ![p] = Nothing]
  /\ table' = [table EXCEPT ![p] = <<>>]
  /\ overlapped' = overlapped \ {p}
  /\ Goto(p, "idle")

Refuse(p) == Return(p, holds[p])

(* get_header looks at the initials and the endianness, from_file at the   *)
(* major release number and at the segment of the trie.                    *)
Accepts(k) ==
  /\ Len(file) >= HeaderSize(k)
  /\ SubSeq(file, 1, Len(k.type)) = k.type
  /\ file[Len(k.type) + 1] = k.endianness
  /\ WordAt(k, 0) = k.major
  /\ ~ (HeaderRead(k).trie.first # 0 /\ HeaderRead(k).trie.size = 0)

(* Abstraction: the bytes of a segment are fetched at once.                *)
ReadHeader(p) ==
  /\ pc[p] = "get header"
  /\ IF Accepts(kind[p])
     THEN /\ header' = [header EXCEPT ![p] = HeaderRead(kind[p])]
          /\ Goto(p, "get table")
          /\ misled' = IF muddled THEN misled \cup {p} ELSE misled
          /\ UNCHANGED <<holds, table, overlapped>>
     ELSE Refuse(p) /\ UNCHANGED misled
  /\ UNCHANGED <<file, kind, streams, muddled>>

ReadTable(p) ==
  LET segment == header[p].table
  IN  /\ pc[p] = "get table"
      /\ IF segment.first = 0 \/ (segment.size # 0 /\ Has(segment))
         THEN /\ table' = [table EXCEPT ![p] =
                             IF segment.first = 0 THEN <<>> ELSE Bytes(segment)]
              /\ Goto(p, "get trie")
              /\ UNCHANGED <<holds, header, overlapped>>
         ELSE Refuse(p)
      /\ UNCHANGED <<file, kind, streams, muddled, misled>>

ReadTrie(p) ==
  LET segment == header[p].trie
  IN  /\ pc[p] = "get trie"
      /\ IF Has(segment)
         THEN Return(p, [table |-> table[p], trie |-> Bytes(segment)])
         ELSE Refuse(p)
      /\ UNCHANGED <<file, kind, streams, muddled, misled>>

-----------------------------------------------------------------------------
(* A program dies: what its stream has not put into the file is lost.      *)
Crash(p) ==
  /\ EndWrite(p)
  /\ holds' = [holds EXCEPT ![p] = NoTrie]
  /\ header' = [header EXCEPT ![p] = Nothing]
  /\ table' = [table EXCEPT ![p] = <<>>]
  /\ overlapped' = overlapped \ {p}
  /\ misled' = misled \ {p}
  /\ UNCHANGED <<file, kind, muddled>>

Next ==
  \E p \in Program :
    \/ \E trie \in Built : FromMemory(p, trie)
    \/ OpenWrite(p)
    \/ PutHeader(p)
    \/ PutTable(p)
    \/ PutTrie(p)
    \/ Close(p)
    \/ Fault(p)
    \/ OpenRead(p)
    \/ ReadHeader(p)
    \/ ReadTable(p)
    \/ ReadTrie(p)
    \/ Crash(p)

Spec == Init /\ [][Next]_vars

-----------------------------------------------------------------------------
(* The segments of a header are where write puts them: what is in the file *)
(* and in the buffer of a good stream ends where the next segment starts.  *)
InPlace(p) ==
  LET h   == Header(kind[p], holds[p])
      end == at[p] + Len(buffer[p])
  IN  /\ pc[p] = "table" => h.table.first \in {0, end}
      /\ pc[p] = "trie"  => h.trie.first = end
      /\ pc[p] = "close" => h.trie.first + h.trie.size = end

(* Types.  Memory and file are bytes.  Streams are bad only after a fault, *)
(* which only a writer meets, and a good one has kept pace with the header *)
(* that write made before it put a byte.                                   *)
TypeOK ==
  /\ file = NoFile \/ file \in Seq(Byte)
  /\ kind \in Kinds
  /\ holds \in [Program -> Trie \cup {NoTrie}]
  /\ pc \in [Program -> {"idle", "header", "table", "trie", "close",
                         "get header", "get table", "get trie"}]
  /\ buffer \in [Program -> Seq(Byte)]
  /\ at \in [Program -> Nat]
  /\ bad \subseteq faulty
  /\ faulty \subseteq Writing
  /\ \A p \in Writing \ bad : InPlace(p)
  /\ header \in [Program -> Headers \cup {Nothing}]
  /\ table \in [Program -> Seq(Byte)]
  /\ muddled \in BOOLEAN
  /\ overlapped \subseteq Reading
  /\ misled \subseteq Program

(* A read makes no empty trie, though it overlap a write and though that   *)
(* write be torn by a crash or a fault, as long as no two programs wrote   *)
(* the file at once when the header was read.  A constructor relies on it: *)
(* without the bytes of a root it sets none of its members.                *)
NoEmptyTrie ==
  \A p \in Program \ misled : holds[p] # NoTrie => holds[p].trie # <<>>

(* The assertion on trie_data in the private constructor of OrderedTrie,   *)
(* for what from_file returns, whoever wrote the file.                     *)
TrieData ==
  \A p \in Program : holds[p] # NoTrie => holds[p].trie # <<>>

(* The file is the whole encoding of a trie by a program of kind k. *)
Encoding(k, trie) == HeaderBytes(k, Header(k, trie)) \o trie.table \o trie.trie

Encodings == [w \in [kind : Kind, trie : Storable] |-> Encoding(w.kind, w.trie)]

Encoded == {w \in DOMAIN Encodings : file = Encodings[w]}

(* What a read is to find. *)
Content ==
  IF muddled THEN Anything
  ELSE IF Writing = {} /\ Encoded # {} THEN CHOOSE w \in Encoded : TRUE
  ELSE Nothing

(* What the file promises is what a safe register does (SafeFile): a trie  *)
(* is read as it was written, and a file that a crash, a full disk or      *)
(* another kind of program left there is refused.                          *)
Register ==
  INSTANCE SafeFile
    WITH stored  <- Content,
         writers <- Writing,
         reading <- [p \in Program |->
                       IF p \notin Reading THEN "no"
                       ELSE IF p \in overlapped THEN "overlapped" ELSE "clean"]

IsSafeFile == Register!Spec

(* "Write serialised trie to file": when write returns and no other write  *)
(* ran meanwhile, the file is the encoding of the trie.                    *)
SuccessIsStored ==
  [][\A p \in Program :
       Close(p) /\ p \notin bad /\ ~ muddled
         => file' = Encoding(kind[p], holds[p])]_vars
=============================================================================
