------------------------------ MODULE SafeFile ------------------------------
(***************************************************************************)
(* What a trie written to a file promises to the programs that share the   *)
(* file: Lamport's safe register, with writes that may fail.  A read that  *)
(* no write overlaps returns what the last write stored, and is refused if *)
(* that write did not get to its end, or if another kind of program made   *)
(* it.  A read that overlaps a write may return anything, and so may all   *)
(* reads after writes that overlapped each other.                          *)
(***************************************************************************)
CONSTANTS Program, NoTrie, Nothing, Anything

VARIABLES
  kind,     \* what each program reads and writes
  holds,    \* the trie each program has in memory
  stored,   \* what the file holds: a kind and a trie, Nothing or Anything
  writers,  \* the programs that are writing
  faulty,   \* those of them whose device has failed
  reading   \* of each program: "no", "clean" or "overlapped"

vars == <<kind, holds, writers, faulty, reading, stored>>

Idle(p) == p \notin writers /\ reading[p] = "no"

(* The tries of the other programs are left alone. *)
OnlyHolds(p) ==
  /\ DOMAIN holds' = Program
  /\ \A q \in Program \ {p} : holds'[q] = holds[q]

Init ==
  /\ holds = [p \in Program |-> NoTrie]
  /\ stored = Nothing
  /\ writers = {}
  /\ faulty = {}
  /\ reading = [p \in Program |-> "no"]

Build(p) ==
  /\ Idle(p)
  /\ OnlyHolds(p)
  /\ UNCHANGED <<kind, writers, faulty, reading, stored>>

BeginWrite(p) ==
  /\ Idle(p)
  /\ holds[p] # NoTrie
  /\ writers' = writers \cup {p}
  /\ reading' = [q \in Program |->
                   IF reading[q] = "no" THEN "no" ELSE "overlapped"]
  /\ stored' = IF writers = {} THEN Nothing ELSE Anything
  /\ UNCHANGED <<kind, holds, faulty>>

Fault(p) ==
  /\ p \in writers
  /\ faulty' = faulty \cup {p}
  /\ UNCHANGED <<kind, holds, writers, reading, stored>>

(* The trie is in the file, or there is nothing that could be read. *)
Stores(p, mayFail) ==
  /\ writers' = writers \ {p}
  /\ faulty' = faulty \ {p}
  /\ IF stored = Anything
     THEN stored' = Anything
     ELSE \/ stored' = [kind |-> kind[p], trie |-> holds[p]]
          \/ mayFail /\ stored' = Nothing

EndWrite(p) ==
  /\ p \in writers
  /\ Stores(p, p \in faulty)
  /\ UNCHANGED <<kind, holds, reading>>

BeginRead(p) ==
  /\ Idle(p)
  /\ reading' = [reading EXCEPT ![p] =
                   IF writers = {} THEN "clean" ELSE "overlapped"]
  /\ UNCHANGED <<kind, holds, writers, faulty, stored>>

(* A read that is refused leaves the program with the trie it had. *)
EndRead(p) ==
  /\ reading[p] # "no"
  /\ reading' = [reading EXCEPT ![p] = "no"]
  /\ IF reading[p] = "overlapped" \/ stored = Anything
     THEN OnlyHolds(p)
     ELSE holds' = IF stored # Nothing /\ stored.kind = kind[p]
                   THEN [holds EXCEPT ![p] = stored.trie]
                   ELSE holds
  /\ UNCHANGED <<kind, writers, faulty, stored>>

(* A program may die at any time. *)
Crash(p) ==
  /\ holds' = [holds EXCEPT ![p] = NoTrie]
  /\ reading' = [reading EXCEPT ![p] = "no"]
  /\ IF p \in writers
     THEN Stores(p, TRUE)
     ELSE UNCHANGED <<writers, faulty, stored>>
  /\ UNCHANGED kind

Next ==
  \E p \in Program :
    \/ Build(p)
    \/ BeginWrite(p)
    \/ Fault(p)
    \/ EndWrite(p)
    \/ BeginRead(p)
    \/ EndRead(p)
    \/ Crash(p)

Spec == Init /\ [][Next]_vars
=============================================================================
