--------------------------- MODULE SequenceLemmas ---------------------------
(***************************************************************************)
(* Facts about numbers and sequences that several proofs need.             *)
(***************************************************************************)
EXTENDS Naturals, Sequences, SequenceTheorems, WellFoundedInduction, TLAPS

(* A set of numbers has a least element. *)
LEMMA LeastNumber ==
  ASSUME NEW T, T \subseteq Nat, T # {}
  PROVE  \E n \in T : \A m \in T : n <= m
<1>1. PICK n \in T : \A m \in T : <<m, n>> \notin OpToRel(<, Nat)
  BY WFMin, NatLessThanWellFounded, Zenon
<1>2. ASSUME NEW m \in T PROVE ~(m < n)
  <2>1. m \in Nat /\ n \in Nat /\ <<m, n>> \notin OpToRel(<, Nat)
    BY <1>1
  <2> QED
    BY <2>1, Zenon DEF OpToRel
<1> QED
  BY <1>2

(* A function over an interval that starts at 1 is a sequence. *)
LEMMA FunctionIsSeq ==
  ASSUME NEW n \in Nat, NEW S, NEW f \in [1 .. n -> S]
  PROVE  f \in Seq(S) /\ Len(f) = n
BY SeqDef

(* A recursion over numbers: the value at n follows from the one at        *)
(* next[n], which is less than n.                                          *)
IsRecursion(S, base, next, step) ==
  /\ base \in S
  /\ next \in [Nat -> Nat]
  /\ \A n \in Nat \ {0} : next[n] < n
  /\ step \in [Nat -> [S -> S]]

(* The start of a function that is defined by a recursion.                 *)
IsStart(f, n, S, base, next, step) ==
  /\ f \in [0 .. n -> S]
  /\ f[0] = base
  /\ \A m \in 1 .. n : f[m] = step[m][f[next[m]]]

(* Two starts of one recursion agree as far as both go. *)
LEMMA StartIsUnique ==
  ASSUME NEW S, NEW base, NEW next, NEW step,
         IsRecursion(S, base, next, step),
         NEW m \in Nat, NEW n \in Nat, NEW f, NEW g,
         IsStart(f, m, S, base, next, step), IsStart(g, n, S, base, next, step)
  PROVE  \A k \in 0 .. m : k <= n => f[k] = g[k]
<1> DEFINE T == {k \in Nat : k <= m /\ k <= n /\ f[k] # g[k]}
<1>1. CASE T = {}
  BY <1>1
<1>2. CASE T # {}
  <2>1. PICK k \in T : \A l \in T : k <= l
    BY <1>2, LeastNumber
  <2>2. k \in Nat \ {0}
    BY <2>1 DEF IsStart
  <2>3. next[k] \in Nat /\ next[k] < k
    BY <2>2 DEF IsRecursion
  <2>4. next[k] \notin T
    BY <2>1, <2>2, <2>3
  <2>5. f[next[k]] = g[next[k]]
    BY <2>1, <2>3, <2>4
  <2>6. f[k] = step[k][f[next[k]]] /\ g[k] = step[k][g[next[k]]]
    BY <2>1, <2>2 DEF IsStart
  <2> QED
    BY <2>1, <2>5, <2>6
<1> QED
  BY <1>1, <1>2

(* Every recursion has a start of every length. *)
LEMMA StartExists ==
  ASSUME NEW S, NEW base, NEW next, NEW step,
         IsRecursion(S, base, next, step)
  PROVE  \A n \in Nat : \E f : IsStart(f, n, S, base, next, step)
<1> DEFINE T == {n \in Nat : ~ \E f : IsStart(f, n, S, base, next, step)}
<1>1. CASE T = {}
  BY <1>1
<1>2. CASE T # {}
  <2>1. PICK n \in T : \A l \in T : n <= l
    BY <1>2, LeastNumber
  <2>2. IsStart([k \in 0 .. 0 |-> base], 0, S, base, next, step)
    BY DEF IsStart, IsRecursion
  <2>3. n # 0
    BY <2>1, <2>2
  <2>4. n - 1 \in Nat /\ n \in Nat \ {0}
    BY <2>1, <2>3
  <2>5. n - 1 \notin T
    BY <2>1, <2>4
  <2>6. PICK f : IsStart(f, n - 1, S, base, next, step)
    BY <2>4, <2>5
  <2> DEFINE g == [k \in 0 .. n |-> IF k < n THEN f[k] ELSE step[n][f[next[n]]]]
  <2>7. next[n] \in 0 .. n - 1
    BY <2>4 DEF IsRecursion
  <2>8. \A k \in 0 .. n - 1 : g[k] = f[k] /\ f[k] \in S
    BY <2>4, <2>6 DEF IsStart
  <2>9. g[n] = step[n][f[next[n]]] /\ step[n][f[next[n]]] \in S
    <3>1. n \in 0 .. n /\ ~(n < n)
      BY <2>4
    <3>2. g[n] = step[n][f[next[n]]]
      BY <3>1
    <3>3. f[next[n]] \in S
      BY <2>7, <2>8
    <3>4. step[n] \in [S -> S]
      BY <2>4 DEF IsRecursion
    <3> QED
      BY <3>2, <3>3, <3>4
  <2>10. g \in [0 .. n -> S] /\ g[0] = base
    BY <2>4, <2>6, <2>8, <2>9 DEF IsStart
  <2> HIDE DEF g
  <2>11. ASSUME NEW m \in 1 .. n PROVE g[m] = step[m][g[next[m]]]
    <3>1. next[m] \in 0 .. n - 1
      <4>1. m \in Nat \ {0}
        BY <2>4
      <4> QED
        BY <2>4, <4>1 DEF IsRecursion
    <3>2. g[next[m]] = f[next[m]]
      BY <2>8, <3>1
    <3>3. CASE m = n
      BY <2>9, <3>2, <3>3
    <3>4. CASE m # n
      <4>1. m \in 1 .. n - 1 /\ m \in 0 .. n - 1
        BY <2>4, <3>4
      <4> QED
        BY <2>6, <2>8, <3>2, <4>1 DEF IsStart
    <3> QED
      BY <3>3, <3>4
  <2>12. IsStart(g, n, S, base, next, step)
    BY <2>10, <2>11 DEF IsStart
  <2> QED
    BY <2>1, <2>12
<1> QED
  BY <1>1, <1>2

(* A recursive definition over numbers defines a function. *)
LEMMA RecursionDefines ==
  ASSUME NEW S, NEW base, NEW next, NEW step,
         IsRecursion(S, base, next, step)
  PROVE  \E f \in [Nat -> S] :
           f[0] = base /\ \A n \in Nat \ {0} : f[n] = step[n][f[next[n]]]
<1> DEFINE start[n \in Nat] == CHOOSE f : IsStart(f, n, S, base, next, step)
           f == [n \in Nat |-> start[n][n]]
<1>1. \A n \in Nat : IsStart(start[n], n, S, base, next, step)
  BY StartExists
<1> HIDE DEF start
<1>2. \A n \in Nat : start[n][n] \in S
  BY <1>1 DEF IsStart
<1>3. f \in [Nat -> S]
  BY <1>2
<1>4. f[0] = base
  BY <1>1 DEF IsStart
<1>5. ASSUME NEW n \in Nat \ {0} PROVE f[n] = step[n][f[next[n]]]
  <2>1. next[n] \in Nat /\ next[n] < n /\ next[n] \in 0 .. next[n]
    BY <1>5 DEF IsRecursion
  <2>2. start[next[n]][next[n]] = start[n][next[n]]
    <3> DEFINE k == next[n]
    <3>1. k \in Nat /\ n \in Nat /\ k \in 0 .. k /\ k <= n
      BY <2>1
    <3>2. /\ IsStart(start[k], k, S, base, next, step)
          /\ IsStart(start[n], n, S, base, next, step)
      BY <1>1, <3>1
    <3> DEFINE p == start[k]
               q == start[n]
    <3>3. IsStart(p, k, S, base, next, step) /\ IsStart(q, n, S, base, next, step)
      BY <3>2
    <3> HIDE DEF k, p, q
    <3>4. \A j \in 0 .. k : j <= n => p[j] = q[j]
      BY <3>1, <3>3, StartIsUnique
    <3>5. p[k] = q[k]
      BY <3>1, <3>4
    <3> QED
      BY <3>5 DEF k, p, q
  <2>3. n \in 1 .. n
    OBVIOUS
  <2>4. start[n][n] = step[n][start[n][next[n]]]
    BY <1>1, <2>3 DEF IsStart
  <2> QED
    BY <2>1, <2>2, <2>4
<1> QED
  BY <1>3, <1>4, <1>5
=============================================================================
