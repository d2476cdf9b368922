------------------------------ MODULE Counting ------------------------------
(***************************************************************************)
(* The counter of a sync.WaitGroup (TaskGroup, errgroup in RunGroup) is    *)
(* the number of goroutines added and not yet done.  The models say so     *)
(* without Cardinality: the counter n counts the set S of live goroutines  *)
(* when 1..n enumerates S, that is, some function from 1..n onto S is      *)
(* one-to-one.  Add(1) for a new goroutine and Done for a live one keep    *)
(* the enumeration, and a zero counter means that nobody is live.          *)
(***************************************************************************)
EXTENDS Integers, TLAPS

\* f lists the elements of S, each once, at the positions 1..n.
Enumerates(f, n, S) ==
  /\ f \in [1..n -> S]
  /\ \A i, j \in 1..n : f[i] = f[j] => i = j
  /\ \A s \in S : \E i \in 1..n : f[i] = s

\* n is the number of elements of S.
Counts(n, S) == \E f \in [1..n -> S] : Enumerates(f, n, S)

\* Nothing is counted by zero.
LEMMA CountsEmpty == Counts(0, {})
  <1>1. Enumerates([i \in 1..0 |-> 0], 0, {})
    BY DEF Enumerates
  <1>2. QED
    BY <1>1 DEF Counts, Enumerates

\* A zero counter means that the set is empty.
LEMMA CountsZero ==
  ASSUME NEW S, Counts(0, S)
  PROVE  S = {}
  BY DEF Counts, Enumerates

\* Add(1) for an element that is not yet counted.
LEMMA CountsAdd ==
  ASSUME NEW n \in Nat, NEW S, NEW x, x \notin S, Counts(n, S)
  PROVE  Counts(n + 1, S \cup {x})
  <1>1. PICK f \in [1..n -> S] : Enumerates(f, n, S)
    BY DEF Counts
  <1> DEFINE g == [i \in 1..n + 1 |-> IF i = n + 1 THEN x ELSE f[i]]
  <1>2. g \in [1..n + 1 -> S \cup {x}]
    BY <1>1
  <1>3. \A i, j \in 1..n + 1 : g[i] = g[j] => i = j
    BY <1>1 DEF Enumerates
  <1>4. \A s \in S \cup {x} : \E i \in 1..n + 1 : g[i] = s
    BY <1>1 DEF Enumerates
  <1>5. QED
    BY <1>2, <1>3, <1>4 DEF Counts, Enumerates

(***************************************************************************)
(* Done for a counted element: the counter is positive, and the element    *)
(* at the last position takes the place of the one removed.                *)
(***************************************************************************)
LEMMA CountsRemove ==
  ASSUME NEW n \in Nat, NEW S, NEW x \in S, Counts(n, S)
  PROVE  n >= 1 /\ Counts(n - 1, S \ {x})
  <1>1. PICK f \in [1..n -> S] : Enumerates(f, n, S)
    BY DEF Counts
  <1>2. PICK k \in 1..n : f[k] = x
    BY <1>1 DEF Enumerates
  <1>3. n >= 1
    BY <1>2
  <1> DEFINE g == [i \in 1..n - 1 |-> IF i = k THEN f[n] ELSE f[i]]
  <1>4. g \in [1..n - 1 -> S \ {x}]
    BY <1>1, <1>2, <1>3 DEF Enumerates
  <1>5. \A i, j \in 1..n - 1 : g[i] = g[j] => i = j
    BY <1>1, <1>2, <1>3 DEF Enumerates
  <1>6. \A s \in S \ {x} : \E i \in 1..n - 1 : g[i] = s
    <2> SUFFICES ASSUME NEW s \in S \ {x}
                 PROVE  \E i \in 1..n - 1 : g[i] = s
      OBVIOUS
    <2>1. PICK j \in 1..n : f[j] = s
      BY <1>1 DEF Enumerates
    <2>2. CASE j = n
      BY <1>2, <1>3, <2>1, <2>2
    <2>3. CASE j # n
      BY <1>1, <1>2, <1>3, <2>1, <2>3 DEF Enumerates
    <2>4. QED
      BY <2>2, <2>3
  <1>7. QED
    BY <1>3, <1>4, <1>5, <1>6 DEF Counts, Enumerates

\* The set counted does not matter, only its elements.
LEMMA CountsSame ==
  ASSUME NEW n, NEW S, NEW T, S = T, Counts(n, S)
  PROVE  Counts(n, T)
  OBVIOUS
=============================================================================
