------------------------------ MODULE Induction ------------------------------
(***************************************************************************)
(* Induction over numbers and sequences, from facts without operators as   *)
(* parameters: every set of naturals has a least element.  On it rest what *)
(* a fold over a sequence goes through, and what Max and Min choose.       *)
(***************************************************************************)
EXTENDS Integers, SequencesExt, WellFoundedInduction, TLAPS

LEMMA LeastNat ==
  ASSUME NEW T, T \subseteq Nat, T # {}
  PROVE  \E x \in T : \A y \in T : x <= y
<1>1. IsWellFoundedOn(OpToRel(<, Nat), Nat) BY NatLessThanWellFounded
<1>2. \E x \in T : \A y \in T : ~ (<<y, x>> \in OpToRel(<, Nat)) BY <1>1, WFMin
<1>3. PICK x \in T : \A y \in T : ~ (<<y, x>> \in OpToRel(<, Nat)) BY <1>2
<1>4. \A y \in T : ~(y < x) BY <1>3 DEF OpToRel
<1>. QED BY <1>4

\* What holds for 0 and goes on from n to n + 1 holds for all: P is the set of the
\* numbers it holds for.
LEMMA Induct ==
  ASSUME NEW P, 0 \in P, \A n \in Nat : n \in P => n + 1 \in P
  PROVE  Nat \subseteq P
<1>. DEFINE T == Nat \ P
<1>. SUFFICES ASSUME T # {} PROVE FALSE OBVIOUS
<1>1. PICK x \in T : \A y \in T : x <= y BY LeastNat
<1>2. x # 0 /\ x - 1 \in Nat OBVIOUS
<1>3. x - 1 \in P BY <1>1, <1>2
<1>. QED BY <1>2, <1>3

\* The same up to a bound.
LEMMA InductTo ==
  ASSUME NEW N \in Nat, NEW P, 0 \in P, \A n \in 0 .. N - 1 : n \in P => n + 1 \in P
  PROVE  0 .. N \subseteq P
<1>. DEFINE Q == {n \in Nat : n <= N => n \in P}
<1>1. 0 \in Q OBVIOUS
<1>2. ASSUME NEW n \in Nat, n \in Q PROVE n + 1 \in Q
  BY <1>2
<1>. HIDE DEF Q
<1>3. Nat \subseteq Q BY <1>1, <1>2, Induct
<1>. QED BY <1>3 DEF Q

LEMMA MaxOfSome ==
  ASSUME NEW n \in Nat, NEW S, S \subseteq 1 .. n, S # {}
  PROVE  Max(S) \in S /\ \A y \in S : Max(S) >= y
<1>. DEFINE T == {n - x : x \in S}
<1>1. \A x \in S : x \in 1 .. n /\ n - x \in Nat OBVIOUS
<1>2. T \subseteq Nat /\ T # {} BY <1>1
<1>3. PICK t \in T : \A y \in T : t <= y BY <1>2, LeastNat
<1>4. PICK x \in S : t = n - x BY <1>3
<1>5. \A y \in S : n - x <= n - y BY <1>3, <1>4
<1>6. \A y \in S : x >= y BY <1>1, <1>5
<1>. QED BY <1>6 DEF Max

LEMMA MinOfSome ==
  ASSUME NEW n \in Nat, NEW S, S \subseteq 1 .. n, S # {}
  PROVE  Min(S) \in S /\ \A y \in S : Min(S) <= y
<1>1. S \subseteq Nat OBVIOUS
<1>2. PICK x \in S : \A y \in S : x <= y BY <1>1, LeastNat
<1>. QED BY <1>2 DEF Min

LEMMA MaxOfAll ==
  ASSUME NEW n \in Nat, n > 0
  PROVE  Max(1 .. n) = n
<1>1. 1 .. n \subseteq 1 .. n /\ 1 .. n # {} OBVIOUS
<1>2. Max(1 .. n) \in 1 .. n /\ \A y \in 1 .. n : Max(1 .. n) >= y BY <1>1, MaxOfSome
<1>. QED BY <1>2

-----------------------------------------------------------------------------
(* Folds                                                                   *)

\* The function that a fold over a sequence of length n is defined by exists, when
\* its steps stay in a set A: f[<<a, i>>] is the step from a with element i.
FoldsBy(g, base, f, n) ==
  \A s \in SUBSET (1 .. n) :
    g[s] = IF s = {} THEN base ELSE f[<<g[s \ {Max(s)}], Max(s)>>]

LEMMA FoldExists ==
  ASSUME NEW A, NEW N \in Nat, NEW base \in A, NEW f \in [A \X (1 .. N) -> A]
  PROVE  \E g \in [SUBSET (1 .. N) -> A] : FoldsBy(g, base, f, N)
<1>. DEFINE P == {n \in 0 .. N : \E g \in [SUBSET (1 .. n) -> A] : FoldsBy(g, base, f, n)}
<1>1. 0 \in P
  <2>. DEFINE g == [s \in SUBSET (1 .. 0) |-> base]
  <2>1. \A s \in SUBSET (1 .. 0) : s = {} OBVIOUS
  <2>2. g \in [SUBSET (1 .. 0) -> A] /\ FoldsBy(g, base, f, 0) BY <2>1 DEF FoldsBy
  <2>. QED BY <2>2
<1>2. ASSUME NEW n \in 0 .. N - 1, n \in P PROVE n + 1 \in P
  <2>1. PICK g \in [SUBSET (1 .. n) -> A] : FoldsBy(g, base, f, n) BY <1>2
  <2>. DEFINE m == n + 1
              h == [s \in SUBSET (1 .. m) |->
                      IF m \in s THEN f[<<g[s \ {m}], m>>] ELSE g[s]]
  <2>2. \A s \in SUBSET (1 .. m) : s \ {m} \in SUBSET (1 .. n) OBVIOUS
  <2>3. \A s \in SUBSET (1 .. m) : m \notin s => s \in SUBSET (1 .. n) OBVIOUS
  <2>4. m \in 1 .. N OBVIOUS
  <2>5. h \in [SUBSET (1 .. m) -> A]
    <3>. SUFFICES ASSUME NEW s \in SUBSET (1 .. m) PROVE h[s] \in A OBVIOUS
    <3>1. CASE m \in s
      <4>1. g[s \ {m}] \in A BY <2>2
      <4>. QED BY <3>1, <4>1, <2>4
    <3>2. CASE m \notin s BY <3>2, <2>3
    <3>. QED BY <3>1, <3>2
  <2>6. FoldsBy(h, base, f, m)
    <3>. SUFFICES ASSUME NEW s \in SUBSET (1 .. m)
                  PROVE  h[s] = IF s = {} THEN base ELSE f[<<h[s \ {Max(s)}], Max(s)>>]
      BY DEF FoldsBy
    <3>1. CASE m \in s
      <4>1. Max(s) = m
        <5>1. m \in Nat /\ s \subseteq 1 .. m /\ s # {} /\ m \in s BY <3>1
        <5>. HIDE DEF m
        <5>2. Max(s) \in s /\ \A y \in s : Max(s) >= y BY <5>1, MaxOfSome
        <5>3. Max(s) \in 1 .. m /\ Max(s) >= m BY <5>1, <5>2
        <5>. QED BY <5>1, <5>3
      <4>2. h[s \ {m}] = g[s \ {m}] BY <2>2
      <4>. QED BY <3>1, <4>1, <4>2
    <3>2. CASE m \notin s
      <4>1. s \in SUBSET (1 .. n) /\ h[s] = g[s] BY <3>2, <2>3
      <4>2. g[s] = IF s = {} THEN base ELSE f[<<g[s \ {Max(s)}], Max(s)>>]
        BY <2>1, <4>1 DEF FoldsBy
      <4>3. s \ {Max(s)} \in SUBSET (1 .. m) /\ m \notin s \ {Max(s)} BY <3>2
      <4>4. h[s \ {Max(s)}] = g[s \ {Max(s)}] BY <4>3
      <4>. QED BY <4>1, <4>2, <4>4
    <3>. QED BY <3>1, <3>2
  <2>. HIDE DEF h
  <2>7. \E k \in [SUBSET (1 .. m) -> A] : FoldsBy(k, base, f, m) BY <2>5, <2>6
  <2>. QED BY <2>4, <2>7
<1>. HIDE DEF P
<1>3. 0 .. N \subseteq P BY <1>1, <1>2, InductTo
<1>4. N \in P BY <1>3
<1>. QED BY <1>4 DEF P

\* A fold goes through the elements one by one.
LEMMA UpTo ==
  ASSUME NEW N \in Nat
  PROVE  /\ 1 .. 0 = {} /\ 1 .. 0 \in SUBSET (1 .. N)
         /\ \A k \in 1 .. N : /\ 1 .. k # {} /\ 1 .. k \in SUBSET (1 .. N)
                             /\ Max(1 .. k) = k /\ (1 .. k) \ {k} = 1 .. k - 1
<1>1. ASSUME NEW k \in 1 .. N PROVE 1 .. k # {} /\ 1 .. k \in SUBSET (1 .. N)
  OBVIOUS
<1>2. ASSUME NEW k \in 1 .. N PROVE (1 .. k) \ {k} = 1 .. k - 1
  OBVIOUS
<1>3. \A k \in 1 .. N : Max(1 .. k) = k BY MaxOfAll
<1>4. 1 .. 0 = {} OBVIOUS
<1>. QED BY <1>1, <1>2, <1>3, <1>4

\* Whatever function a fold is defined by, it goes through one state for each element.
StepsBy(it, A, base, f, n) ==
  /\ it[{}] = base
  /\ \A s \in SUBSET (1 .. n) :
       s # {} /\ it[s \ {Max(s)}] \in A => it[s] = f[<<it[s \ {Max(s)}], Max(s)>>]
Trace(d, base, f, last, n) ==
  /\ d[0] = base /\ d[n] = last
  /\ \A i \in 1 .. n : d[i] = f[<<d[i - 1], i>>]

LEMMA FoldTrace ==
  ASSUME NEW A, NEW N \in Nat, NEW base \in A, NEW f \in [A \X (1 .. N) -> A], NEW it,
         StepsBy(it, A, base, f, N)
  PROVE  \E d \in [0 .. N -> A] : Trace(d, base, f, it[1 .. N], N)
<1>. USE DEF StepsBy
<1>. DEFINE P == {k \in 0 .. N : it[1 .. k] \in A}
            d == [k \in 0 .. N |-> it[1 .. k]]
<1>1. it[1 .. 0] = base BY UpTo
<1>2. ASSUME NEW k \in 1 .. N, it[1 .. k - 1] \in A
      PROVE  it[1 .. k] = f[<<it[1 .. k - 1], k>>] /\ it[1 .. k] \in A
  <2>1. it[1 .. k] = f[<<it[(1 .. k) \ {Max(1 .. k)}], Max(1 .. k)>>] BY <1>2, UpTo
  <2>2. it[1 .. k] = f[<<it[1 .. k - 1], k>>] BY <2>1, UpTo
  <2>. QED BY <1>2, <2>2
<1>3. 0 \in P BY <1>1
<1>4. ASSUME NEW k \in 0 .. N - 1, k \in P PROVE k + 1 \in P
  <2>1. k + 1 \in 1 .. N /\ k + 1 \in 0 .. N /\ (k + 1) - 1 = k OBVIOUS
  <2>2. it[1 .. k] \in A BY <1>4
  <2>3. it[1 .. k + 1] \in A BY <1>2, <2>1, <2>2
  <2>. QED BY <2>1, <2>3
<1>. HIDE DEF P
<1>5. 0 .. N \subseteq P BY <1>3, <1>4, InductTo
<1>6. \A k \in 0 .. N : it[1 .. k] \in A BY <1>5 DEF P
<1>7. d \in [0 .. N -> A] BY <1>6
<1>8. d[0] = base /\ d[N] = it[1 .. N] BY <1>1
<1>9. ASSUME NEW i \in 1 .. N PROVE d[i] = f[<<d[i - 1], i>>]
  <2>1. i - 1 \in 0 .. N /\ i \in 0 .. N OBVIOUS
  <2>. QED BY <1>2, <1>6, <2>1
<1>. HIDE DEF d
<1>10. Trace(d, base, f, it[1 .. N], N) BY <1>8, <1>9 DEF Trace
<1>. QED BY <1>7, <1>10
=============================================================================
