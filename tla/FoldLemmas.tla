------------------------------ MODULE FoldLemmas ------------------------------
(***************************************************************************)
(* What the folds compute that the models are written with: FoldLeft over  *)
(* a sequence, and the sum of numbers over a finite set.  Both are given   *)
(* by recursive functions on subsets; these lemmas show that the functions *)
(* exist, by induction on the cardinality, and unfold them.                *)
(***************************************************************************)
EXTENDS Integers, Sequences, SequencesExt, FiniteSetsExt, FiniteSetTheorems, TLAPS

\* A set of numbers that is not empty has a least member.
LEMMA LeastNat ==
  ASSUME NEW T, T \subseteq Nat, T # {}
  PROVE  \E x \in T : \A y \in T : x <= y
<1> DEFINE R == {ss \in Nat \X Nat : ss[1] < ss[2]}
<1>1. IsWellFoundedOn(R, Nat)
  BY NatLessThanWellFounded DEF OpToRel
<1> HIDE DEF R
<1>2. PICK x \in T : \A y \in T : ~(<<y, x>> \in R)
  BY <1>1, WFMin
<1>3. ASSUME NEW y \in T PROVE x <= y
  <2>1. x \in Nat /\ y \in Nat /\ ~(<<y, x>> \in R)
    BY <1>2
  <2> QED
    BY <2>1 DEF R
<1> QED
  BY <1>3

\* Induction up to a bound: a set of numbers that has 0 and is closed under successors.
LEMMA BoundedInduction ==
  ASSUME NEW T, NEW n \in Nat, 0 \in T, \A m \in 0..(n - 1) : m \in T => m + 1 \in T
  PROVE  \A m \in 0..n : m \in T
<1> DEFINE Bad == {m \in 0..n : m \notin T}
<1> SUFFICES ASSUME Bad # {} PROVE FALSE
  OBVIOUS
<1>1. PICK x \in Bad : \A y \in Bad : x <= y
  <2>1. Bad \subseteq Nat
    OBVIOUS
  <2> HIDE DEF Bad
  <2> QED
    BY <2>1, LeastNat
<1>2. x \in 1..n /\ x - 1 \notin Bad
  BY <1>1
<1> QED
  BY <1>2

-----------------------------------------------------------------------------
(* Finite sets.                                                            *)

\* A subset without one of its elements.
LEMMA Smaller ==
  ASSUME NEW S, IsFiniteSet(S), NEW s \in SUBSET S, NEW x \in s
  PROVE  /\ IsFiniteSet(s) /\ s \ {x} \in SUBSET S
         /\ Cardinality(s) \in Nat \ {0} /\ Cardinality(s \ {x}) = Cardinality(s) - 1
<1>1. IsFiniteSet(s) /\ Cardinality(s) \in Nat
  BY FS_Subset, FS_CardinalityType
<1>2. Cardinality(s \ {x}) = Cardinality(s) - 1
  BY <1>1, FS_RemoveElement
<1>3. Cardinality(s \ {x}) \in Nat
  BY <1>1, FS_RemoveElement, FS_CardinalityType
<1> QED
  BY <1>1, <1>2, <1>3

\* Induction over the subsets of a finite set.
LEMMA SubsetInduction ==
  ASSUME NEW S, IsFiniteSet(S), NEW T,
         \A s \in SUBSET S : (\A x \in s : s \ {x} \in T) => s \in T
  PROVE  SUBSET S \subseteq T
<1> DEFINE N == Cardinality(S)
           U == {n \in Nat : \A s \in SUBSET S : Cardinality(s) = n => s \in T}
<1>1. N \in Nat /\ \A s \in SUBSET S : Cardinality(s) \in 0..N /\ (Cardinality(s) = 0 <=> s = {})
  BY FS_Subset, FS_CardinalityType, FS_EmptySet
<1>2. 0 \in U
  BY <1>1
<1>3. ASSUME NEW n \in 0..(N - 1), n \in U PROVE n + 1 \in U
  <2>1. ASSUME NEW s \in SUBSET S, Cardinality(s) = n + 1, NEW x \in s PROVE s \ {x} \in T
    <3>1. s \ {x} \in SUBSET S /\ Cardinality(s \ {x}) = n
      BY <2>1, Smaller
    <3> QED
      BY <1>3, <3>1
  <2> QED
    BY <2>1
<1>4. \A n \in 0..N : n \in U
  <2> HIDE DEF U
  <2> QED
    BY <1>1, <1>2, <1>3, BoundedInduction
<1> QED
  BY <1>1, <1>4

-----------------------------------------------------------------------------
(* Folds over the subsets of a finite set S: c says which element of a     *)
(* subset comes last, h what it adds.                                      *)

Recurrence(g, D, base, c, h) ==
  g = [s \in D |-> IF s = {} THEN base ELSE h[<<c[s], g[s \ {c[s]}]>>]]

Small(S, n) == {s \in SUBSET S : Cardinality(s) <= n}

\* A finite set of integers that is not empty has a greatest member.
LEMMA FiniteMax ==
  ASSUME NEW S, IsFiniteSet(S), S \subseteq Int, S # {}
  PROVE  \E m \in S : \A n \in S : n <= m
<1> DEFINE T == {s \in SUBSET S : s = {} \/ \E m \in s : \A n \in s : n <= m}
<1>1. ASSUME NEW s \in SUBSET S, \A x \in s : s \ {x} \in T
      PROVE  s \in T
  <2>1. CASE s = {}
    BY <2>1
  <2>2. CASE s # {}
    <3>1. PICK x \in s : TRUE
      BY <2>2
    <3>2. x \in Int /\ s \ {x} \in T
      BY <1>1, <3>1
    <3>3. CASE s \ {x} = {}
      BY <3>2, <3>3
    <3>4. CASE \E m \in s \ {x} : \A n \in s \ {x} : n <= m
      <4>1. PICK m \in s \ {x} : \A n \in s \ {x} : n <= m
        BY <3>4
      <4>2. m \in Int
        OBVIOUS
      <4>3. CASE x <= m
        BY <4>1, <4>3
      <4>4. CASE m <= x
        <5>1. \A n \in s : n <= x
          BY <3>2, <4>1, <4>2, <4>4
        <5> QED
          BY <5>1
      <4> QED
        BY <3>2, <4>2, <4>3, <4>4
    <3> QED
      BY <3>2, <3>3, <3>4
  <2> QED
    BY <2>1, <2>2
<1>2. SUBSET S \subseteq T
  <2> HIDE DEF T
  <2> QED
    BY <1>1, SubsetInduction
<1> QED
  BY <1>2

\* The recursive function exists.
LEMMA FoldExists ==
  ASSUME NEW S, IsFiniteSet(S), NEW V, NEW base \in V, NEW c, NEW h \in [S \X V -> V],
         \A s \in SUBSET S : s # {} => c[s] \in s
  PROVE  \E g \in [SUBSET S -> V] : Recurrence(g, SUBSET S, base, c, h)
<1> DEFINE N == Cardinality(S)
           T == {n \in Nat : \E g \in [Small(S, n) -> V] : Recurrence(g, Small(S, n), base, c, h)}
<1>1. N \in Nat
  BY FS_CardinalityType
<1>2. \A s \in SUBSET S : Cardinality(s) \in Nat /\ (Cardinality(s) = 0 <=> s = {})
  BY FS_Subset, FS_CardinalityType, FS_EmptySet
<1>3. 0 \in T
  <2>1. Small(S, 0) = {{}}
    BY <1>2 DEF Small
  <2>2. Recurrence([s \in {{}} |-> base], Small(S, 0), base, c, h)
    BY <2>1 DEF Recurrence
  <2> QED
    BY <2>1, <2>2
<1>4. ASSUME NEW n \in 0..(N - 1), n \in T PROVE n + 1 \in T
  <2>1. PICK g \in [Small(S, n) -> V] : Recurrence(g, Small(S, n), base, c, h)
    BY <1>4
  <2> DEFINE f == [s \in Small(S, n + 1) |-> IF s = {} THEN base ELSE h[<<c[s], g[s \ {c[s]}]>>]]
  <2>2. ASSUME NEW s \in Small(S, n + 1), s # {}
        PROVE  s \ {c[s]} \in Small(S, n) /\ s \ {c[s]} \in Small(S, n + 1) /\ c[s] \in S
    <3>1. s \in SUBSET S /\ Cardinality(s) <= n + 1 /\ c[s] \in s
      BY <2>2 DEF Small
    <3>2. s \ {c[s]} \in SUBSET S /\ Cardinality(s) \in Nat /\ Cardinality(s \ {c[s]}) = Cardinality(s) - 1
      BY <3>1, Smaller
    <3>3. Cardinality(s) - 1 <= n /\ Cardinality(s) - 1 <= n + 1
      BY <3>1, <3>2
    <3> QED
      BY <3>1, <3>2, <3>3 DEF Small
  <2>3. ASSUME NEW s \in Small(S, n) PROVE f[s] = g[s] /\ s \in Small(S, n + 1)
    <3>1. s \in Small(S, n + 1)
      BY <1>2 DEF Small
    <3> QED
      BY <2>1, <3>1 DEF Recurrence
  <2>4. f \in [Small(S, n + 1) -> V]
    <3>1. ASSUME NEW s \in Small(S, n + 1) PROVE f[s] \in V
      BY <2>2
    <3> QED
      BY <3>1
  <2>5. Recurrence(f, Small(S, n + 1), base, c, h)
    <3>1. ASSUME NEW s \in Small(S, n + 1)
          PROVE  f[s] = IF s = {} THEN base ELSE h[<<c[s], f[s \ {c[s]}]>>]
      BY <2>2, <2>3
    <3> QED
      BY <3>1 DEF Recurrence
  <2> HIDE DEF f
  <2>6. n + 1 \in Nat
    OBVIOUS
  <2> QED
    BY <2>4, <2>5, <2>6
<1>5. N \in T
  <2> HIDE DEF T
  <2> QED
    BY <1>1, <1>3, <1>4, BoundedInduction
<1>6. Small(S, N) = SUBSET S
  <2>1. \A s \in SUBSET S : Cardinality(s) <= N
    BY FS_Subset
  <2> QED
    BY <2>1 DEF Small
<1> QED
  BY <1>5, <1>6, ZenonT(60)

-----------------------------------------------------------------------------
(* FoldLeft folds over the sets of indices, the greatest index last.       *)

\* The greatest of some indices.
LEMMA MaxIndex ==
  ASSUME NEW n \in Nat, NEW s \in SUBSET (1..n), s # {}
  PROVE  Max(s) \in s /\ \A y \in s : y <= Max(s)
<1> DEFINE T == {n - x : x \in s}
<1>1. T \subseteq Nat /\ T # {}
  <2>1. ASSUME NEW t \in T PROVE t \in Nat
    <3>1. PICK x \in s : t = n - x
      OBVIOUS
    <3>2. x \in 1..n
      OBVIOUS
    <3> QED
      BY <3>1, <3>2
  <2>2. PICK x \in s : TRUE
    OBVIOUS
  <2>3. n - x \in T
    OBVIOUS
  <2> HIDE DEF T
  <2> QED
    BY <2>1, <2>3
<1>2. PICK t \in T : \A y \in T : t <= y
  <2> HIDE DEF T
  <2> QED
    BY <1>1, LeastNat
<1>3. PICK x \in s : t = n - x
  BY <1>2
<1>4. ASSUME NEW y \in s PROVE x >= y
  <2>1. n - x <= n - y
    BY <1>2, <1>3
  <2> QED
    BY <2>1
<1>5. \A y \in s : x >= y
  BY <1>4
<1> QED
  BY <1>5 DEF Max

\* Of the first indices it is the last one.
LEMMA MaxOfFirst ==
  ASSUME NEW n \in Nat, NEW i \in 1..n
  PROVE  /\ 1..i \in SUBSET (1..n) /\ 1..i # {} /\ Max(1..i) = i
         /\ (1..i) \ {i} = 1..(i - 1)
<1>1. 1..i \in SUBSET (1..n) /\ 1..i # {} /\ i \in 1..i /\ (1..i) \ {i} = 1..(i - 1)
  OBVIOUS
<1>2. Max(1..i) \in 1..i /\ i <= Max(1..i)
  BY <1>1, MaxIndex
<1> QED
  BY <1>1, <1>2

FoldsIndices(g, n, base, h) ==
  /\ g[{}] = base
  /\ \A s \in SUBSET (1..n) : s # {} => g[s] = h[<<Max(s), g[s \ {Max(s)}]>>]

\* A function that folds h over indices exists; V is a set its results lie in.
LEMMA IndexFold ==
  ASSUME NEW n \in Nat, NEW V, NEW base \in V, NEW h \in [(1..n) \X V -> V]
  PROVE  \E g \in [SUBSET (1..n) -> V] : FoldsIndices(g, n, base, h)
<1> DEFINE S == 1..n
           c == [s \in SUBSET S |-> Max(s)]
<1>1. IsFiniteSet(S)
  BY FS_Interval
<1>2. \A s \in SUBSET S : s # {} => c[s] \in s
  BY MaxIndex
<1>3. PICK g \in [SUBSET S -> V] : Recurrence(g, SUBSET S, base, c, h)
  <2> HIDE DEF c, S
  <2> QED
    BY <1>1, <1>2, FoldExists DEF S
<1>4. FoldsIndices(g, n, base, h)
  BY <1>3 DEF Recurrence, FoldsIndices
<1> QED
  BY <1>4

=============================================================================
