----------------------------- MODULE CacheProofs -----------------------------
(***************************************************************************)
(* The cache, for any keys, values, sizes, limits and orders of calls.     *)
(***************************************************************************)
EXTENDS Cache, FoldLemmas, SequenceTheorems

-----------------------------------------------------------------------------
(* Sums of sizes: e gives the entries.                                     *)

Total(e, K) == MapThenSumSet(LAMBDA k : e[k].size, K)

Sized(e, S) == \A k \in S : e[k].size \in Nat

\* The recursive function that the sum is defined with.
Sums(g, e, S) ==
  g = [s \in SUBSET S |-> IF s = {} THEN 0
                          ELSE e[CHOOSE x \in s : TRUE].size + g[s \ {CHOOSE x \in s : TRUE}]]

LEMMA SumExists ==
  ASSUME NEW S, IsFiniteSet(S), NEW e, Sized(e, S)
  PROVE  \E g \in [SUBSET S -> Nat] : Sums(g, e, S)
<1> DEFINE c == [s \in SUBSET S |-> CHOOSE x \in s : TRUE]
           h == [p \in S \X Nat |-> e[p[1]].size + p[2]]
<1>1. h \in [S \X Nat -> Nat]
  BY DEF Sized
<1>2. \A s \in SUBSET S : s # {} => c[s] \in s
  OBVIOUS
<1>3. PICK g \in [SUBSET S -> Nat] : Recurrence(g, SUBSET S, 0, c, h)
  <2>1. 0 \in Nat
    OBVIOUS
  <2> HIDE DEF c, h
  <2> QED
    BY <1>1, <1>2, <2>1, FoldExists
<1>4. ASSUME NEW s \in SUBSET S
      PROVE  g[s] = IF s = {} THEN 0 ELSE e[CHOOSE x \in s : TRUE].size + g[s \ {CHOOSE x \in s : TRUE}]
  <2>1. CASE s = {}
    BY <1>3, <2>1 DEF Recurrence
  <2>2. CASE s # {}
    <3>1. PICK x \in s : x = c[s]
      BY <1>2, <2>2
    <3>2. g[s] = h[<<x, g[s \ {x}]>>]
      BY <1>3, <2>2, <3>1 DEF Recurrence
    <3>3. s \ {x} \in SUBSET S /\ x \in S /\ g[s \ {x}] \in Nat
      OBVIOUS
    <3>4. g[s] = e[x].size + g[s \ {x}]
      BY <3>2, <3>3
    <3>5. x = CHOOSE y \in s : TRUE
      BY <3>1
    <3> QED
      BY <2>2, <3>4, <3>5
  <2> QED
    BY <2>1, <2>2
<1>5. g = [s \in SUBSET S |-> g[s]]
  OBVIOUS
<1>6. Sums(g, e, S)
  BY <1>4, <1>5 DEF Sums
<1> QED
  BY <1>6

\* Two sums agree on the subsets they have in common.
LEMMA SumsAgree ==
  ASSUME NEW S, IsFiniteSet(S), NEW s \in SUBSET S, NEW e, NEW g, NEW h, Sums(g, e, S), Sums(h, e, s)
  PROVE  g[s] = h[s]
<1> DEFINE T == {t \in SUBSET s : g[t] = h[t]}
<1>1. IsFiniteSet(s)
  BY FS_Subset
<1>2. ASSUME NEW t \in SUBSET s, \A x \in t : t \ {x} \in T PROVE t \in T
  <2>1. CASE t = {}
    BY <2>1 DEF Sums
  <2>2. CASE t # {}
    <3>1. PICK x \in t : x = CHOOSE y \in t : TRUE
      BY <2>2
    <3>2. t \in SUBSET S
      OBVIOUS
    <3>3. g[t] = e[x].size + g[t \ {x}] /\ h[t] = e[x].size + h[t \ {x}]
      BY <2>2, <3>1, <3>2 DEF Sums
    <3>4. g[t \ {x}] = h[t \ {x}]
      BY <1>2, <3>1
    <3> QED
      BY <3>3, <3>4
  <2> QED
    BY <2>1, <2>2
<1>3. SUBSET s \subseteq T
  <2> HIDE DEF T
  <2> QED
    BY <1>1, <1>2, SubsetInduction
<1> QED
  BY <1>3

\* The sum of a subset is what the function for the whole set gives.
LEMMA TotalIs ==
  ASSUME NEW S, IsFiniteSet(S), NEW s \in SUBSET S, NEW e, Sized(e, S), NEW g, Sums(g, e, S)
  PROVE  Total(e, s) = g[s]
<1> DEFINE G == CHOOSE h : Sums(h, e, s)
<1>1. Total(e, s) = G[s]
  BY DEF Total, MapThenSumSet, MapThenFoldSet, Sums
<1>2. IsFiniteSet(s) /\ Sized(e, s)
  BY FS_Subset DEF Sized
<1>3. Sums(G, e, s)
  BY <1>2, SumExists
<1> HIDE DEF G
<1> QED
  BY <1>1, <1>3, SumsAgree

\* No element, no size; any element may be taken out.
LEMMA TotalFacts ==
  ASSUME NEW S, IsFiniteSet(S), NEW e, Sized(e, S)
  PROVE  /\ Total(e, S) \in Nat /\ (S = {} => Total(e, S) = 0)
         /\ \A x \in S : Total(e, S) = e[x].size + Total(e, S \ {x}) /\ Total(e, S \ {x}) \in Nat
<1>1. PICK g : g \in [SUBSET S -> Nat] /\ Sums(g, e, S)
  BY SumExists
<1>2. \A s \in SUBSET S : Total(e, s) = g[s] /\ g[s] \in Nat
  BY <1>1, TotalIs
<1> DEFINE T == {s \in SUBSET S : \A x \in s : g[s] = e[x].size + g[s \ {x}]}
<1>3. ASSUME NEW s \in SUBSET S, \A x \in s : s \ {x} \in T PROVE s \in T
  <2> SUFFICES ASSUME NEW x \in s PROVE g[s] = e[x].size + g[s \ {x}]
    OBVIOUS
  <2>1. PICK c \in s : c = CHOOSE y \in s : TRUE
    OBVIOUS
  <2>2. g[s] = e[c].size + g[s \ {c}]
    BY <1>1, <2>1 DEF Sums
  <2>3. CASE c = x
    BY <2>2, <2>3
  <2>4. CASE c # x
    <3> DEFINE rest == (s \ {c}) \ {x}
    <3>1. g[s \ {c}] = e[x].size + g[rest]
      BY <1>3, <2>4
    <3>2. (s \ {x}) \ {c} = rest
      OBVIOUS
    <3>3. g[s \ {x}] = e[c].size + g[rest]
      BY <1>3, <2>4, <3>2
    <3>4. e[x].size \in Nat /\ e[c].size \in Nat /\ g[rest] \in Nat
      BY <1>2 DEF Sized
    <3> HIDE DEF rest
    <3> QED
      BY <2>2, <3>1, <3>3, <3>4
  <2> QED
    BY <2>3, <2>4
<1>4. SUBSET S \subseteq T
  <2> HIDE DEF T
  <2> QED
    BY <1>3, SubsetInduction
<1>5. g[{}] = 0
  BY <1>1 DEF Sums
<1>6. S \in T /\ S \in SUBSET S
  BY <1>4
<1>7. ASSUME NEW x \in S
      PROVE  Total(e, S) = e[x].size + Total(e, S \ {x}) /\ Total(e, S \ {x}) \in Nat
  <2>1. g[S] = e[x].size + g[S \ {x}] /\ S \ {x} \in SUBSET S
    BY <1>6
  <2> QED
    BY <1>2, <1>6, <2>1
<1> QED
  BY <1>2, <1>5, <1>6, <1>7

\* A set of entries in two parts.
LEMMA TotalSplit ==
  ASSUME NEW S, IsFiniteSet(S), NEW e, Sized(e, S), NEW K \in SUBSET S
  PROVE  /\ Total(e, S) = Total(e, S \ K) + Total(e, K)
         /\ Total(e, S) \in Nat /\ Total(e, K) \in Nat /\ Total(e, S \ K) \in Nat
<1> DEFINE T == {k \in SUBSET S : Total(e, S) = Total(e, S \ k) + Total(e, k)}
<1>1. \A s \in SUBSET S : IsFiniteSet(s) /\ Sized(e, s)
  BY FS_Subset DEF Sized
<1>2. ASSUME NEW k \in SUBSET S, \A x \in k : k \ {x} \in T PROVE k \in T
  <2>1. CASE k = {}
    <3>1. S \ k = S /\ Total(e, k) = 0 /\ Total(e, S) \in Nat
      BY <1>1, <2>1, TotalFacts
    <3>2. Total(e, S) = Total(e, S) + 0
      BY <3>1
    <3>3. Total(e, S) = Total(e, S \ k) + Total(e, k)
      BY <3>1, <3>2
    <3> QED
      BY <3>3
  <2>2. CASE k # {}
    <3>1. PICK x \in k : TRUE
      BY <2>2
    <3> DEFINE more == S \ (k \ {x})
    <3>2. Total(e, S) = Total(e, more) + Total(e, k \ {x})
      BY <1>2
    <3>3. more \ {x} = S \ k /\ x \in more /\ more \in SUBSET S
      OBVIOUS
    <3>4. Total(e, more) = e[x].size + Total(e, S \ k) /\ Total(e, S \ k) \in Nat
      <4> HIDE DEF more
      <4> QED
        BY <1>1, <3>3, TotalFacts
    <3>5. Total(e, k) = e[x].size + Total(e, k \ {x}) /\ Total(e, k \ {x}) \in Nat
      BY <1>1, TotalFacts
    <3>6. e[x].size \in Nat
      BY DEF Sized
    <3> HIDE DEF more
    <3>7. Total(e, S) = Total(e, S \ k) + Total(e, k)
      BY <3>2, <3>4, <3>5, <3>6
    <3> QED
      BY <3>7
  <2> QED
    BY <2>1, <2>2
<1>3. SUBSET S \subseteq T
  <2> HIDE DEF T
  <2> QED
    BY <1>2, SubsetInduction
<1>4. S \ K \in SUBSET S
  OBVIOUS
<1> QED
  BY <1>1, <1>3, <1>4, TotalFacts

\* Entries of the same sizes.
LEMMA TotalSame ==
  ASSUME NEW S, IsFiniteSet(S), NEW e, NEW f, Sized(e, S), \A k \in S : f[k].size = e[k].size
  PROVE  Total(f, S) = Total(e, S)
<1> DEFINE T == {k \in SUBSET S : Total(f, k) = Total(e, k)}
<1>1. \A s \in SUBSET S : IsFiniteSet(s) /\ Sized(e, s) /\ Sized(f, s)
  BY FS_Subset DEF Sized
<1>2. ASSUME NEW k \in SUBSET S, \A x \in k : k \ {x} \in T PROVE k \in T
  <2>1. CASE k = {}
    BY <1>1, <2>1, TotalFacts
  <2>2. CASE k # {}
    <3>1. PICK x \in k : TRUE
      BY <2>2
    <3>2. Total(f, k) = f[x].size + Total(f, k \ {x}) /\ Total(e, k) = e[x].size + Total(e, k \ {x})
      BY <1>1, TotalFacts
    <3> QED
      BY <1>2, <3>2
  <2> QED
    BY <2>1, <2>2
<1>3. SUBSET S \subseteq T
  <2> HIDE DEF T
  <2> QED
    BY <1>2, SubsetInduction
<1> QED
  BY <1>3

-----------------------------------------------------------------------------
(* Lists.                                                                  *)

\* The list o without the keys K.
Rest(o, K) == FoldLeft(LAMBDA rest, k : IF k \in K THEN rest ELSE Append(rest, k), <<>>, o)

\* What comes earlier in r comes earlier in o, as far as m.
SubList(r, o, m) ==
  \A i, j \in 1..Len(r) : i < j => \E a, b \in 1..m : a < b /\ r[i] = o[a] /\ r[j] = o[b]

LEMMA ListType ==
  ASSUME NEW o \in Seq(Key)
  PROVE  /\ Len(o) \in Nat /\ DOMAIN o = 1..Len(o) /\ o \in [1..Len(o) -> Key]
         /\ \A i \in 1..Len(o) : o[i] \in Key
         /\ ToSet(o) = {o[i] : i \in 1..Len(o)}
BY LenProperties DEF ToSet

\* Add one element at the back.
LEMMA AppendFacts ==
  ASSUME NEW r \in Seq(Key), NEW x \in Key
  PROVE  /\ Append(r, x) \in Seq(Key) /\ Len(Append(r, x)) = Len(r) + 1
         /\ Append(r, x)[Len(r) + 1] = x
         /\ \A i \in 1..Len(r) : Append(r, x)[i] = r[i]
         /\ 1..Len(Append(r, x)) = (1..Len(r)) \cup {Len(r) + 1}
<1>1. Len(r) \in Nat
  BY LenProperties
<1> QED
  BY <1>1

\* Add one element at the front.
LEMMA PrependFacts ==
  ASSUME NEW r \in Seq(Key), NEW x \in Key
  PROVE  /\ <<x>> \o r \in Seq(Key) /\ Len(<<x>> \o r) = Len(r) + 1
         /\ (<<x>> \o r)[1] = x
         /\ \A i \in 2..(Len(r) + 1) : (<<x>> \o r)[i] = r[i - 1]
<1>1. <<x>> \in Seq(Key) /\ Len(<<x>>) = 1 /\ <<x>>[1] = x /\ Len(r) \in Nat
  BY LenProperties
<1>2. /\ <<x>> \o r \in Seq(Key) /\ Len(<<x>> \o r) = 1 + Len(r)
      /\ \A i \in 1..(1 + Len(r)) : (<<x>> \o r)[i] = IF i <= 1 THEN <<x>>[i] ELSE r[i - 1]
  BY <1>1, ConcatProperties
<1> QED
  BY <1>1, <1>2

\* The loop that keeps what is not in K.
LEMMA RestFacts ==
  ASSUME NEW o \in Seq(Key), NEW K
  PROVE  /\ Rest(o, K) \in Seq(Key) /\ ToSet(Rest(o, K)) = ToSet(o) \ K
         /\ SubList(Rest(o, K), o, Len(o))
<1> DEFINE n == Len(o)
           V == Seq(Key)
           Turn(rest, k) == IF k \in K THEN rest ELSE Append(rest, k)
           Is(g) == g = [s \in SUBSET (1..n) |-> IF s = {} THEN <<>> ELSE Turn(g[s \ {Max(s)}], o[Max(s)])]
           G == CHOOSE g : Is(g)
<1>1. n \in Nat /\ DOMAIN o = 1..n /\ \A i \in 1..n : o[i] \in Key
  BY ListType
<1>2. <<>> \in V
  OBVIOUS
<1>3. ASSUME NEW v \in V, NEW k \in Key PROVE Turn(v, k) \in V
  BY AppendFacts
<1>4. Rest(o, K) = G[1..n]
  BY <1>1 DEF Rest, FoldLeft, MapThenFoldSet
<1>5. \E g : Is(g)
  <2> DEFINE h == [p \in (1..n) \X V |-> Turn(p[2], o[p[1]])]
  <2>1. h \in [(1..n) \X V -> V]
    <3> HIDE DEF V, n, Turn
    <3> QED
      BY <1>1, <1>3
  <2> HIDE DEF V, Turn
  <2>2. PICK g \in [SUBSET (1..n) -> V] : FoldsIndices(g, n, <<>>, h)
    <3>1. n \in Nat
      BY <1>1
    <3> HIDE DEF h, n
    <3> QED
      BY <1>2, <2>1, <3>1, IndexFold
  <2>3. ASSUME NEW s \in SUBSET (1..n), s # {}
        PROVE  h[<<Max(s), g[s \ {Max(s)}]>>] = Turn(g[s \ {Max(s)}], o[Max(s)])
    <3>1. Max(s) \in 1..n /\ s \ {Max(s)} \in SUBSET (1..n)
      BY <1>1, <2>3, MaxIndex
    <3>2. g[s \ {Max(s)}] \in V
      BY <2>2, <3>1
    <3> QED
      BY <3>1, <3>2
  <2>4. ASSUME NEW s \in SUBSET (1..n)
        PROVE  g[s] = IF s = {} THEN <<>> ELSE Turn(g[s \ {Max(s)}], o[Max(s)])
    BY <2>2, <2>3 DEF FoldsIndices
  <2>5. Is(g)
    BY <2>2, <2>4
  <2> QED
    BY <2>5
<1>6. Is(G)
  BY <1>5
<1> HIDE DEF G
<1>7. G[1..0] = <<>> /\ \A i \in 1..n : G[1..i] = Turn(G[1..(i - 1)], o[i])
  <2>1. 1..0 = {} /\ G[{}] = <<>>
    BY <1>6
  <2>2. ASSUME NEW i \in 1..n PROVE G[1..i] = Turn(G[1..(i - 1)], o[i])
    <3>1. 1..i \in SUBSET (1..n) /\ 1..i # {} /\ Max(1..i) = i /\ (1..i) \ {i} = 1..(i - 1)
      BY <1>1, MaxOfFirst
    <3> HIDE DEF Turn
    <3>2. G[1..i] = Turn(G[(1..i) \ {Max(1..i)}], o[Max(1..i)])
      BY <1>6, <3>1
    <3> QED
      BY <3>1, <3>2
  <2> QED
    BY <2>1, <2>2
<1> HIDE DEF Is
<1> DEFINE Loop(m, r) ==
             /\ r \in V /\ SubList(r, o, m)
             /\ \A i \in 1..Len(r) : \E a \in 1..m : r[i] = o[a] /\ o[a] \notin K
             /\ \A a \in 1..m : o[a] \notin K => \E i \in 1..Len(r) : r[i] = o[a]
           T == {m \in 0..n : Loop(m, G[1..m])}
<1>8. 0 \in T
  <2>1. 0 \in 0..n /\ 1..0 = {} /\ Len(<<>>) = 0 /\ 1..Len(<<>>) = {}
    BY <1>1
  <2>2. Loop(0, <<>>)
    BY <1>2, <2>1 DEF SubList
  <2> HIDE DEF Loop
  <2> QED
    BY <1>7, <2>1, <2>2
<1>9. ASSUME NEW m \in 0..(n - 1), m \in T PROVE m + 1 \in T
  <2> DEFINE x == o[m + 1]
  <2>1. PICK r : r = G[1..m] /\ Loop(m, r)
    BY <1>9
  <2>2. m \in Nat /\ m + 1 \in 1..n /\ m + 1 \in 0..n /\ 1..(m + 1) = (1..m) \cup {m + 1} /\ x \in Key
    BY <1>1
  <2>3. G[1..(m + 1)] = Turn(r, x)
    BY <1>1, <1>7, <2>1, <2>2
  <2>4. r \in Seq(Key) /\ Len(r) \in Nat
    BY <2>1, ListType
  <2>5. CASE x \in K
    <3>1. Loop(m + 1, r)
      <4>1. SubList(r, o, m + 1)
        BY <2>1, <2>2 DEF SubList
      <4> QED
        BY <2>1, <2>2, <2>5, <4>1
    <3>2. G[1..(m + 1)] = r
      BY <2>3, <2>5
    <3> HIDE DEF Loop
    <3> QED
      BY <2>2, <3>1, <3>2
  <2>6. CASE x \notin K
    <3>1. PICK q : q = Append(r, x)
      OBVIOUS
    <3>2. /\ q \in Seq(Key) /\ Len(q) = Len(r) + 1 /\ q[Len(r) + 1] = x
          /\ \A i \in 1..Len(r) : q[i] = r[i]
          /\ 1..Len(q) = (1..Len(r)) \cup {Len(r) + 1}
      BY <2>2, <2>4, <3>1, AppendFacts
    <3>3. SubList(q, o, m + 1)
      <4> SUFFICES ASSUME NEW i \in 1..Len(q), NEW j \in 1..Len(q), i < j
                   PROVE  \E a, b \in 1..(m + 1) : a < b /\ q[i] = o[a] /\ q[j] = o[b]
        BY DEF SubList
      <4>1. i \in 1..Len(r)
        BY <2>4, <3>2
      <4>2. CASE j \in 1..Len(r)
        <5>1. PICK a \in 1..m, b \in 1..m : a < b /\ r[i] = o[a] /\ r[j] = o[b]
          BY <2>1, <4>1, <4>2 DEF SubList
        <5> QED
          BY <2>2, <3>2, <4>1, <4>2, <5>1
      <4>3. CASE j = Len(r) + 1
        <5>1. PICK a \in 1..m : r[i] = o[a]
          BY <2>1, <4>1
        <5>2. a < m + 1 /\ a \in 1..(m + 1) /\ m + 1 \in 1..(m + 1)
          BY <2>2
        <5>3. q[i] = o[a] /\ q[j] = o[m + 1]
          BY <3>2, <4>1, <4>3, <5>1
        <5> QED
          BY <5>2, <5>3
      <4> QED
        BY <3>2, <4>2, <4>3
    <3>4. \A i \in 1..Len(q) : \E a \in 1..(m + 1) : q[i] = o[a] /\ o[a] \notin K
      <4>1. ASSUME NEW i \in 1..Len(r) PROVE \E a \in 1..(m + 1) : q[i] = o[a] /\ o[a] \notin K
        BY <2>1, <2>2, <3>2
      <4>2. q[Len(r) + 1] = o[m + 1] /\ o[m + 1] \notin K /\ m + 1 \in 1..(m + 1)
        BY <2>2, <2>6, <3>2
      <4> HIDE DEF x
      <4> QED
        BY <3>2, <4>1, <4>2
    <3>5. \A a \in 1..(m + 1) : o[a] \notin K => \E i \in 1..Len(q) : q[i] = o[a]
      BY <2>1, <2>2, <2>6, <3>2
    <3>6. Loop(m + 1, q)
      BY <3>2, <3>3, <3>4, <3>5
    <3>7. G[1..(m + 1)] = q
      BY <2>3, <2>6, <3>1
    <3> HIDE DEF Loop
    <3> QED
      BY <2>2, <3>6, <3>7
  <2> QED
    BY <2>5, <2>6
<1>10. n \in T
  <2>1. n \in Nat /\ n \in 0..n
    BY <1>1
  <2> HIDE DEF T, n
  <2>2. \A m \in 0..n : m \in T
    BY <1>8, <1>9, <2>1, BoundedInduction
  <2> QED
    BY <2>1, <2>2
<1>11. PICK r : r = Rest(o, K) /\ Loop(n, r)
  BY <1>4, <1>10
<1>12. ToSet(r) = {r[i] : i \in 1..Len(r)} /\ ToSet(o) = {o[i] : i \in 1..n}
  BY <1>11, ListType
<1>13. ToSet(r) = ToSet(o) \ K
  <2>1. ASSUME NEW k \in ToSet(r) PROVE k \in ToSet(o) \ K
    <3>1. PICK i \in 1..Len(r) : k = r[i]
      BY <1>12
    <3>2. PICK a \in 1..n : r[i] = o[a] /\ o[a] \notin K
      BY <1>11
    <3> HIDE DEF n
    <3> QED
      BY <1>12, <3>1, <3>2
  <2>2. ASSUME NEW k \in ToSet(o) \ K PROVE k \in ToSet(r)
    <3>1. PICK a \in 1..n : k = o[a]
      BY <1>12
    <3>2. PICK i \in 1..Len(r) : r[i] = o[a]
      BY <1>11, <3>1
    <3> HIDE DEF n
    <3> QED
      BY <1>12, <3>1, <3>2
  <2> QED
    BY <2>1, <2>2
<1> QED
  BY <1>11, <1>13

\* A part of a list without repetitions has none.
LEMMA SubListInjective ==
  ASSUME NEW o \in Seq(Key), NEW r \in Seq(Key), SubList(r, o, Len(o)), IsInjective(o)
  PROVE  IsInjective(r)
<1>1. /\ Len(o) \in Nat /\ DOMAIN o = 1..Len(o) /\ Len(r) \in Nat /\ DOMAIN r = 1..Len(r)
  BY ListType
<1>2. ASSUME NEW i \in 1..Len(r), NEW j \in 1..Len(r), i < j PROVE r[i] # r[j]
  <2>1. PICK a \in 1..Len(o), b \in 1..Len(o) : a < b /\ r[i] = o[a] /\ r[j] = o[b]
    BY <1>2 DEF SubList
  <2>2. a # b
    BY <1>1, <2>1
  <2> QED
    BY <1>1, <2>1, <2>2 DEF IsInjective
<1>3. \A i, j \in 1..Len(r) : i < j \/ j < i \/ i = j
  BY <1>1
<1> QED
  BY <1>1, <1>2, <1>3 DEF IsInjective

\* Places of a list without repetitions, and the keys that are there.
LEMMA PlacesCounted ==
  ASSUME NEW o \in Seq(Key), IsInjective(o), NEW A \in SUBSET (1..Len(o)), IsFiniteSet(A)
  PROVE  IsFiniteSet({o[i] : i \in A}) /\ Cardinality({o[i] : i \in A}) = Cardinality(A)
<1> DEFINE B == {o[i] : i \in A}
           f == [i \in A |-> o[i]]
<1>1. f \in [A -> B] /\ \A b \in B : \E i \in A : f[i] = b
  OBVIOUS
<1>2. DOMAIN o = 1..Len(o)
  BY ListType
<1>3. IsInjective(f)
  BY <1>2 DEF IsInjective
<1>4. f \in Bijection(A, B)
  BY <1>1, <1>3 DEF Bijection, Injection, Surjection
<1>5. ExistsBijection(A, B)
  BY <1>4 DEF ExistsBijection
<1> HIDE DEF B
<1> QED
  BY <1>5, FS_Bijection DEF B

\* A list without repetitions is as long as it has keys.
LEMMA LengthIsCount ==
  ASSUME NEW o \in Seq(Key), IsInjective(o)
  PROVE  IsFiniteSet(ToSet(o)) /\ Cardinality(ToSet(o)) = Len(o)
<1>1. Len(o) \in Nat /\ ToSet(o) = {o[i] : i \in 1..Len(o)}
  BY ListType
<1>2. IsFiniteSet(1..Len(o)) /\ Cardinality(1..Len(o)) = Len(o)
  <2>1. PICK n \in Nat : n = Len(o)
    BY <1>1
  <2>2. 1 \in Int /\ n \in Int
    OBVIOUS
  <2>3. IsFiniteSet(1..n) /\ Cardinality(1..n) = IF 1 > n THEN 0 ELSE n - 1 + 1
    BY <2>2, FS_Interval
  <2>4. Cardinality(1..n) = n
    BY <2>3
  <2> QED
    BY <2>1, <2>3, <2>4
<1> QED
  BY <1>1, <1>2, PlacesCounted

-----------------------------------------------------------------------------
(* A cache with the entries e, the list o and the size count size at time  *)
(* t, before and after the changes of its methods.                         *)

Ordered(e, o, policy) ==
  \A i, j \in 1..Len(o) : i < j =>
    IF policy = "LRU" THEN e[o[i]].accessedAt >= e[o[j]].accessedAt ELSE e[o[i]].createdAt <= e[o[j]].createdAt

Good(e, o, size, t, policy) ==
  /\ t \in Nat
  /\ DOMAIN e \subseteq Key /\ e \in [DOMAIN e -> Entry] /\ o \in Seq(Key)
  /\ IsInjective(o) /\ ToSet(o) = DOMAIN e
  /\ \A k \in DOMAIN e : e[k].createdAt <= t /\ e[k].accessedAt <= t
  /\ Ordered(e, o, policy)
  /\ size = Total(e, DOMAIN e)

LEMMA GoodFacts ==
  ASSUME NEW e, NEW o, NEW size, NEW t, NEW policy, Good(e, o, size, t, policy)
  PROVE  /\ IsFiniteSet(DOMAIN e) /\ Cardinality(DOMAIN e) = Len(o) /\ Len(o) \in Nat
         /\ Sized(e, DOMAIN e) /\ size \in Nat
         /\ \A k \in DOMAIN e : /\ e[k].createdAt \in Nat /\ e[k].accessedAt \in Nat
                                /\ e[k].size \in Nat /\ e[k].value \in Value
         /\ \A i \in 1..Len(o) : o[i] \in DOMAIN e
<1>1. IsFiniteSet(DOMAIN e) /\ Cardinality(DOMAIN e) = Len(o)
  BY LengthIsCount DEF Good
<1>2. \A k \in DOMAIN e : e[k] \in Entry
  BY DEF Good
<1>3. Sized(e, DOMAIN e)
  BY <1>2 DEF Sized, Entry
<1>4. size \in Nat
  BY <1>1, <1>3, TotalFacts DEF Good
<1>5. Len(o) \in Nat /\ \A i \in 1..Len(o) : o[i] \in DOMAIN e
  BY ListType DEF Good
<1> QED
  BY <1>1, <1>2, <1>3, <1>4, <1>5 DEF Entry

\* Nothing is cached.
LEMMA EmptyCache ==
  ASSUME NEW t \in Nat, NEW policy
  PROVE  Good(<<>>, <<>>, 0, t, policy) /\ Len(<<>>) = 0
<1>1. /\ DOMAIN <<>> = {} /\ Len(<<>>) = 0 /\ 1..Len(<<>>) = {} /\ <<>> \in Seq(Key)
      /\ <<>> \in [DOMAIN <<>> -> Entry]
  OBVIOUS
<1>2. ToSet(<<>>) = {} /\ IsInjective(<<>>)
  BY <1>1 DEF ToSet, IsInjective
<1>3. IsFiniteSet({}) /\ Sized(<<>>, {})
  BY FS_EmptySet DEF Sized
<1>4. Total(<<>>, {}) = 0
  BY <1>3, TotalFacts
<1>5. Ordered(<<>>, <<>>, policy)
  BY <1>1 DEF Ordered
<1> QED
  BY <1>1, <1>2, <1>4, <1>5 DEF Good

\* The entries without those of K.
Minus(e, K) == [k \in DOMAIN e \ K |-> e[k]]

\* removeElement, for the keys K.
LEMMA Unlink ==
  ASSUME NEW e, NEW o, NEW size, NEW t, NEW policy, Good(e, o, size, t, policy), NEW K \in SUBSET DOMAIN e,
         NEW f, f = Minus(e, K), NEW r, r = Rest(o, K), NEW less, less = size - Total(e, K)
  PROVE  Good(f, r, less, t, policy) /\ Len(r) = Len(o) - Cardinality(K)
<1>1. r \in Seq(Key) /\ ToSet(r) = DOMAIN e \ K /\ SubList(r, o, Len(o)) /\ o \in Seq(Key)
  BY RestFacts DEF Good
<1>2. IsInjective(r)
  BY <1>1, SubListInjective DEF Good
<1>3. /\ DOMAIN f = DOMAIN e \ K /\ DOMAIN f \subseteq Key /\ f \in [DOMAIN f -> Entry] /\ t \in Nat
      /\ \A k \in DOMAIN f : f[k] = e[k] /\ f[k].createdAt <= t /\ f[k].accessedAt <= t
  BY DEF Good, Minus
<1>4. ASSUME NEW i \in 1..Len(r) PROVE r[i] \in DOMAIN f
  BY <1>1, <1>3, ListType
<1>5. Ordered(f, r, policy)
  <2> SUFFICES ASSUME NEW i \in 1..Len(r), NEW j \in 1..Len(r), i < j
               PROVE  IF policy = "LRU" THEN f[r[i]].accessedAt >= f[r[j]].accessedAt
                      ELSE f[r[i]].createdAt <= f[r[j]].createdAt
    BY DEF Ordered
  <2>1. PICK a \in 1..Len(o), b \in 1..Len(o) : a < b /\ r[i] = o[a] /\ r[j] = o[b]
    BY <1>1 DEF SubList
  <2>2. IF policy = "LRU" THEN e[o[a]].accessedAt >= e[o[b]].accessedAt ELSE e[o[a]].createdAt <= e[o[b]].createdAt
    BY <2>1 DEF Good, Ordered
  <2>3. f[r[i]] = e[o[a]] /\ f[r[j]] = e[o[b]]
    BY <1>3, <1>4, <2>1
  <2> QED
    BY <2>2, <2>3
<1>6. IsFiniteSet(DOMAIN e) /\ Sized(e, DOMAIN e) /\ Cardinality(DOMAIN e) = Len(o)
  BY GoodFacts
<1>7. Total(f, DOMAIN f) = size - Total(e, K)
  <2> DEFINE S == DOMAIN e
             D == S \ K
  <2>1. /\ Total(e, S) = Total(e, D) + Total(e, K)
        /\ Total(e, S) \in Nat /\ Total(e, K) \in Nat /\ Total(e, D) \in Nat
    <3> HIDE DEF S
    <3> QED
      BY <1>6, TotalSplit DEF S
  <2>2. IsFiniteSet(D) /\ Sized(e, D)
    BY <1>6, FS_Subset DEF Sized
  <2>3. DOMAIN f = D /\ \A k \in D : f[k].size = e[k].size
    BY <1>3
  <2> HIDE DEF D
  <2>4. Total(f, D) = Total(e, D)
    BY <2>2, <2>3, TotalSame
  <2>5. size = Total(e, S)
    BY DEF Good
  <2> HIDE DEF S
  <2>6. Total(e, D) = size - Total(e, K)
    BY <2>1, <2>5
  <2> QED
    BY <2>3, <2>4, <2>6
<1>8. Len(r) = Len(o) - Cardinality(K)
  <2>1. Cardinality(ToSet(r)) = Len(r)
    BY <1>1, <1>2, LengthIsCount
  <2>2. DOMAIN e \cap K = K
    OBVIOUS
  <2>3. Cardinality(DOMAIN e \ K) = Cardinality(DOMAIN e) - Cardinality(K)
    <3> DEFINE S == DOMAIN e
    <3>1. IsFiniteSet(S) /\ S \cap K = K
      BY <1>6, <2>2
    <3> HIDE DEF S
    <3>2. Cardinality(S \ K) = Cardinality(S) - Cardinality(S \cap K)
      BY <3>1, FS_Difference
    <3>3. Cardinality(S \ K) = Cardinality(S) - Cardinality(K)
      BY <3>1, <3>2
    <3> QED
      BY <3>3 DEF S
  <2> QED
    BY <1>1, <1>6, <2>1, <2>3
<1>9. Good(f, r, less, t, policy)
  BY <1>1, <1>2, <1>3, <1>5, <1>7 DEF Good
<1> QED
  BY <1>8, <1>9

\* The entries with one more.
Plus(e, k, entry) == [j \in DOMAIN e \cup {k} |-> IF j = k THEN entry ELSE e[j]]

Grown(e, k, entry, f, size, t) ==
  /\ DOMAIN f = DOMAIN e \cup {k} /\ f \in [DOMAIN f -> Entry] /\ f[k] = entry
  /\ \A j \in DOMAIN e : f[j] = e[j] /\ j # k
  /\ \A j \in DOMAIN f : f[j].createdAt <= t /\ f[j].accessedAt <= t
  /\ Total(f, DOMAIN f) = size + entry.size

LEMMA PlusFacts ==
  ASSUME NEW e, NEW o, NEW size, NEW t, NEW policy, Good(e, o, size, t, policy),
         NEW k \in Key \ DOMAIN e, NEW entry \in Entry, entry.createdAt <= t, entry.accessedAt <= t,
         NEW f, f = Plus(e, k, entry)
  PROVE  Grown(e, k, entry, f, size, t)
<1>1. /\ DOMAIN f = DOMAIN e \cup {k} /\ f \in [DOMAIN f -> Entry] /\ f[k] = entry
      /\ \A j \in DOMAIN e : f[j] = e[j] /\ j # k
  BY DEF Good, Plus
<1>2. \A j \in DOMAIN f : f[j].createdAt <= t /\ f[j].accessedAt <= t
  BY <1>1 DEF Good
<1>3. IsFiniteSet(DOMAIN e) /\ Sized(e, DOMAIN e) /\ size \in Nat /\ entry.size \in Nat
  BY GoodFacts DEF Entry
<1>4. IsFiniteSet(DOMAIN f) /\ Sized(f, DOMAIN f)
  BY <1>1, <1>3, FS_AddElement DEF Sized
<1>5. Total(f, DOMAIN f) = f[k].size + Total(f, DOMAIN f \ {k})
  BY <1>1, <1>4, TotalFacts
<1>6. DOMAIN f \ {k} = DOMAIN e
  BY <1>1
<1>7. Total(f, DOMAIN e) = Total(e, DOMAIN e)
  BY <1>1, <1>3, TotalSame
<1>8. size = Total(e, DOMAIN e)
  BY DEF Good
<1>9. Total(f, DOMAIN f) = size + entry.size
  BY <1>1, <1>3, <1>5, <1>6, <1>7, <1>8
<1> QED
  BY <1>1, <1>2, <1>9 DEF Grown

\* A list with a key in front of it, or behind it.
Fronted(k, o) == <<k>> \o o

Backed(k, o) == Append(o, k)

\* An entry goes to the front of the list.
LEMMA PushFront ==
  ASSUME NEW e, NEW o, NEW size, NEW t, NEW policy, policy = "LRU", Good(e, o, size, t, policy),
         NEW k \in Key \ DOMAIN e, NEW entry \in Entry, entry.createdAt <= t, entry.accessedAt = t,
         NEW f, f = Plus(e, k, entry), NEW s, s = Fronted(k, o), NEW more, more = size + entry.size
  PROVE  Good(f, s, more, t, policy) /\ Len(s) = Len(o) + 1
<1>1. o \in Seq(Key) /\ Len(o) \in Nat /\ k \in Key /\ t \in Nat /\ entry.accessedAt <= t
  BY ListType DEF Good
<1>2. /\ s \in Seq(Key) /\ Len(s) = Len(o) + 1 /\ s[1] = k
      /\ \A i \in 2..(Len(o) + 1) : s[i] = o[i - 1]
  BY <1>1, PrependFacts DEF Fronted
<1>3. /\ DOMAIN f = DOMAIN e \cup {k} /\ f \in [DOMAIN f -> Entry] /\ f[k] = entry
      /\ \A j \in DOMAIN e : f[j] = e[j] /\ j # k
      /\ \A j \in DOMAIN f : f[j].createdAt <= t /\ f[j].accessedAt <= t
      /\ Total(f, DOMAIN f) = size + entry.size
  <2>1. Grown(e, k, entry, f, size, t)
    BY <1>1, PlusFacts
  <2> QED
    BY <2>1 DEF Grown
<1>4. ASSUME NEW i \in 2..Len(s) PROVE i - 1 \in 1..Len(o) /\ s[i] = o[i - 1] /\ s[i] \in DOMAIN e
  <2>1. i - 1 \in 1..Len(o) /\ s[i] = o[i - 1]
    BY <1>1, <1>2
  <2> QED
    BY <2>1, GoodFacts
<1>5. \A i \in 1..Len(s) : i = 1 \/ i \in 2..Len(s)
  BY <1>1, <1>2
<1>6. IsInjective(s)
  <2> SUFFICES ASSUME NEW i \in 1..Len(s), NEW j \in 1..Len(s), s[i] = s[j] PROVE i = j
    BY <1>2, ListType DEF IsInjective
  <2>1. CASE i \in 2..Len(s) /\ j \in 2..Len(s)
    <3>1. i - 1 \in DOMAIN o /\ j - 1 \in DOMAIN o /\ o[i - 1] = o[j - 1]
      BY <1>1, <1>4, <2>1, ListType
    <3>2. i - 1 = j - 1
      BY <3>1 DEF Good, IsInjective
    <3> QED
      BY <3>2
  <2> QED
    BY <1>2, <1>3, <1>4, <1>5, <2>1
<1>7. ToSet(s) = DOMAIN f
  <2>1. ToSet(s) = {s[i] : i \in 1..Len(s)} /\ ToSet(o) = {o[i] : i \in 1..Len(o)} /\ ToSet(o) = DOMAIN e
    BY <1>1, <1>2, ListType DEF Good
  <2>2. ASSUME NEW x \in ToSet(s) PROVE x \in DOMAIN f
    <3>1. PICK i \in 1..Len(s) : x = s[i]
      BY <2>1
    <3>2. i = 1 \/ s[i] \in DOMAIN e
      BY <1>4, <1>5
    <3> QED
      BY <1>2, <1>3, <3>1, <3>2
  <2>3. ASSUME NEW x \in DOMAIN e PROVE x \in ToSet(s)
    <3>1. PICK i \in 1..Len(o) : x = o[i]
      BY <2>1
    <3>2. i + 1 \in 1..Len(s) /\ s[i + 1] = o[i]
      BY <1>1, <1>2
    <3> QED
      BY <2>1, <3>1, <3>2
  <2>4. k \in ToSet(s)
    <3>1. 1 \in 1..Len(s) /\ s[1] = k
      BY <1>1, <1>2
    <3> QED
      BY <2>1, <3>1
  <2> QED
    BY <1>3, <2>2, <2>3, <2>4
<1>8. Ordered(f, s, policy)
  <2> SUFFICES ASSUME NEW i \in 1..Len(s), NEW j \in 1..Len(s), i < j
               PROVE  f[s[i]].accessedAt >= f[s[j]].accessedAt
    BY DEF Ordered
  <2>1. j \in 2..Len(s)
    BY <1>1, <1>2
  <2>2. s[j] \in DOMAIN e /\ f[s[j]] = e[s[j]] /\ f[s[j]].accessedAt \in Nat /\ f[s[j]].accessedAt <= t
    BY <1>3, <1>4, <2>1, GoodFacts
  <2>3. CASE i = 1
    BY <1>1, <1>2, <1>3, <2>2, <2>3
  <2>4. CASE i \in 2..Len(s)
    <3>1. i - 1 \in 1..Len(o) /\ j - 1 \in 1..Len(o) /\ i - 1 < j - 1
      BY <1>4, <2>1, <2>4
    <3>2. e[o[i - 1]].accessedAt >= e[o[j - 1]].accessedAt
      BY <3>1 DEF Good, Ordered
    <3>3. s[i] = o[i - 1] /\ s[j] = o[j - 1] /\ f[s[i]] = e[s[i]]
      BY <1>3, <1>4, <2>1, <2>4
    <3> QED
      BY <2>2, <3>2, <3>3
  <2> QED
    BY <1>5, <2>3, <2>4
<1>9. DOMAIN f \subseteq Key
  BY <1>3 DEF Good
<1> QED
  BY <1>1, <1>2, <1>3, <1>6, <1>7, <1>8, <1>9 DEF Good

\* An entry goes to the back of the list.
LEMMA PushBack ==
  ASSUME NEW e, NEW o, NEW size, NEW t, NEW policy, policy # "LRU", Good(e, o, size, t, policy),
         NEW k \in Key \ DOMAIN e, NEW entry \in Entry, entry.createdAt = t, entry.accessedAt <= t,
         NEW f, f = Plus(e, k, entry), NEW s, s = Backed(k, o), NEW more, more = size + entry.size
  PROVE  Good(f, s, more, t, policy) /\ Len(s) = Len(o) + 1
<1>1. o \in Seq(Key) /\ Len(o) \in Nat /\ k \in Key /\ t \in Nat /\ entry.createdAt <= t
  BY ListType DEF Good
<1>2. /\ s \in Seq(Key) /\ Len(s) = Len(o) + 1 /\ s[Len(o) + 1] = k
      /\ \A i \in 1..Len(o) : s[i] = o[i]
      /\ 1..Len(s) = (1..Len(o)) \cup {Len(o) + 1}
  BY <1>1, AppendFacts DEF Backed
<1>3. /\ DOMAIN f = DOMAIN e \cup {k} /\ f \in [DOMAIN f -> Entry] /\ f[k] = entry
      /\ \A j \in DOMAIN e : f[j] = e[j] /\ j # k
      /\ \A j \in DOMAIN f : f[j].createdAt <= t /\ f[j].accessedAt <= t
      /\ Total(f, DOMAIN f) = size + entry.size
  <2>1. Grown(e, k, entry, f, size, t)
    BY <1>1, PlusFacts
  <2> QED
    BY <2>1 DEF Grown
<1>4. ASSUME NEW i \in 1..Len(o) PROVE s[i] = o[i] /\ s[i] \in DOMAIN e /\ s[i] # k
  BY <1>2, GoodFacts
<1>5. DOMAIN s = 1..Len(s) /\ DOMAIN o = 1..Len(o)
  BY <1>1, <1>2, ListType
<1>6. IsInjective(s)
  <2> SUFFICES ASSUME NEW i \in 1..Len(s), NEW j \in 1..Len(s), s[i] = s[j] PROVE i = j
    BY <1>5 DEF IsInjective
  <2>1. CASE i \in 1..Len(o) /\ j \in 1..Len(o)
    BY <1>4, <1>5, <2>1 DEF Good, IsInjective
  <2> QED
    BY <1>2, <1>4, <2>1
<1>7. ToSet(s) = DOMAIN f
  <2>1. ToSet(s) = {s[i] : i \in 1..Len(s)} /\ ToSet(o) = {o[i] : i \in 1..Len(o)} /\ ToSet(o) = DOMAIN e
    BY <1>1, <1>2, ListType DEF Good
  <2>2. ASSUME NEW x \in ToSet(s) PROVE x \in DOMAIN f
    BY <1>2, <1>3, <1>4, <2>1
  <2>3. ASSUME NEW x \in DOMAIN e PROVE x \in ToSet(s)
    <3>1. PICK i \in 1..Len(o) : x = o[i]
      BY <2>1
    <3> QED
      BY <1>2, <2>1, <3>1
  <2>4. k \in ToSet(s)
    BY <1>2, <2>1
  <2> QED
    BY <1>3, <2>2, <2>3, <2>4
<1>8. Ordered(f, s, policy)
  <2> SUFFICES ASSUME NEW i \in 1..Len(s), NEW j \in 1..Len(s), i < j
               PROVE  f[s[i]].createdAt <= f[s[j]].createdAt
    BY DEF Ordered
  <2>1. i \in 1..Len(o)
    BY <1>1, <1>2
  <2>2. f[s[i]] = e[s[i]] /\ f[s[i]].createdAt <= t
    BY <1>3, <1>4, <2>1
  <2>3. CASE j = Len(o) + 1
    BY <1>2, <1>3, <2>2, <2>3
  <2>4. CASE j \in 1..Len(o)
    <3>1. e[o[i]].createdAt <= e[o[j]].createdAt
      BY <2>1, <2>4 DEF Good, Ordered
    <3> QED
      BY <1>3, <1>4, <2>1, <2>4, <3>1
  <2> QED
    BY <1>2, <2>3, <2>4
<1>9. DOMAIN f \subseteq Key
  BY <1>3 DEF Good
<1> QED
  BY <1>1, <1>2, <1>3, <1>6, <1>7, <1>8, <1>9 DEF Good

\* The size of one entry.
LEMMA TotalOne ==
  ASSUME NEW e, NEW k, e[k].size \in Nat
  PROVE  Total(e, {k}) = e[k].size
<1>1. IsFiniteSet({k}) /\ IsFiniteSet({}) /\ Sized(e, {k}) /\ Sized(e, {})
  BY FS_Singleton, FS_EmptySet DEF Sized
<1>2. {k} \ {k} = {}
  OBVIOUS
<1>3. Total(e, {k}) = e[k].size + Total(e, {})
  BY <1>1, <1>2, TotalFacts
<1>4. Total(e, {}) = 0
  BY <1>1, TotalFacts
<1> QED
  BY <1>3, <1>4

\* An entry goes from its place to the front.
LEMMA MoveFront ==
  ASSUME NEW e, NEW o, NEW size, NEW t, NEW policy, policy = "LRU", Good(e, o, size, t, policy),
         NEW k \in DOMAIN e, NEW entry \in Entry, entry.createdAt <= t, entry.accessedAt = t,
         NEW d, d = Minus(e, {k}), NEW f, f = Plus(d, k, entry),
         NEW r, r = Rest(o, {k}), NEW s, s = Fronted(k, r),
         NEW new, new = size - e[k].size + entry.size
  PROVE  Good(f, s, new, t, policy) /\ Len(s) = Len(o)
<1>1. e[k].size \in Nat /\ k \in Key /\ Len(o) \in Nat
  BY GoodFacts DEF Good
<1>2. PICK less : less = size - Total(e, {k})
  OBVIOUS
<1>3. {k} \in SUBSET DOMAIN e /\ Cardinality({k}) = 1 /\ Total(e, {k}) = e[k].size
  BY <1>1, TotalOne, FS_Singleton
<1>4. Good(d, r, less, t, policy) /\ Len(r) = Len(o) - 1
  BY <1>2, <1>3, Unlink
<1>5. k \in Key \ DOMAIN d
  BY <1>1 DEF Minus
<1>6. new = less + entry.size
  BY <1>2, <1>3
<1>7. Good(f, s, new, t, policy) /\ Len(s) = Len(r) + 1
  BY <1>4, <1>5, <1>6, PushFront
<1>8. Len(s) = Len(o)
  BY <1>1, <1>4, <1>7
<1> QED
  BY <1>7, <1>8

Replaced(e, k, entry) == [e EXCEPT ![k] = entry]

\* An entry is used, or gets another value and size.
LEMMA Touch ==
  ASSUME NEW e, NEW o, NEW size, NEW t, NEW policy, Good(e, o, size, t, policy),
         NEW k \in DOMAIN e, NEW entry \in Entry, entry.createdAt = e[k].createdAt,
         entry.accessedAt <= t, policy = "LRU" => entry.accessedAt = t,
         NEW f, f = Replaced(e, k, entry), NEW s, s = IF policy = "LRU" THEN Fronted(k, Rest(o, {k})) ELSE o,
         NEW new, new = size - e[k].size + entry.size
  PROVE  Good(f, s, new, t, policy) /\ Len(s) = Len(o)
<1>1. /\ IsFiniteSet(DOMAIN e) /\ Sized(e, DOMAIN e) /\ size \in Nat /\ Len(o) \in Nat
      /\ e[k].size \in Nat /\ e[k].createdAt \in Nat /\ entry.size \in Nat
      /\ e[k].createdAt <= t /\ k \in Key /\ e[k] \in Entry
  BY GoodFacts DEF Good, Entry
<1>2. CASE policy = "LRU"
  <2>1. PICK d, r : d = Minus(e, {k}) /\ r = Rest(o, {k})
    OBVIOUS
  <2>2. f = Plus(d, k, entry)
    <3>1. DOMAIN f = DOMAIN e /\ \A j \in DOMAIN e : f[j] = IF j = k THEN entry ELSE e[j]
      BY DEF Replaced
    <3>2. f = [j \in DOMAIN e |-> f[j]]
      BY DEF Replaced
    <3>3. DOMAIN d = DOMAIN e \ {k} /\ DOMAIN d \cup {k} = DOMAIN e /\ \A j \in DOMAIN d : d[j] = e[j]
      BY <2>1 DEF Minus
    <3> QED
      BY <1>1, <3>1, <3>2, <3>3 DEF Plus
  <2>3. s = Fronted(k, r) /\ entry.accessedAt = t /\ entry.createdAt <= t
    BY <1>1, <1>2, <2>1
  <2> QED
    BY <1>2, <2>1, <2>2, <2>3, MoveFront
<1>3. CASE policy # "LRU"
  <2>1. s = o
    BY <1>3
  <2>2. /\ DOMAIN f = DOMAIN e /\ f[k] = entry /\ f \in [DOMAIN f -> Entry]
        /\ \A j \in DOMAIN e : j # k => f[j] = e[j]
        /\ \A j \in DOMAIN e : f[j].createdAt = e[j].createdAt
    BY DEF Good, Replaced
  <2>3. \A j \in DOMAIN f : f[j].createdAt <= t /\ f[j].accessedAt <= t
    BY <1>1, <2>2 DEF Good
  <2>4. Ordered(f, o, policy)
    <3>1. \A i \in 1..Len(o) : o[i] \in DOMAIN e
      BY GoodFacts
    <3> QED
      BY <1>3, <2>2, <3>1 DEF Ordered, Good
  <2>5. Total(f, DOMAIN f) = new
    <3> DEFINE D == DOMAIN e \ {k}
    <3>1. Total(e, DOMAIN e) = e[k].size + Total(e, D) /\ Total(e, D) \in Nat
      BY <1>1, TotalFacts
    <3>2. Sized(f, DOMAIN f)
      BY <1>1, <2>2 DEF Sized
    <3>3. Total(f, DOMAIN f) = entry.size + Total(f, D)
      BY <1>1, <2>2, <3>2, TotalFacts
    <3>4. IsFiniteSet(D) /\ Sized(e, D) /\ \A j \in D : f[j].size = e[j].size
      BY <1>1, <2>2, FS_Subset DEF Sized
    <3>5. Total(f, D) = Total(e, D)
      BY <3>4, TotalSame
    <3>6. size = Total(e, DOMAIN e)
      BY DEF Good
    <3> HIDE DEF D
    <3> QED
      BY <1>1, <3>1, <3>3, <3>5, <3>6
  <2> QED
    BY <2>1, <2>2, <2>3, <2>4, <2>5 DEF Good
<1> QED
  BY <1>2, <1>3

-----------------------------------------------------------------------------
(* Evictions.                                                              *)

\* The keys that n evictions take.
Taken(o, n, policy) == ToSet(IF policy = "LRU" THEN SubSeq(o, Len(o) - n + 1, Len(o)) ELSE SubSeq(o, 1, n))

Places(o, n, policy) == IF policy = "LRU" THEN (Len(o) - n + 1)..Len(o) ELSE 1..n

LEMMA TakenFacts ==
  ASSUME NEW o \in Seq(Key), NEW policy, NEW n \in 0..Len(o)
  PROVE  Taken(o, n, policy) = {o[i] : i \in Places(o, n, policy)} /\ Places(o, n, policy) \in SUBSET (1..Len(o))
<1>1. Len(o) \in Nat /\ n \in Nat /\ n <= Len(o)
  BY ListType
<1> DEFINE a == IF policy = "LRU" THEN Len(o) - n + 1 ELSE 1
           b == IF policy = "LRU" THEN Len(o) ELSE n
           v == SubSeq(o, a, b)
<1>2. a \in Int /\ b \in Int /\ a >= 1 /\ b <= Len(o) /\ a <= b + 1 /\ Places(o, n, policy) = a..b
  BY <1>1 DEF Places
<1>3. Taken(o, n, policy) = ToSet(v)
  BY DEF Taken
<1>4. v \in Seq(Key) /\ Len(v) = b - a + 1 /\ \A i \in 1..(b - a + 1) : v[i] = o[a + i - 1]
  <2> HIDE DEF a, b
  <2>1. a \in 1..(Len(o) + 1) /\ b \in (a - 1)..Len(o)
    BY <1>1, <1>2
  <2> QED
    BY <1>1, <1>2, <2>1, SubSeqProperties
<1> HIDE DEF a, b
<1>5. ToSet(v) = {v[i] : i \in 1..Len(v)}
  <2> HIDE DEF v
  <2> QED
    BY <1>4, ListType
<1> HIDE DEF v
<1>6. ASSUME NEW x \in ToSet(v) PROVE x \in {o[i] : i \in a..b}
  <2>1. PICK i \in 1..(b - a + 1) : x = o[a + i - 1]
    BY <1>4, <1>5
  <2>2. a + i - 1 \in a..b
    BY <1>2
  <2> QED
    BY <2>1, <2>2
<1>7. ASSUME NEW j \in a..b PROVE o[j] \in ToSet(v)
  <2>1. PICK i \in 1..(b - a + 1) : a + i - 1 = j
    <3>1. j - a + 1 \in 1..(b - a + 1) /\ a + (j - a + 1) - 1 = j
      BY <1>2
    <3> QED
      BY <3>1
  <2>2. v[i] = o[j]
    BY <1>4, <2>1
  <2> QED
    BY <1>4, <1>5, <2>2
<1>8. a..b \in SUBSET (1..Len(o))
  BY <1>1, <1>2
<1> QED
  BY <1>2, <1>3, <1>6, <1>7, <1>8

\* No eviction, all of them, and one more.
LEMMA EvictionFacts ==
  ASSUME NEW o \in Seq(Key), IsInjective(o), NEW policy, NEW n \in 0..Len(o)
  PROVE  /\ Taken(o, n, policy) \in SUBSET ToSet(o) /\ Cardinality(Taken(o, n, policy)) = n
         /\ n = Len(o) => Taken(o, n, policy) = ToSet(o)
         /\ n > 0 => \E x \in Taken(o, n, policy) : Taken(o, n - 1, policy) = Taken(o, n, policy) \ {x}
<1> DEFINE P == Places(o, n, policy)
<1>1. Len(o) \in Nat /\ DOMAIN o = 1..Len(o) /\ ToSet(o) = {o[i] : i \in 1..Len(o)} /\ n \in Nat /\ n <= Len(o)
  BY ListType
<1>2. Taken(o, n, policy) = {o[i] : i \in P} /\ P \in SUBSET (1..Len(o))
  BY TakenFacts
<1>3. IsFiniteSet(P) /\ Cardinality(P) = n
  <2>1. PICK a \in Int, b \in Int : P = a..b /\ b - a + 1 = n
    <3>1. CASE policy = "LRU"
      <4>1. Len(o) - n + 1 \in Int /\ Len(o) \in Int /\ Len(o) - (Len(o) - n + 1) + 1 = n
        BY <1>1
      <4> QED
        BY <3>1, <4>1 DEF Places
    <3>2. CASE policy # "LRU"
      <4>1. 1 \in Int /\ n \in Int /\ n - 1 + 1 = n
        BY <1>1
      <4> QED
        BY <3>2, <4>1 DEF Places
    <3> QED
      BY <3>1, <3>2
  <2>2. IsFiniteSet(a..b) /\ Cardinality(a..b) = IF a > b THEN 0 ELSE b - a + 1
    BY FS_Interval
  <2> QED
    BY <1>1, <2>1, <2>2
<1>4. Taken(o, n, policy) \in SUBSET ToSet(o)
  BY <1>1, <1>2
<1>5. Cardinality(Taken(o, n, policy)) = n
  <2> HIDE DEF P
  <2> QED
    BY <1>2, <1>3, PlacesCounted
<1>6. ASSUME n = Len(o) PROVE Taken(o, n, policy) = ToSet(o)
  <2>1. P = 1..Len(o)
    BY <1>1, <1>6 DEF Places
  <2> QED
    BY <1>1, <1>2, <2>1
<1>7. ASSUME n > 0 PROVE \E x \in Taken(o, n, policy) : Taken(o, n - 1, policy) = Taken(o, n, policy) \ {x}
  <2> DEFINE p == IF policy = "LRU" THEN Len(o) - n + 1 ELSE n
             Q == Places(o, n - 1, policy)
  <2>1. n - 1 \in 0..Len(o)
    BY <1>1, <1>7
  <2>2. Taken(o, n - 1, policy) = {o[i] : i \in Q} /\ Q \in SUBSET (1..Len(o))
    BY <2>1, TakenFacts
  <2>3. p \in P /\ Q = P \ {p}
    BY <1>1, <1>7 DEF Places
  <2> HIDE DEF P, Q, p
  <2>4. \A i \in P : o[i] = o[p] => i = p
    BY <1>1, <1>2, <2>3 DEF IsInjective
  <2>5. o[p] \in Taken(o, n, policy) /\ Taken(o, n - 1, policy) = Taken(o, n, policy) \ {o[p]}
    BY <1>2, <2>2, <2>3, <2>4
  <2> QED
    BY <2>5
<1> QED
  BY <1>4, <1>5, <1>6, <1>7

-----------------------------------------------------------------------------
(* The invariant.                                                          *)

Policy == config.EvictionPolicy

LEMMA IInvFacts ==
  ASSUME IInv
  PROVE  /\ Good(items, order, currentSize, now, Policy)
         /\ config \in Settings /\ Len(order) <= config.MaxEntries /\ Len(order) \in Nat
         /\ config.MaxSize \in Nat /\ config.MaxEntries \in Nat \ {0} /\ config.MaxAge \in Nat
         /\ now \in Nat /\ currentSize \in Nat
<1>1. Ordered(items, order, Policy)
  BY DEF IInv, EvictsByPolicy, LRU, Ordered, Policy
<1>2. currentSize = Total(items, DOMAIN items)
  BY DEF IInv, Accounting, SizeOf, Total
<1>3. Good(items, order, currentSize, now, Policy)
  BY <1>1, <1>2 DEF Good, IInv, TypeOK, EntriesTrue, Accounting
<1>4. Len(order) \in Nat
  BY <1>3, GoodFacts
<1> QED
  BY <1>3, <1>4 DEF IInv, TypeOK, Accounting, Settings

\* What a step has to establish.
LEMMA Reassembled ==
  ASSUME Good(items', order', currentSize', now', Policy'), config' \in Settings,
         Len(order') <= config'.MaxEntries, answer' \in Value \cup {Nothing},
         last' \in [Key -> Contract!Written \cup {Nothing}],
         \A k \in DOMAIN items' : /\ last'[k] # Nothing /\ items'[k].value = last'[k].value
                                  /\ items'[k].createdAt <= last'[k].at
  PROVE  IInv'
<1>1. Len(order') = Cardinality(DOMAIN items') /\ currentSize' \in Nat
  BY GoodFacts
<1>2. TypeOK'
  BY <1>1 DEF TypeOK, Good
<1>3. EntriesTrue'
  BY DEF EntriesTrue, Good
<1>4. Accounting'
  <2>1. SizeOf(DOMAIN items)' = Total(items', DOMAIN items')
    BY DEF SizeOf, Total, MapThenSumSet, MapThenFoldSet
  <2> QED
    BY <1>1, <2>1 DEF Accounting, Good
<1>5. EvictsByPolicy'
  BY DEF EvictsByPolicy, Good, Ordered, LRU, Policy
<1> QED
  BY <1>2, <1>3, <1>4, <1>5 DEF IInv, Good

\* Entries go, and what was written for the others stays.
LEMMA Removal ==
  ASSUME IInv, NEW K \in SUBSET DOMAIN items, removeElement(K), config' \in Settings,
         config'.EvictionPolicy = config.EvictionPolicy, config'.MaxEntries = config.MaxEntries,
         now' = now, answer' \in Value \cup {Nothing},
         last' \in [Key -> Contract!Written \cup {Nothing}],
         \A k \in DOMAIN items \ K : last'[k] = last[k]
  PROVE  IInv' /\ Len(order') = Len(order) - Cardinality(K)
<1>1. /\ Good(items, order, currentSize, now, Policy)
      /\ Len(order) <= config.MaxEntries /\ Len(order) \in Nat /\ config.MaxEntries \in Nat
  BY IInvFacts
<1>2. /\ items' = Minus(items, K) /\ order' = Rest(order, K)
      /\ currentSize' = currentSize - Total(items, K)
  BY DEF removeElement, Without, Minus, Remaining, Rest, SizeOf, Total
<1>3. Good(items', order', currentSize', now, Policy) /\ Len(order') = Len(order) - Cardinality(K)
  BY <1>1, <1>2, Unlink
<1>4. Good(items', order', currentSize', now', Policy')
  <2>1. Policy' = Policy
    BY DEF Policy
  <2> QED
    BY <1>3, <2>1
<1>5. IsFiniteSet(DOMAIN items)
  BY <1>1, GoodFacts
<1>6. Cardinality(K) \in Nat
  BY <1>5, FS_Subset, FS_CardinalityType
<1>7. Len(order') <= config'.MaxEntries
  BY <1>1, <1>3, <1>6
<1>8. ASSUME NEW k \in DOMAIN items'
      PROVE  last'[k] # Nothing /\ items'[k].value = last'[k].value /\ items'[k].createdAt <= last'[k].at
  <2>1. k \in DOMAIN items \ K /\ items'[k] = items[k]
    BY <1>2, <1>8 DEF Minus
  <2>2. last'[k] = last[k]
    BY <2>1
  <2> QED
    BY <2>1, <2>2 DEF IInv, EntriesTrue
<1>9. IInv'
  BY <1>4, <1>7, <1>8, Reassembled
<1> QED
  BY <1>3, <1>9

\* The value last set.
LEMMA WroteFacts ==
  ASSUME IInv, NEW k \in Key, NEW v \in Value, Wrote(k, v)
  PROVE  /\ last' \in [Key -> Contract!Written \cup {Nothing}]
         /\ last'[k] # Nothing /\ last'[k].value = v /\ last'[k].at = now
         /\ \A j \in Key \ {k} : last'[j] = last[j]
<1>1. last \in [Key -> Contract!Written \cup {Nothing}] /\ now \in Nat
  BY DEF IInv, TypeOK
<1>2. PICK w : w = [value |-> v, at |-> now]
  OBVIOUS
<1>3. w \in [value : Value, at : Nat] /\ w.value = v /\ w.at = now
  BY <1>1, <1>2
<1>4. w \in Contract!Written /\ w # Nothing
  BY <1>3, CacheAssumption DEF Contract!Written
<1>5. last' = [last EXCEPT ![k] = w]
  BY <1>2 DEF Wrote
<1> QED
  BY <1>1, <1>3, <1>4, <1>5

LEMMA GetSteps ==
  ASSUME IInv, NEW k \in Key, GetMiss(k) \/ GetExpired(k) \/ GetHit(k)
  PROVE  IInv' /\ config' = config /\ DOMAIN items' \subseteq DOMAIN items
<1>1. /\ Good(items, order, currentSize, now, Policy) /\ config \in Settings
      /\ Len(order) <= config.MaxEntries /\ now \in Nat
  BY IInvFacts
<1>2. last \in [Key -> Contract!Written \cup {Nothing}]
  BY DEF IInv, TypeOK
<1>3. CASE GetMiss(k)
  <2>1. /\ UNCHANGED <<config, items, order, currentSize, now, last>> /\ answer' = Nothing
        /\ Policy' = Policy
    BY <1>3 DEF GetMiss, Policy
  <2> QED
    BY <1>1, <1>2, <2>1, Reassembled DEF IInv, EntriesTrue
<1>4. CASE GetExpired(k)
  <2>1. /\ {k} \in SUBSET DOMAIN items /\ removeElement({k}) /\ answer' = Nothing
        /\ config' = config /\ now' = now /\ last' = last
    BY <1>4 DEF GetExpired
  <2>2. DOMAIN items' \subseteq DOMAIN items
    BY <2>1 DEF removeElement, Without
  <2> QED
    BY <1>1, <1>2, <2>1, <2>2, Removal
<1>5. CASE GetHit(k)
  <2>1. /\ k \in DOMAIN items /\ answer' = items[k].value /\ config' = config /\ now' = now
        /\ last' = last /\ currentSize' = currentSize /\ Policy' = Policy
        /\ order' = IF Policy = "LRU" THEN Fronted(k, Rest(order, {k})) ELSE order
    BY <1>5 DEF GetHit, MoveToFront, LRU, Policy, Remaining, Rest, Fronted
  <2>2. items[k] \in Entry /\ DOMAIN items \subseteq Key /\ items[k].accessedAt <= now
    BY <2>1 DEF IInv, TypeOK, EntriesTrue
  <2>3. PICK entry : entry = IF Policy = "LRU" THEN [items[k] EXCEPT !.accessedAt = now] ELSE items[k]
    OBVIOUS
  <2>4. /\ entry \in Entry /\ entry.createdAt = items[k].createdAt /\ entry.accessedAt <= now
        /\ Policy = "LRU" => entry.accessedAt = now
    BY <1>1, <2>2, <2>3 DEF Entry
  <2>5. entry.size = items[k].size /\ entry.value = items[k].value /\ entry.size \in Nat
    BY <2>2, <2>3 DEF Entry
  <2>6. items' = Replaced(items, k, entry)
    BY <1>5, <2>1, <2>3 DEF GetHit, Replaced, LRU, Policy, IInv, TypeOK
  <2>7. currentSize' = currentSize - items[k].size + entry.size
    BY <2>1, <2>5, IInvFacts
  <2>8. Good(items', order', currentSize', now, Policy) /\ Len(order') = Len(order)
    <3>1. PICK f, s, new : f = items' /\ s = order' /\ new = currentSize'
      OBVIOUS
    <3>2. /\ f = Replaced(items, k, entry) /\ new = currentSize - items[k].size + entry.size
          /\ s = IF Policy = "LRU" THEN Fronted(k, Rest(order, {k})) ELSE order
      BY <2>1, <2>6, <2>7, <3>1
    <3>3. k \in DOMAIN items /\ Good(items, order, currentSize, now, Policy)
      BY <1>1, <2>1
    <3>4. Good(f, s, new, now, Policy) /\ Len(s) = Len(order)
      BY <2>4, <3>2, <3>3, Touch
    <3> QED
      BY <3>1, <3>4
  <2>9. Good(items', order', currentSize', now', Policy')
    BY <2>1, <2>8
  <2>10. /\ DOMAIN items' = DOMAIN items
         /\ \A j \in DOMAIN items : items'[j].value = items[j].value /\ items'[j].createdAt = items[j].createdAt
    BY <2>1, <2>4, <2>5, <2>6 DEF Replaced
  <2>11. answer' \in Value
    BY <2>1, <2>2 DEF Entry
  <2> QED
    BY <1>1, <1>2, <2>1, <2>8, <2>9, <2>10, <2>11, Reassembled DEF IInv, EntriesTrue
<1> QED
  BY <1>3, <1>4, <1>5

LEMMA SetExistingStep ==
  ASSUME IInv, NEW k \in Key, NEW v \in Value, NEW size \in Sizes, SetExisting(k, v, size)
  PROVE  IInv' /\ config' = config /\ DOMAIN items' = DOMAIN items
<1>1. /\ Good(items, order, currentSize, now, Policy) /\ config \in Settings
      /\ Len(order) <= config.MaxEntries /\ now \in Nat /\ answer \in Value \cup {Nothing}
      /\ size \in Nat
  BY IInvFacts, CacheAssumption DEF IInv, TypeOK
<1>2. /\ k \in DOMAIN items /\ config' = config /\ now' = now /\ answer' = answer
      /\ Policy' = Policy /\ Wrote(k, v)
      /\ order' = IF Policy = "LRU" THEN Fronted(k, Rest(order, {k})) ELSE order
      /\ currentSize' = currentSize - items[k].size + size
  BY DEF SetExisting, MoveToFront, LRU, Policy, Remaining, Rest, Fronted, Resized
<1>3. items[k] \in Entry /\ items[k].createdAt <= now
  BY <1>2 DEF IInv, TypeOK, EntriesTrue
<1>4. PICK entry : entry = [items[k] EXCEPT !.value = v, !.size = size, !.accessedAt = now]
  OBVIOUS
<1>5. /\ entry \in Entry /\ entry.createdAt = items[k].createdAt /\ entry.accessedAt = now
      /\ entry.size = size /\ entry.value = v
  BY <1>1, <1>3, <1>4 DEF Entry
<1>6. entry.accessedAt <= now
  BY <1>1, <1>5
<1>7. items' = Replaced(items, k, entry)
  BY <1>2, <1>4 DEF SetExisting, Replaced
<1>8. Good(items', order', currentSize', now, Policy) /\ Len(order') = Len(order)
  BY <1>1, <1>2, <1>5, <1>6, <1>7, Touch
<1>9. Good(items', order', currentSize', now', Policy')
  BY <1>2, <1>8
<1>10. DOMAIN items' = DOMAIN items /\ items'[k] = entry /\ \A j \in DOMAIN items : j # k => items'[j] = items[j]
  BY <1>2, <1>7 DEF Replaced
<1>11. /\ last' \in [Key -> Contract!Written \cup {Nothing}]
       /\ last'[k] # Nothing /\ last'[k].value = v /\ last'[k].at = now
       /\ \A j \in Key \ {k} : last'[j] = last[j]
  BY <1>2, WroteFacts
<1>12. ASSUME NEW j \in DOMAIN items'
       PROVE  last'[j] # Nothing /\ items'[j].value = last'[j].value /\ items'[j].createdAt <= last'[j].at
  <2>1. CASE j = k
    BY <1>3, <1>5, <1>10, <1>11, <2>1
  <2>2. CASE j # k
    <3>1. j \in DOMAIN items /\ j \in Key \ {k}
      BY <1>10, <2>2 DEF IInv, TypeOK
    <3> QED
      BY <1>10, <1>11, <2>2, <3>1 DEF IInv, EntriesTrue
  <2> QED
    BY <2>1, <2>2
<1> QED
  BY <1>1, <1>2, <1>8, <1>9, <1>10, <1>11, <1>12, Reassembled

\* An eviction loop stops after n evictions, and not before.
Stops(n, enough) ==
  /\ n \in enough /\ \A m \in enough : n <= m
  /\ Evicted(enough) = Taken(order, n, Policy)

LEMMA EvictedFacts ==
  ASSUME IInv, NEW enough \in SUBSET (0..Len(order)), Len(order) \in enough
  PROVE  \E n : Stops(n, enough)
<1>1. enough \subseteq Nat /\ enough # {}
  BY IInvFacts
<1>2. \E x \in enough : \A y \in enough : x <= y
  BY <1>1, LeastNat
<1>3. Min(enough) \in enough /\ \A m \in enough : Min(enough) <= m
  BY <1>2 DEF Min
<1>4. PICK n : n = Min(enough)
  OBVIOUS
<1>5. Evicted(enough) = Taken(order, n, Policy)
  BY <1>4 DEF Evicted, Victims, Taken, LRU, Policy
<1>6. Stops(n, enough)
  BY <1>3, <1>4, <1>5 DEF Stops
<1> QED
  BY <1>6

\* What n evictions leave.
LEMMA AfterEvictions ==
  ASSUME IInv, NEW n \in 0..Len(order), NEW gone, gone = Taken(order, n, Policy),
         NEW d, d = Minus(items, gone), NEW rest, rest = Rest(order, gone)
  PROVE  /\ gone \in SUBSET DOMAIN items /\ Cardinality(gone) = n
         /\ Good(d, rest, SizeAfter(n), now, Policy) /\ Len(rest) = Len(order) - n
         /\ SizeAfter(n) = currentSize - Total(items, gone) /\ SizeAfter(n) \in Nat
<1>1. Good(items, order, currentSize, now, Policy)
  BY IInvFacts
<1>2. order \in Seq(Key) /\ IsInjective(order) /\ ToSet(order) = DOMAIN items
  BY <1>1 DEF Good
<1>3. gone \in SUBSET DOMAIN items /\ Cardinality(gone) = n
  BY <1>2, EvictionFacts
<1>4. PICK less : less = SizeAfter(n)
  OBVIOUS
<1>5. less = currentSize - Total(items, gone)
  BY <1>4 DEF SizeAfter, SizeOf, Victims, Taken, LRU, Policy, Total
<1>6. Good(d, rest, less, now, Policy) /\ Len(rest) = Len(order) - Cardinality(gone)
  BY <1>1, <1>3, <1>5, Unlink
<1>7. less \in Nat
  BY <1>6, GoodFacts
<1> QED
  BY <1>3, <1>4, <1>5, <1>6, <1>7

NewEntry(v, size) == [value |-> v, size |-> size, createdAt |-> now, accessedAt |-> now]

Enough(n, size) == Fits(n, config.MaxSize, size) /\ Len(order) - n < config.MaxEntries

\* Set of a new key, after n evictions.
SetAfter(n, k, v, size) ==
  /\ n \in 0..Len(order) /\ Enough(n, size) /\ (n > 0 => ~Enough(n - 1, size))
  /\ Good(items', order', currentSize', now, Policy) /\ Len(order') = Len(order) - n + 1
  /\ items' = Plus(Minus(items, Taken(order, n, Policy)), k, NewEntry(v, size))
  /\ currentSize' = SizeAfter(n) + size

LEMMA SetNewFacts ==
  ASSUME IInv, NEW k \in Key, NEW v \in Value, NEW size \in Sizes, SetNew(k, v, size)
  PROVE  \E n : SetAfter(n, k, v, size)
<1> DEFINE enough == {n \in 0..Len(order) : Fits(n, config.MaxSize, size) /\ Len(order) - n < config.MaxEntries}
           entry == NewEntry(v, size)
<1>1. /\ Good(items, order, currentSize, now, Policy) /\ now \in Nat /\ size \in Nat
      /\ Len(order) \in Nat /\ config.MaxEntries \in Nat \ {0}
  BY IInvFacts, CacheAssumption
<1>2. Len(order) \in enough /\ enough \in SUBSET (0..Len(order))
  BY <1>1 DEF Fits
<1>3. PICK n : Stops(n, enough)
  <2> HIDE DEF enough
  <2> QED
    BY <1>2, EvictedFacts
<1>4. n \in 0..Len(order) /\ Enough(n, size) /\ n \in Nat
  BY <1>1, <1>3 DEF Stops, Enough
<1>5. n > 0 => ~Enough(n - 1, size)
  <2> SUFFICES ASSUME n > 0, Enough(n - 1, size) PROVE FALSE
    OBVIOUS
  <2>1. n - 1 \in 0..Len(order)
    BY <1>1, <1>4
  <2>2. n - 1 \in enough
    BY <2>1 DEF Enough
  <2>3. n <= n - 1
    BY <1>3, <2>2 DEF Stops
  <2> QED
    BY <1>4, <2>3
<1>6. PICK gone : gone = Taken(order, n, Policy)
  OBVIOUS
<1>7. gone = evictIfNeeded(size)
  BY <1>3, <1>6 DEF Stops, evictIfNeeded
<1>8. PICK d, rest, less : d = Minus(items, gone) /\ rest = Rest(order, gone) /\ less = SizeAfter(n)
  OBVIOUS
<1>9. /\ gone \in SUBSET DOMAIN items /\ Good(d, rest, less, now, Policy) /\ Len(rest) = Len(order) - n
      /\ less = currentSize - Total(items, gone)
  BY <1>4, <1>6, <1>8, AfterEvictions
<1>10. /\ items' = Plus(d, k, entry) /\ k \in Key \ DOMAIN d
       /\ order' = IF Policy = "LRU" THEN Fronted(k, rest) ELSE Backed(k, rest)
       /\ currentSize' = less + size
  <2>1. /\ k \notin DOMAIN items
        /\ items' = [j \in (DOMAIN items \ gone) \cup {k} |-> IF j = k THEN entry ELSE items[j]]
    BY <1>7 DEF SetNew, NewEntry
  <2>2. DOMAIN d = DOMAIN items \ gone /\ \A j \in DOMAIN d : d[j] = items[j]
    BY <1>8 DEF Minus
  <2>3. items' = Plus(d, k, entry)
    <3> HIDE DEF entry
    <3> QED
      BY <2>1, <2>2 DEF Plus
  <2>4. order' = IF Policy = "LRU" THEN Fronted(k, rest) ELSE Backed(k, rest)
    <3>1. Remaining(gone) = rest
      BY <1>8 DEF Remaining, Rest
    <3>2. order' = IF Policy = "LRU" THEN <<k>> \o Remaining(gone) ELSE Append(Remaining(gone), k)
      BY <1>7 DEF SetNew, LRU, Policy
    <3> QED
      BY <3>1, <3>2 DEF Fronted, Backed
  <2>5. SizeOf(gone) = Total(items, gone)
    BY DEF SizeOf, Total
  <2>6. currentSize' = less + size
    BY <1>7, <1>9, <2>5 DEF SetNew
  <2> QED
    BY <2>1, <2>2, <2>3, <2>4, <2>6
<1>11. /\ entry \in Entry /\ entry.createdAt = now /\ entry.accessedAt = now /\ entry.size = size
       /\ entry.createdAt <= now /\ entry.accessedAt <= now
  BY <1>1 DEF NewEntry, Entry
<1> HIDE DEF entry
<1>12. PICK f, s, more : f = items' /\ s = order' /\ more = currentSize'
  OBVIOUS
<1>13. Good(f, s, more, now, Policy) /\ Len(s) = Len(rest) + 1
  <2>1. f = Plus(d, k, entry) /\ more = less + entry.size
    BY <1>10, <1>11, <1>12
  <2>2. CASE Policy = "LRU"
    <3>1. s = Fronted(k, rest)
      BY <1>10, <1>12, <2>2
    <3> QED
      BY <1>9, <1>10, <1>11, <2>1, <2>2, <3>1, PushFront
  <2>3. CASE Policy # "LRU"
    <3>1. s = Backed(k, rest)
      BY <1>10, <1>12, <2>3
    <3> QED
      BY <1>9, <1>10, <1>11, <2>1, <2>3, <3>1, PushBack
  <2> QED
    BY <2>2, <2>3
<1>14. Len(order') = Len(order) - n + 1
  BY <1>1, <1>4, <1>9, <1>12, <1>13
<1>15. items' = Plus(Minus(items, Taken(order, n, Policy)), k, entry)
  BY <1>6, <1>8, <1>10
<1>16. SetAfter(n, k, v, size)
  BY <1>4, <1>5, <1>8, <1>10, <1>12, <1>13, <1>14, <1>15 DEF SetAfter, entry
<1> QED
  BY <1>16

LEMMA SetNewStep ==
  ASSUME IInv, NEW k \in Key, NEW v \in Value, NEW size \in Sizes, SetNew(k, v, size)
  PROVE  IInv'
<1>1. PICK n : SetAfter(n, k, v, size)
  BY SetNewFacts
<1>2. /\ config' = config /\ now' = now /\ answer' = answer /\ Policy' = Policy /\ Wrote(k, v)
      /\ k \notin DOMAIN items
  BY DEF SetNew, Policy
<1>3. /\ config \in Settings /\ now \in Nat /\ answer \in Value \cup {Nothing}
      /\ Len(order) \in Nat /\ config.MaxEntries \in Nat
  BY IInvFacts DEF IInv, TypeOK
<1>4. Good(items', order', currentSize', now', Policy')
  BY <1>1, <1>2 DEF SetAfter
<1>5. Len(order') <= config'.MaxEntries
  BY <1>1, <1>2, <1>3 DEF SetAfter, Enough
<1>6. /\ last' \in [Key -> Contract!Written \cup {Nothing}]
      /\ last'[k] # Nothing /\ last'[k].value = v /\ last'[k].at = now
      /\ \A j \in Key \ {k} : last'[j] = last[j]
  BY <1>2, WroteFacts
<1>7. /\ DOMAIN items' \subseteq DOMAIN items \cup {k}
      /\ items'[k].value = v /\ items'[k].createdAt = now
      /\ \A j \in DOMAIN items' : j # k => items'[j] = items[j]
  BY <1>1 DEF SetAfter, Plus, Minus, NewEntry
<1>8. ASSUME NEW j \in DOMAIN items'
      PROVE  last'[j] # Nothing /\ items'[j].value = last'[j].value /\ items'[j].createdAt <= last'[j].at
  <2>1. CASE j = k
    BY <1>3, <1>6, <1>7, <2>1
  <2>2. CASE j # k
    <3>1. j \in DOMAIN items /\ j \in Key \ {k} /\ items'[j] = items[j]
      BY <1>7, <1>8, <2>2 DEF IInv, TypeOK
    <3> QED
      BY <1>6, <3>1 DEF IInv, EntriesTrue
  <2> QED
    BY <2>1, <2>2
<1> QED
  BY <1>2, <1>3, <1>4, <1>5, <1>6, <1>8, Reassembled

\* A limit reduced by some percent is a limit.
LEMMA ReducedLimit ==
  ASSUME NEW a \in Nat, NEW p \in 0..100
  PROVE  a - (a * p) \div 100 \in Nat
<1>1. PICK c \in Nat : p + c = 100
  <2>1. 100 - p \in Nat /\ p + (100 - p) = 100
    OBVIOUS
  <2> QED
    BY <2>1
<1>2. p \in Nat /\ a * p \in Nat /\ a * c \in Nat /\ a * (p + c) = a * p + a * c
  OBVIOUS
<1>3. PICK x \in Nat, y \in Nat : x = a * p /\ y = a * c
  BY <1>2
<1>4. a * (p + c) = 100 * a
  BY <1>1
<1>5. x + y = 100 * a
  BY <1>2, <1>3, <1>4
<1>6. x \div 100 \in Nat /\ x \div 100 <= a
  BY <1>5
<1>7. a - x \div 100 \in Nat
  BY <1>6
<1> QED
  BY <1>3, <1>7

LEMMA ReduceSizeStep ==
  ASSUME IInv, NEW percent \in Percents, ReduceSize(percent)
  PROVE  IInv' /\ DOMAIN items' \subseteq DOMAIN items /\ currentSize' <= config'.MaxSize
<1> DEFINE maxSize == config.MaxSize - (config.MaxSize * percent) \div 100
           enough == {n \in 0..Len(order) : Fits(n, maxSize, 0)}
<1>1. /\ Good(items, order, currentSize, now, Policy) /\ config \in Settings
      /\ Len(order) \in Nat /\ config.MaxSize \in Nat /\ percent \in 0..100
  BY IInvFacts, CacheAssumption
<1>2. maxSize \in Nat
  BY <1>1, ReducedLimit
<1>3. /\ config' = [config EXCEPT !.MaxSize = maxSize] /\ removeElement(Evicted(enough))
      /\ now' = now /\ last' = last /\ answer' = answer
  BY DEF ReduceSize
<1> HIDE DEF maxSize
<1>4. /\ config' \in Settings /\ config'.MaxSize = maxSize /\ config'.MaxEntries = config.MaxEntries
      /\ config'.EvictionPolicy = config.EvictionPolicy
  BY <1>1, <1>2, <1>3 DEF Settings
<1>5. Len(order) \in enough /\ enough \in SUBSET (0..Len(order))
  BY <1>1 DEF Fits
<1>6. PICK n : Stops(n, enough)
  <2> HIDE DEF enough
  <2> QED
    BY <1>5, EvictedFacts
<1>7. n \in 0..Len(order) /\ Fits(n, maxSize, 0)
  BY <1>6 DEF Stops
<1>8. PICK gone, d, rest : gone = Taken(order, n, Policy) /\ d = Minus(items, gone) /\ rest = Rest(order, gone)
  OBVIOUS
<1>9. /\ gone \in SUBSET DOMAIN items /\ SizeAfter(n) = currentSize - Total(items, gone)
      /\ SizeAfter(n) \in Nat
  BY <1>7, <1>8, AfterEvictions
<1>10. removeElement(gone)
  BY <1>3, <1>6, <1>8 DEF Stops
<1>11. IInv'
  BY <1>3, <1>4, <1>9, <1>10, Removal DEF IInv, TypeOK
<1>12. SizeOf(gone) = Total(items, gone)
  BY DEF SizeOf, Total
<1>13. currentSize' = SizeAfter(n) /\ DOMAIN items' = DOMAIN items \ gone
  BY <1>9, <1>10, <1>12 DEF removeElement, Without
<1>14. currentSize' <= maxSize
  <2>1. CASE n = Len(order)
    <3>1. gone = DOMAIN items
      BY <1>1, <1>7, <1>8, <2>1, EvictionFacts DEF Good
    <3>2. SizeAfter(n) = 0
      BY <1>1, <1>9, <3>1, GoodFacts DEF Good
    <3> QED
      BY <1>2, <1>13, <3>2
  <2>2. CASE n # Len(order)
    BY <1>7, <1>9, <1>13, <2>2 DEF Fits
  <2> QED
    BY <2>1, <2>2
<1> QED
  BY <1>4, <1>11, <1>13, <1>14

LEMMA OtherSteps ==
  ASSUME IInv, (\E k \in Key : Delete(k)) \/ Cleanup \/ Clear \/ Tick
  PROVE  IInv' /\ config' = config /\ DOMAIN items' \subseteq DOMAIN items
<1>1. /\ Good(items, order, currentSize, now, Policy) /\ config \in Settings
      /\ Len(order) <= config.MaxEntries /\ now \in Nat /\ config.MaxEntries \in Nat
      /\ last \in [Key -> Contract!Written \cup {Nothing}] /\ answer \in Value \cup {Nothing}
      /\ DOMAIN items \subseteq Key
  BY IInvFacts DEF IInv, TypeOK
<1>2. ASSUME NEW k \in Key, Delete(k) PROVE IInv' /\ config' = config /\ DOMAIN items' \subseteq DOMAIN items
  <2>1. PICK K : K = {k} \cap DOMAIN items
    OBVIOUS
  <2>2. /\ K \in SUBSET DOMAIN items /\ removeElement(K) /\ config' = config /\ now' = now
        /\ answer' = answer /\ last' = [last EXCEPT ![k] = Nothing]
    BY <1>2, <2>1 DEF Delete
  <2>3. /\ last' \in [Key -> Contract!Written \cup {Nothing}]
        /\ \A j \in DOMAIN items \ K : last'[j] = last[j]
    BY <1>1, <2>1, <2>2
  <2>4. DOMAIN items' \subseteq DOMAIN items
    BY <2>2 DEF removeElement, Without
  <2> QED
    BY <1>1, <2>2, <2>3, <2>4, Removal
<1>3. CASE Cleanup
  <2>1. PICK K : K = {k \in DOMAIN items : Expired(k)}
    OBVIOUS
  <2>2. /\ K \in SUBSET DOMAIN items /\ removeElement(K) /\ config' = config /\ now' = now
        /\ answer' = answer /\ last' = last
    BY <1>3, <2>1 DEF Cleanup
  <2>3. DOMAIN items' \subseteq DOMAIN items
    BY <2>2 DEF removeElement, Without
  <2> QED
    BY <1>1, <2>2, <2>3, Removal
<1>4. CASE Clear
  <2>1. /\ items' = <<>> /\ order' = <<>> /\ currentSize' = 0 /\ config' = config /\ now' = now
        /\ answer' = answer /\ last' = [k \in Key |-> Nothing] /\ Policy' = Policy
    BY <1>4 DEF Clear, Policy
  <2>2. last' \in [Key -> Contract!Written \cup {Nothing}] /\ DOMAIN items' = {}
    BY <2>1
  <2>3. Good(<<>>, <<>>, 0, now, Policy) /\ Len(<<>>) = 0
    BY <1>1, EmptyCache
  <2>4. Good(items', order', currentSize', now', Policy') /\ Len(order') <= config'.MaxEntries
    BY <1>1, <2>1, <2>3
  <2> QED
    BY <1>1, <2>1, <2>2, <2>4, Reassembled
<1>5. CASE Tick
  <2>1. UNCHANGED <<config, items, order, currentSize, last, answer>> /\ now' = now + 1 /\ Policy' = Policy
    BY <1>5 DEF Tick, Policy
  <2>2. PICK t \in Nat : t = now + 1 /\ now <= t
    BY <1>1
  <2>3. \A k \in DOMAIN items : items[k].createdAt <= t /\ items[k].accessedAt <= t
    BY <1>1, <2>2, GoodFacts DEF Good
  <2>4. Good(items, order, currentSize, t, Policy)
    BY <1>1, <2>2, <2>3 DEF Good
  <2>5. Good(items', order', currentSize', now', Policy')
    BY <2>1, <2>2, <2>4
  <2> QED
    BY <1>1, <2>1, <2>5, Reassembled DEF IInv, EntriesTrue
<1> QED
  BY <1>2, <1>3, <1>4, <1>5

LEMMA InitIInv == Init => IInv
<1> SUFFICES ASSUME Init PROVE IInv
  OBVIOUS
<1>1. /\ items = <<>> /\ order = <<>> /\ currentSize = 0 /\ now = 0 /\ now \in Nat
      /\ config \in Settings /\ DOMAIN items = {}
  BY CacheAssumption DEF Init
<1>2. Good(<<>>, <<>>, 0, now, Policy) /\ Len(<<>>) = 0
  BY <1>1, EmptyCache
<1>3. Good(items, order, currentSize, now, Policy)
  BY <1>1, <1>2
<1>4. Len(order) = 0 /\ Cardinality(DOMAIN items) = 0 /\ config.MaxEntries \in Nat
  BY <1>1, <1>2, FS_EmptySet DEF Settings
<1>5. TypeOK
  BY <1>1, <1>3 DEF TypeOK, Good, Init
<1>6. EntriesTrue /\ EvictsByPolicy
  BY <1>1, <1>4 DEF EntriesTrue, EvictsByPolicy
<1>7. SizeOf(DOMAIN items) = Total(items, DOMAIN items)
  BY DEF SizeOf, Total
<1>8. Accounting
  BY <1>3, <1>4, <1>7 DEF Good, Accounting
<1> QED
  BY <1>3, <1>5, <1>6, <1>8 DEF IInv, Good

\* Every call keeps the invariant.
LEMMA NextIInv == IInv /\ [Next]_vars => IInv'
<1> SUFFICES ASSUME IInv, [Next]_vars PROVE IInv'
  OBVIOUS
<1>1. CASE Next
  BY <1>1, GetSteps, SetExistingStep, SetNewStep, ReduceSizeStep, OtherSteps DEF Next
<1>2. CASE UNCHANGED vars
  <2>1. /\ UNCHANGED <<config, items, order, currentSize, now, last, answer>> /\ Policy' = Policy
    BY <1>2 DEF vars, Policy
  <2>2. Good(items', order', currentSize', now', Policy')
    BY <2>1, IInvFacts
  <2> QED
    BY <2>1, <2>2, IInvFacts, Reassembled DEF IInv, TypeOK, EntriesTrue
<1> QED
  BY <1>1, <1>2

\* Map, list, count and clock fit together after every call.
THEOREM Invariance == Spec => []IInv
BY InitIInv, NextIInv, PTL DEF Spec

\* The list holds every cached key exactly once, currentSize is the sum of the sizes,
\* and there are never too many entries.
THEOREM Accounted == Spec => []Accounting
BY Invariance, PTL DEF IInv

\* evictOne takes the entry that was not used for the longest time, or is the oldest.
THEOREM ByPolicy == Spec => []EvictsByPolicy
BY Invariance, PTL DEF IInv

\* Adding a key makes room for it, and no more than that.
LEMMA SetNewLimits ==
  ASSUME IInv, IInv', NEW k \in Key, NEW v \in Value, NEW size \in Sizes, SetNew(k, v, size)
  PROVE  /\ currentSize' <= config.MaxSize \/ DOMAIN items \cap DOMAIN items' = {}
         /\ DOMAIN items \ DOMAIN items' # {} =>
              \E x \in DOMAIN items \ DOMAIN items' : \/ currentSize' + items[x].size > config.MaxSize
                                                      \/ Len(order') = config.MaxEntries
<1>1. PICK n : SetAfter(n, k, v, size)
  BY SetNewFacts
<1>2. PICK gone : gone = Taken(order, n, Policy)
  OBVIOUS
<1>3. /\ Good(items, order, currentSize, now, Policy) /\ Len(order) \in Nat /\ config.MaxSize \in Nat
      /\ config.MaxEntries \in Nat /\ size \in Nat /\ currentSize \in Nat
  BY IInvFacts, CacheAssumption
<1>4. n \in 0..Len(order) /\ n \in Nat
  BY <1>1, <1>3 DEF SetAfter
<1>5. /\ gone \in SUBSET DOMAIN items /\ Cardinality(gone) = n
      /\ SizeAfter(n) = currentSize - Total(items, gone) /\ SizeAfter(n) \in Nat
  BY <1>2, <1>4, AfterEvictions
<1>6. DOMAIN items' = (DOMAIN items \ gone) \cup {k} /\ k \notin DOMAIN items
  BY <1>1, <1>2 DEF SetAfter, SetNew, Plus, Minus
<1>7. order \in Seq(Key) /\ IsInjective(order) /\ ToSet(order) = DOMAIN items
  BY <1>3 DEF Good
<1>8. currentSize' <= config.MaxSize \/ DOMAIN items \cap DOMAIN items' = {}
  <2>1. CASE n = Len(order)
    <3>1. gone = DOMAIN items
      BY <1>2, <1>4, <1>7, <2>1, EvictionFacts
    <3> QED
      BY <1>6, <3>1
  <2>2. CASE n # Len(order)
    BY <1>1, <2>2 DEF SetAfter, Enough, Fits
  <2> QED
    BY <2>1, <2>2
<1>9. ASSUME DOMAIN items \ DOMAIN items' # {}
      PROVE  \E x \in DOMAIN items \ DOMAIN items' : \/ currentSize' + items[x].size > config.MaxSize
                                                     \/ Len(order') = config.MaxEntries
  <2>1. DOMAIN items \ DOMAIN items' = gone
    BY <1>5, <1>6
  <2>2. n > 0
    <3> SUFFICES ASSUME n = 0 PROVE FALSE
      BY <1>4
    <3>1. IsFiniteSet(gone)
      BY <1>3, <1>5, GoodFacts, FS_Subset
    <3> QED
      BY <1>5, <1>9, <2>1, <3>1, FS_EmptySet
  <2>3. PICK x \in gone : Taken(order, n - 1, Policy) = gone \ {x}
    BY <1>2, <1>4, <1>7, <2>2, EvictionFacts
  <2>4. n - 1 \in 0..Len(order)
    BY <1>3, <1>4, <2>2
  <2>5. PICK fewer : fewer = gone \ {x}
    OBVIOUS
  <2>6. SizeAfter(n - 1) = currentSize - Total(items, fewer)
    BY <2>3, <2>4, <2>5, AfterEvictions
  <2>7. Total(items, gone) = items[x].size + Total(items, fewer) /\ Total(items, fewer) \in Nat
    <3>1. IsFiniteSet(gone) /\ Sized(items, gone)
      BY <1>3, <1>5, GoodFacts, FS_Subset DEF Sized
    <3> QED
      BY <2>5, <3>1, TotalFacts
  <2>8. items[x].size \in Nat
    BY <1>3, <1>5, GoodFacts
  <2>9. SizeAfter(n - 1) = SizeAfter(n) + items[x].size
    BY <1>3, <1>5, <2>6, <2>7, <2>8
  <2>10. ~Enough(n - 1, size)
    BY <1>1, <2>2 DEF SetAfter
  <2>11. CASE ~Fits(n - 1, config.MaxSize, size)
    <3>1. ~(SizeAfter(n - 1) + size <= config.MaxSize)
      BY <2>11 DEF Fits
    <3>2. currentSize' = SizeAfter(n) + size
      BY <1>1 DEF SetAfter
    <3>3. currentSize' + items[x].size > config.MaxSize
      BY <1>3, <1>5, <2>8, <2>9, <3>1, <3>2
    <3> QED
      BY <2>1, <3>3
  <2>12. CASE ~(Len(order) - (n - 1) < config.MaxEntries)
    <3>1. Len(order') = Len(order) - n + 1
      BY <1>1 DEF SetAfter
    <3>2. Len(order) - n < config.MaxEntries
      BY <1>1 DEF SetAfter, Enough
    <3>3. Len(order') = config.MaxEntries
      BY <1>3, <1>4, <2>12, <3>1, <3>2
    <3> QED
      BY <2>1, <3>3
  <2> QED
    BY <2>10, <2>11, <2>12 DEF Enough
<1> QED
  BY <1>8, <1>9

\* Adding a key or reducing MaxSize brings the cache within its limits, and evicts
\* nothing that it need not.
THEOREM WithinLimits == Spec => LimitsRestored
<1> DEFINE added == DOMAIN items' \ DOMAIN items
           kept == DOMAIN items \cap DOMAIN items'
           lost == DOMAIN items \ DOMAIN items'
           Limits == /\ added # {} => currentSize' <= config.MaxSize \/ kept = {}
                     /\ config' # config => currentSize' <= config'.MaxSize
                     /\ added # {} /\ lost # {} =>
                          \E k \in lost : \/ currentSize' + items[k].size > config.MaxSize
                                          \/ Len(order') = config.MaxEntries
<1>1. ASSUME IInv, IInv', Next PROVE Limits
  <2>1. ASSUME NEW k \in Key, NEW v \in Value, NEW size \in Sizes, SetNew(k, v, size) PROVE Limits
    <3>1. config' = config
      BY <2>1 DEF SetNew
    <3> QED
      BY <1>1, <2>1, <3>1, SetNewLimits
  <2>2. ASSUME NEW percent \in Percents, ReduceSize(percent) PROVE Limits
    BY <1>1, <2>2, ReduceSizeStep
  <2>3. ASSUME config' = config, DOMAIN items' \subseteq DOMAIN items PROVE Limits
    BY <2>3
  <2>4. \/ \E k \in Key, v \in Value, size \in Sizes : SetNew(k, v, size)
        \/ \E percent \in Percents : ReduceSize(percent)
        \/ config' = config /\ DOMAIN items' \subseteq DOMAIN items
    BY <1>1, GetSteps, SetExistingStep, OtherSteps DEF Next
  <2> HIDE DEF Limits
  <2> QED
    BY <2>1, <2>2, <2>3, <2>4
<1>2. IInv /\ IInv' /\ [Next]_vars => [Limits]_vars
  <2> HIDE DEF Limits
  <2> QED
    BY <1>1
<1>3. [][Limits]_vars => LimitsRestored
  BY DEF LimitsRestored
<1> HIDE DEF Limits
<1> QED
  BY <1>2, <1>3, Invariance, PTL DEF Spec

-----------------------------------------------------------------------------
(* The promise to the callers.                                             *)

\* Every call is one of the contract's, or changes nothing that it speaks of.
LEMMA ContractStep ==
  ASSUME IInv, [Next]_vars
  PROVE  [Contract!Next]_(Contract!cvars)
<1>1. now \in Nat /\ config.MaxAge \in Nat /\ last \in [Key -> Contract!Written \cup {Nothing}]
  BY IInvFacts DEF IInv, TypeOK
<1>2. ASSUME NEW k \in Key, GetMiss(k) \/ GetExpired(k) PROVE Contract!Miss
  BY <1>2 DEF GetMiss, GetExpired, Contract!Miss
<1>3. ASSUME NEW k \in Key, GetHit(k) PROVE Contract!Hit(k)
  <2>1. k \in DOMAIN items /\ ~Expired(k) /\ answer' = items[k].value /\ UNCHANGED <<config, now, last>>
    BY <1>3 DEF GetHit
  <2>2. last[k] # Nothing /\ items[k].value = last[k].value /\ items[k].createdAt <= last[k].at
    BY <2>1 DEF IInv, EntriesTrue
  <2>3. items[k].createdAt \in Nat
    BY <2>1, IInvFacts, GoodFacts
  <2>4. last[k] \in Contract!Written
    BY <1>1, <1>3, <2>2
  <2>5. last[k].at \in Nat
    BY <2>4 DEF Contract!Written
  <2>6. now <= last[k].at + config.MaxAge
    BY <1>1, <2>1, <2>2, <2>3, <2>5 DEF Expired
  <2> QED
    BY <2>1, <2>2, <2>6 DEF Contract!Hit
<1>4. ASSUME NEW k \in Key, NEW v \in Value, NEW size \in Sizes, SetExisting(k, v, size) \/ SetNew(k, v, size)
      PROVE  Contract!Set(k, v)
  BY <1>4 DEF SetExisting, SetNew, Wrote, Contract!Set
<1>5. ASSUME NEW k \in Key, Delete(k) PROVE Contract!Forget({k})
  <2>1. last' = [last EXCEPT ![k] = Nothing] /\ UNCHANGED <<config, now, answer>>
    BY <1>5 DEF Delete
  <2>2. last' = [j \in Key |-> IF j \in {k} THEN Nothing ELSE last[j]]
    BY <1>1, <2>1
  <2> QED
    BY <2>1, <2>2 DEF Contract!Forget
<1>6. ASSUME Clear PROVE Contract!Forget(Key)
  BY <1>6 DEF Clear, Contract!Forget
<1>7. ASSUME Tick PROVE Contract!Tick
  BY <1>7 DEF Tick, Contract!Tick
<1>8. ASSUME (\E percent \in Percents : ReduceSize(percent)) \/ Cleanup \/ UNCHANGED vars
      PROVE  UNCHANGED Contract!cvars
  <2>1. ASSUME NEW percent \in Percents, ReduceSize(percent) PROVE config'.MaxAge = config.MaxAge
    <3>1. config \in Settings /\ \E m : config' = [config EXCEPT !.MaxSize = m]
      BY <2>1, IInvFacts DEF ReduceSize
    <3> QED
      BY <3>1 DEF Settings
  <2> QED
    BY <1>8, <2>1 DEF ReduceSize, Cleanup, vars, Contract!cvars
<1>9. ASSUME Next PROVE Contract!Next \/ UNCHANGED Contract!cvars
  <2>1. CASE \E k \in Key : GetMiss(k) \/ GetExpired(k) \/ GetHit(k)
    BY <1>2, <1>3, <2>1 DEF Contract!Next
  <2>2. CASE \E k \in Key : \E v \in Value, size \in Sizes : SetExisting(k, v, size) \/ SetNew(k, v, size)
    BY <1>4, <2>2 DEF Contract!Next
  <2>3. CASE Clear \/ \E k \in Key : Delete(k)
    BY <1>5, <1>6, <2>3 DEF Contract!Next
  <2>4. CASE Tick
    BY <1>7, <2>4 DEF Contract!Next
  <2> QED
    BY <1>8, <1>9, <2>1, <2>2, <2>3, <2>4 DEF Next
<1> QED
  BY <1>8, <1>9

\* The cache implements the contract: it returns the value last set, not too old, and
\* neither deleted nor cleared since.
THEOREM Refinement == Spec => ImplementsContract
<1>1. Init => Contract!Init
  BY CacheAssumption DEF Init, Contract!Init, Settings
<1>2. IInv /\ [Next]_vars => [Contract!Next]_(Contract!cvars)
  BY ContractStep
<1> QED
  BY <1>1, <1>2, Invariance, PTL DEF Spec, ImplementsContract, Contract!Spec

=============================================================================
