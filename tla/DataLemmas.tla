----------------------------- MODULE DataLemmas -----------------------------
(***************************************************************************)
(* Lemmas about the data that the models share: smallest counterexamples,  *)
(* sums of the rows of a ledger, ordered lists and sequences.  The prover  *)
(* cannot instantiate the induction theorems of the library, which take an *)
(* operator: what needs induction here picks a smallest counterexample.    *)
(***************************************************************************)
EXTENDS FiniteSetsExt, SequencesExt, Integers, Orders, FiniteSetTheorems,
        SequenceTheorems, FunctionTheorems, WellFoundedInduction, TLAPS

\* Of subsets of a finite set, one contains none of the others.
LEMMA SmallestSet ==
    ASSUME NEW S, IsFiniteSet(S), NEW Bad \in SUBSET (SUBSET S), Bad # {}
    PROVE  \E T \in Bad : \A U \in Bad : ~ (U \subseteq T /\ U # T)
<1>1. IsWellFoundedOn(StrictSubsetOrdering(S), SUBSET S)
  BY FS_StrictSubsetOrderingWellFounded, FS_FiniteSubsetsOfFinite
<1>2. PICK T \in Bad : \A U \in Bad : <<U, T>> \notin StrictSubsetOrdering(S)
  <2> DEFINE R == StrictSubsetOrdering(S)
             All == SUBSET S
  <2>1. IsWellFoundedOn(R, All) /\ Bad \subseteq All /\ Bad # {}
    BY <1>1
  <2> HIDE DEF R, All
  <2>2. \E T \in Bad : \A U \in Bad : ~ (<<U, T>> \in R)
    BY <2>1, WFMin, Zenon
  <2> QED BY <2>2 DEF R
<1>3. ASSUME NEW U \in Bad, U \subseteq T, U # T PROVE FALSE
  <2>1. <<U, T>> \in StrictSubsetOrdering(S)
    BY <1>3 DEF StrictSubsetOrdering
  <2> QED BY <2>1, <1>2
<1> QED BY <1>2, <1>3
\* Of natural numbers, one is the least.
LEMMA SmallestNat ==
    ASSUME NEW Bad \in SUBSET Nat, Bad # {}
    PROVE  \E n \in Bad : \A m \in Bad : n <= m
<1>1. PICK k \in Bad : TRUE
  OBVIOUS
<1> DEFINE Below == {0 .. n : n \in {m \in Bad : m <= k}}
<1>2. IsFiniteSet(0 .. k)
  BY FS_Interval
<1>3. Below \in SUBSET (SUBSET (0 .. k)) /\ 0 .. k \in Below
  OBVIOUS
<1>4. PICK T \in Below : \A U \in Below : ~ (U \subseteq T /\ U # T)
  <2> DEFINE K == 0 .. k
  <2>1. IsFiniteSet(K) /\ Below \in SUBSET (SUBSET K) /\ Below # {}
    BY <1>2, <1>3
  <2> HIDE DEF Below, K
  <2> QED BY <2>1, SmallestSet
<1>5. PICK n \in Bad : n <= k /\ T = 0 .. n
  OBVIOUS
<1>6. ASSUME NEW m \in Bad, m < n PROVE FALSE
  <2>1. 0 .. m \in Below
    BY <1>5, <1>6
  <2>2. 0 .. m \subseteq 0 .. n /\ n \in 0 .. n /\ n \notin 0 .. m
    BY <1>6
  <2> QED BY <2>1, <2>2, <1>4, <1>5
<1> QED BY <1>5, <1>6

-----------------------------------------------------------------------------
\* The element that the fold takes next.
Pick(s) == CHOOSE x \in s : TRUE

\* One step of the fold, and the function that the steps define.
SumStep(rows, g, s) == IF s = {} THEN 0 ELSE rows[Pick(s)].add + g[s \ {Pick(s)}]
SumsUp(rows, S, g) == g = [s \in SUBSET S |-> SumStep(rows, g, s)]

\* The sum of the add fields of the rows of S.
Total(rows, S) == MapThenSumSet(LAMBDA t : rows[t].add, S)

\* The library's definition, expanded.
LEMMA TotalIsFold ==
    ASSUME NEW rows, NEW S
    PROVE  Total(rows, S) = (CHOOSE g : SumsUp(rows, S, g))[S]
BY DEF Total, MapThenSumSet, MapThenFoldSet, SumsUp, SumStep, Pick

\* The recursion is well founded: such a function exists.
LEMMA SumExists ==
    ASSUME NEW rows, NEW S, IsFiniteSet(S)
    PROVE  \E g : SumsUp(rows, S, g)
<1> DEFINE upTo(n, g) == /\ g = [s \in SUBSET S |-> g[s]]
                         /\ \A s \in SUBSET S : Cardinality(s) <= n => g[s] = SumStep(rows, g, s)
           Good == {n \in Nat : \E g : upTo(n, g)}
<1>0. \A s \in SUBSET S : IsFiniteSet(s) /\ Cardinality(s) \in Nat /\ Cardinality(s) <= Cardinality(S)
  BY FS_Subset, FS_CardinalityType
<1>1. 0 \in Good
  <2> DEFINE g == [s \in SUBSET S |-> 0]
  <2>1. \A s \in SUBSET S : Cardinality(s) <= 0 => s = {}
    BY <1>0, FS_EmptySet
  <2>2. upTo(0, g)
    BY <2>1 DEF SumStep
  <2> QED BY <2>2
<1>2. ASSUME NEW n \in Good PROVE n + 1 \in Good
  <2>1. PICK g : upTo(n, g)
    OBVIOUS
  <2> DEFINE h == [s \in SUBSET S |-> IF Cardinality(s) <= n THEN g[s] ELSE SumStep(rows, g, s)]
  <2>2. ASSUME NEW s \in SUBSET S, Cardinality(s) <= n + 1
        PROVE  h[s] = SumStep(rows, h, s)
    <3>1. CASE s = {}
      BY <3>1, <2>1 DEF SumStep
    <3>2. CASE s # {}
      <4>1. Pick(s) \in s
        BY <3>2 DEF Pick
      <4>2. s \ {Pick(s)} \in SUBSET S /\ Cardinality(s \ {Pick(s)}) <= n
        BY <4>1, <2>2, <1>0, FS_RemoveElement
      <4>3. h[s \ {Pick(s)}] = g[s \ {Pick(s)}]
        BY <4>2
      <4>4. h[s] = SumStep(rows, g, s)
        BY <2>1, <2>2
      <4> QED BY <4>3, <4>4, <3>2 DEF SumStep
    <3> QED BY <3>1, <3>2
  <2>3. upTo(n + 1, h)
    BY <2>2
  <2>4. n \in Nat /\ n + 1 \in Nat
    OBVIOUS
  <2> HIDE DEF h, upTo
  <2> QED BY <2>3, <2>4
<1>3. Good = Nat
  <2> DEFINE Bad == Nat \ Good
  <2>1. SUFFICES ASSUME Bad # {} PROVE FALSE
    OBVIOUS
  <2>2. PICK n \in Bad : \A m \in Bad : n <= m
    <3> HIDE DEF Good
    <3> QED BY <2>1, SmallestNat
  <2> HIDE DEF Good
  <2>3. n # 0 /\ n - 1 \in Nat /\ n - 1 \notin Bad
    BY <2>2, <1>1
  <2>4. (n - 1) + 1 \in Good
    BY <2>3, <1>2
  <2> QED BY <2>2, <2>4
<1>4. PICK g : upTo(Cardinality(S), g)
  <2>1. Cardinality(S) \in Good
    BY <1>3, FS_CardinalityType
  <2> QED BY <2>1
<1>5. \A s \in SUBSET S : g[s] = SumStep(rows, g, s)
  BY <1>4, <1>0
<1>6. SumsUp(rows, S, g)
  BY <1>4, <1>5 DEF SumsUp
<1> QED BY <1>6
\* It depends on the rows only, not on the set it was defined for.
LEMMA SumsAgree ==
    ASSUME NEW rows, NEW S, NEW R \in SUBSET S, IsFiniteSet(R), NEW g, NEW h,
           SumsUp(rows, S, g), SumsUp(rows, R, h)
    PROVE  \A T \in SUBSET R : g[T] = h[T]
<1> DEFINE Bad == {T \in SUBSET R : g[T] # h[T]}
<1>1. SUFFICES ASSUME Bad # {} PROVE FALSE
  OBVIOUS
<1>2. PICK T \in Bad : \A U \in Bad : ~ (U \subseteq T /\ U # T)
  <2>1. Bad \in SUBSET (SUBSET R)
    OBVIOUS
  <2> HIDE DEF Bad
  <2> QED BY <1>1, <2>1, SmallestSet
<1>3. g[T] = SumStep(rows, g, T) /\ h[T] = SumStep(rows, h, T)
  BY DEF SumsUp
<1>4. CASE T = {}
  BY <1>3, <1>4 DEF SumStep
<1>5. CASE T # {}
  <2>1. Pick(T) \in T
    BY <1>5 DEF Pick
  <2>2. g[T \ {Pick(T)}] = h[T \ {Pick(T)}]
    BY <2>1, <1>2
  <2> QED BY <2>2, <1>3, <1>5 DEF SumStep
<1> QED BY <1>4, <1>5

\* The equation that defines the sum.
LEMMA TotalStep ==
    ASSUME NEW rows, NEW S, IsFiniteSet(S)
    PROVE  /\ Total(rows, {}) = 0
           /\ S # {} => /\ Pick(S) \in S
                        /\ Total(rows, S) = rows[Pick(S)].add + Total(rows, S \ {Pick(S)})
<1>1. ASSUME NEW R, IsFiniteSet(R)
      PROVE  \E g : SumsUp(rows, R, g) /\ Total(rows, R) = g[R]
  BY <1>1, SumExists, TotalIsFold
<1>2. Total(rows, {}) = 0
  <2>1. PICK g : SumsUp(rows, {}, g) /\ Total(rows, {}) = g[{}]
    BY <1>1, FS_EmptySet
  <2> QED BY <2>1 DEF SumsUp, SumStep
<1>3. ASSUME S # {} PROVE
         /\ Pick(S) \in S
         /\ Total(rows, S) = rows[Pick(S)].add + Total(rows, S \ {Pick(S)})
  <2>1. Pick(S) \in S
    BY <1>3 DEF Pick
  <2> DEFINE R == S \ {Pick(S)}
  <2>2. IsFiniteSet(R) /\ R \in SUBSET S
    BY FS_Subset
  <2>3. PICK g : SumsUp(rows, S, g) /\ Total(rows, S) = g[S]
    BY <1>1
  <2>4. PICK h : SumsUp(rows, R, h) /\ Total(rows, R) = h[R]
    BY <1>1, <2>2
  <2>5. g[R] = h[R]
    BY <2>2, <2>3, <2>4, SumsAgree
  <2>6. g[S] = SumStep(rows, g, S)
    BY <2>3 DEF SumsUp
  <2> QED BY <1>3, <2>1, <2>3, <2>4, <2>5, <2>6 DEF SumStep
<1> QED BY <1>2, <1>3

\* A sum of natural numbers is one, and each of its members can be taken out.
LEMMA TotalRemove ==
    ASSUME NEW rows, NEW S, IsFiniteSet(S), \A t \in S : rows[t].add \in Nat
    PROVE  /\ Total(rows, S) \in Nat
           /\ \A t \in S : Total(rows, S) = rows[t].add + Total(rows, S \ {t})
<1> DEFINE Fine(T) == /\ Total(rows, T) \in Nat
                      /\ \A t \in T : Total(rows, T) = rows[t].add + Total(rows, T \ {t})
           Bad == {T \in SUBSET S : ~ Fine(T)}
<1>1. SUFFICES ASSUME Bad # {} PROVE FALSE
  OBVIOUS
<1>2. PICK T \in Bad : \A U \in Bad : ~ (U \subseteq T /\ U # T)
  <2>1. Bad \in SUBSET (SUBSET S)
    OBVIOUS
  <2> HIDE DEF Bad
  <2> QED BY <1>1, <2>1, SmallestSet
<1>3. \A U \in SUBSET T : IsFiniteSet(U) /\ (U # T => Fine(U))
  BY <1>2, FS_Subset
<1>4. T # {}
  <2>1. Total(rows, {}) = 0
    BY TotalStep
  <2>2. Fine({})
    BY <2>1
  <2> HIDE DEF Fine
  <2> QED BY <1>2, <2>2
<1> DEFINE c == Pick(T)
<1>5. /\ c \in T /\ rows[c].add \in Nat
      /\ Total(rows, T) = rows[c].add + Total(rows, T \ {c})
  BY <1>2, <1>3, <1>4, TotalStep
<1> HIDE DEF c
<1>6. Fine(T \ {c})
  BY <1>3, <1>5
<1>7. Total(rows, T) \in Nat
  BY <1>5, <1>6
<1>8. ASSUME NEW t \in T PROVE Total(rows, T) = rows[t].add + Total(rows, T \ {t})
  <2>1. CASE t = c
    BY <2>1, <1>5
  <2>2. CASE t # c
    <3> DEFINE rest == (T \ {c}) \ {t}
    <3>1. rest = (T \ {t}) \ {c}
      OBVIOUS
    <3>2. t \in T \ {c} /\ c \in T \ {t} /\ rows[t].add \in Nat
      BY <2>2, <1>2, <1>5
    <3>3. Fine(T \ {t}) /\ Fine(rest)
      BY <1>3, <3>2
    <3>4. Total(rows, T \ {c}) = rows[t].add + Total(rows, rest)
      BY <1>6, <3>2
    <3>5. Total(rows, T \ {t}) = rows[c].add + Total(rows, rest)
      BY <3>1, <3>2, <3>3
    <3>6. Total(rows, rest) \in Nat
      BY <3>3
    <3> HIDE DEF rest, Fine
    <3> QED BY <1>5, <3>2, <3>4, <3>5, <3>6
  <2> QED BY <2>1, <2>2
<1> QED BY <1>2, <1>7, <1>8

\* Rows that add the same have the same sum.
LEMMA TotalSame ==
    ASSUME NEW rows, NEW others, NEW S, IsFiniteSet(S), \A t \in S : others[t].add = rows[t].add
    PROVE  Total(others, S) = Total(rows, S)
<1> DEFINE Bad == {T \in SUBSET S : Total(others, T) # Total(rows, T)}
<1>1. SUFFICES ASSUME Bad # {} PROVE FALSE
  OBVIOUS
<1>2. PICK T \in Bad : \A U \in Bad : ~ (U \subseteq T /\ U # T)
  <2>1. Bad \in SUBSET (SUBSET S)
    OBVIOUS
  <2> HIDE DEF Bad
  <2> QED BY <1>1, <2>1, SmallestSet
<1>3. T # {} /\ IsFiniteSet(T)
  BY <1>2, TotalStep, FS_Subset
<1>4. /\ Pick(T) \in T
      /\ Total(rows, T) = rows[Pick(T)].add + Total(rows, T \ {Pick(T)})
      /\ Total(others, T) = others[Pick(T)].add + Total(others, T \ {Pick(T)})
  BY <1>3, TotalStep
<1>5. Total(others, T \ {Pick(T)}) = Total(rows, T \ {Pick(T)})
  BY <1>2, <1>4
<1> QED BY <1>2, <1>4, <1>5
\* More members, more value.
LEMMA TotalGrows ==
    ASSUME NEW rows, NEW S, IsFiniteSet(S), \A t \in S : rows[t].add \in Nat, NEW R \in SUBSET S
    PROVE  Total(rows, R) <= Total(rows, S)
<1> DEFINE Bad == {T \in SUBSET S : R \subseteq T /\ ~ (Total(rows, R) <= Total(rows, T))}
<1>1. SUFFICES ASSUME Bad # {} PROVE FALSE
  OBVIOUS
<1>2. PICK T \in Bad : \A U \in Bad : ~ (U \subseteq T /\ U # T)
  <2>1. Bad \in SUBSET (SUBSET S)
    OBVIOUS
  <2> HIDE DEF Bad
  <2> QED BY <1>1, <2>1, SmallestSet
<1>3. ASSUME NEW U \in SUBSET S PROVE IsFiniteSet(U) /\ Total(rows, U) \in Nat
  BY FS_Subset, TotalRemove
<1>4. PICK t \in T : t \notin R
  <2>1. Total(rows, R) <= Total(rows, R)
    BY <1>3
  <2>2. T # R /\ R \subseteq T
    BY <1>2, <2>1
  <2> QED BY <2>2
<1>5. /\ rows[t].add \in Nat /\ IsFiniteSet(T)
      /\ Total(rows, T) = rows[t].add + Total(rows, T \ {t})
  BY <1>2, <1>3, <1>4, TotalRemove
<1>6. Total(rows, R) <= Total(rows, T \ {t})
  BY <1>2, <1>4
<1>7. Total(rows, R) \in Nat /\ Total(rows, T \ {t}) \in Nat
  BY <1>2, <1>3
<1>8. Total(rows, R) <= Total(rows, T)
  BY <1>5, <1>6, <1>7
<1> QED BY <1>2, <1>8

\* Induction over the natural numbers, for a set.
LEMMA NatSet ==
    ASSUME NEW Good \in SUBSET Nat, 0 \in Good, \A n \in Good : n + 1 \in Good
    PROVE  Good = Nat
<1> DEFINE Bad == Nat \ Good
<1>1. SUFFICES ASSUME Bad # {} PROVE FALSE
  OBVIOUS
<1>2. PICK n \in Bad : \A m \in Bad : n <= m
  BY <1>1, SmallestNat
<1>3. n # 0 /\ n - 1 \in Nat /\ n - 1 \notin Bad
  BY <1>2
<1>4. (n - 1) + 1 \in Good
  BY <1>3
<1> QED BY <1>2, <1>4

-----------------------------------------------------------------------------
(* Lists ordered by what comes before what.                                *)

\* When "ahead" is a strict total order of a finite set, the list holds
\* each of its members.
LEMMA RankedAll ==
    ASSUME NEW S, IsFiniteSet(S), NEW ahead \in [S -> SUBSET S],
           \A v \in S : v \notin ahead[v],
           \A v, w \in S : v \in ahead[w] => ahead[v] \subseteq ahead[w],
           \A v, w \in S : v # w => v \in ahead[w] \/ w \in ahead[v]
    PROVE  Ranked(ahead) \in Seq(S) /\ ToSet(Ranked(ahead)) = S
<1> DEFINE n == Cardinality(S)
           rank == [v \in S |-> Cardinality(ahead[v]) + 1]
           at(i) == CHOOSE v \in S : Cardinality(ahead[v]) = i - 1
<1>1. n \in Nat
  BY FS_CardinalityType
<1>2. \A v \in S : /\ IsFiniteSet(ahead[v]) /\ Cardinality(ahead[v]) \in Nat
                   /\ Cardinality(ahead[v]) < n
  <2> SUFFICES ASSUME NEW v \in S
               PROVE  IsFiniteSet(ahead[v]) /\ Cardinality(ahead[v]) \in Nat
                      /\ Cardinality(ahead[v]) < n
    OBVIOUS
  <2>1. ahead[v] \subseteq S /\ ahead[v] # S
    OBVIOUS
  <2> QED BY <1>1, <2>1, FS_Subset, FS_CardinalityType
<1>3. \A v, w \in S : v \in ahead[w] => Cardinality(ahead[v]) < Cardinality(ahead[w])
  <2> SUFFICES ASSUME NEW v \in S, NEW w \in S, v \in ahead[w]
               PROVE  Cardinality(ahead[v]) < Cardinality(ahead[w])
    OBVIOUS
  <2>1. ahead[v] \subseteq ahead[w] /\ ahead[v] # ahead[w]
    OBVIOUS
  <2>2. IsFiniteSet(ahead[w]) /\ Cardinality(ahead[w]) \in Nat /\ Cardinality(ahead[v]) \in Nat
    BY <1>2
  <2> QED BY <2>1, <2>2, FS_Subset
<1>4. \A v, w \in S : Cardinality(ahead[v]) = Cardinality(ahead[w]) => v = w
  <2> SUFFICES ASSUME NEW v \in S, NEW w \in S, v # w
               PROVE  Cardinality(ahead[v]) # Cardinality(ahead[w])
    OBVIOUS
  <2>1. Cardinality(ahead[v]) < Cardinality(ahead[w])
        \/ Cardinality(ahead[w]) < Cardinality(ahead[v])
    BY <1>3
  <2> QED BY <1>2, <2>1
<1>5. rank \in Injection(S, 1 .. n)
  <2>1. rank \in [S -> 1 .. n]
    BY <1>1, <1>2
  <2>2. \A v, w \in S : rank[v] = rank[w] => v = w
    <3> SUFFICES ASSUME NEW v \in S, NEW w \in S,
                        Cardinality(ahead[v]) + 1 = Cardinality(ahead[w]) + 1
                 PROVE  v = w
      OBVIOUS
    <3>1. Cardinality(ahead[v]) = Cardinality(ahead[w])
      BY <1>2
    <3> QED BY <1>4, <3>1
  <2> HIDE DEF rank
  <2> QED BY <2>1, <2>2 DEF Injection, IsInjective
<1>6. IsFiniteSet(1 .. n) /\ Cardinality(1 .. n) = n
  BY <1>1, FS_Interval
<1>7. rank \in Surjection(S, 1 .. n)
  <2> HIDE DEF rank
  <2> QED BY <1>5, <1>6, FS_Injection
<1>8. \A i \in 1 .. n : \E v \in S : rank[v] = i
  <2> HIDE DEF rank
  <2> QED BY <1>7 DEF Surjection
<1>9. \A i \in 1 .. n : at(i) \in S
  <2> SUFFICES ASSUME NEW i \in 1 .. n
               PROVE  \E v \in S : Cardinality(ahead[v]) = i - 1
    OBVIOUS
  <2>1. PICK v \in S : rank[v] = i
    BY <1>8
  <2>2. Cardinality(ahead[v]) + 1 = i /\ Cardinality(ahead[v]) \in Nat
    BY <1>2, <2>1
  <2> QED BY <2>2
<1>10. \A v \in S : rank[v] \in 1 .. n /\ at(rank[v]) = v
  <2> SUFFICES ASSUME NEW v \in S
               PROVE  rank[v] \in 1 .. n /\ at(rank[v]) = v
    OBVIOUS
  <2>1. rank[v] \in 1 .. n /\ rank[v] - 1 = Cardinality(ahead[v])
    BY <1>1, <1>2
  <2>2. at(rank[v]) \in S /\ Cardinality(ahead[at(rank[v])]) = Cardinality(ahead[v])
    BY <2>1
  <2> HIDE DEF at, rank
  <2> QED BY <1>4, <2>1, <2>2
<1>11. DOMAIN ahead = S
  OBVIOUS
<1>12. Ranked(ahead) = [i \in 1 .. n |-> at(i)]
  BY <1>11 DEF Ranked
<1> HIDE DEF at, n, rank
<1>13. [i \in 1 .. n |-> at(i)] \in Seq(S)
  BY <1>1, <1>9, IsASeq
<1>14. ToSet([i \in 1 .. n |-> at(i)]) = S
  BY <1>9, <1>10 DEF ToSet
<1> QED BY <1>12, <1>13, <1>14

-----------------------------------------------------------------------------
(* Sequences.                                                              *)

\* A sequence is one of the values it holds.
LEMMA SeqOfValues ==
    ASSUME NEW T, NEW s \in Seq(T)
    PROVE  ToSet(s) \subseteq T /\ s \in Seq(ToSet(s)) /\ DOMAIN s = 1 .. Len(s)
<1>1. Len(s) \in Nat /\ s \in [1 .. Len(s) -> T]
  BY LenProperties
<1>2. s = [i \in 1 .. Len(s) |-> s[i]] /\ \A i \in 1 .. Len(s) : s[i] \in ToSet(s)
  BY <1>1 DEF ToSet
<1>3. [i \in 1 .. Len(s) |-> s[i]] \in Seq(ToSet(s))
  BY <1>1, <1>2, IsASeq
<1> QED BY <1>1, <1>2, <1>3 DEF ToSet

\* A sequence over a part of T is one over T.
LEMMA SeqOfSubset ==
    ASSUME NEW T, NEW S \in SUBSET T, NEW s \in Seq(S)
    PROVE  s \in Seq(T)
<1>1. Len(s) \in Nat /\ s \in [1 .. Len(s) -> T]
  BY LenProperties
<1>2. s = [i \in 1 .. Len(s) |-> s[i]] /\ \A i \in 1 .. Len(s) : s[i] \in T
  BY <1>1
<1>3. [i \in 1 .. Len(s) |-> s[i]] \in Seq(T)
  BY <1>1, <1>2, IsASeq
<1> QED BY <1>2, <1>3

\* What a function takes on a finite set is finite.
LEMMA ImageFinite ==
    ASSUME NEW A, IsFiniteSet(A), NEW f, DOMAIN f = A
    PROVE  IsFiniteSet({f[a] : a \in A})
<1> DEFINE R == {f[a] : a \in A}
           g == [a \in A |-> f[a]]
<1>1. g \in Surjection(A, R)
  BY DEF Surjection
<1> HIDE DEF g, R
<1>2. IsFiniteSet(R)
  BY <1>1, FS_Surjection
<1> QED BY <1>2 DEF R

\* A sequence holds finitely many values.
LEMMA ToSetFinite ==
    ASSUME NEW T, NEW s \in Seq(T)
    PROVE  IsFiniteSet(ToSet(s))
<1>1. DOMAIN s = 1 .. Len(s) /\ Len(s) \in Nat
  BY LenProperties
<1>2. IsFiniteSet(DOMAIN s)
  BY <1>1, FS_Interval
<1> QED BY <1>2, ImageFinite DEF ToSet

\* What the library's FlattenSeq is made of: the first i sequences, joined.
Joined(seqs, n, g) ==
    g = [i \in 1 .. n |-> IF i = 1 THEN seqs[i] ELSE g[i - 1] \o seqs[i]]

\* The function that joins the first n of the sequences exists.
LEMMA JoinedExists ==
    ASSUME NEW seqs, NEW k \in Nat
    PROVE  \E g : Joined(seqs, k, g)
<1> DEFINE Good == {n \in Nat : \E g : Joined(seqs, n, g)}
<1>1. 0 \in Good
  <2>1. Joined(seqs, 0, <<>>)
    BY DEF Joined
  <2> QED BY <2>1
<1>2. ASSUME NEW n \in Good
      PROVE  n + 1 \in Good
  <2>1. PICK g : Joined(seqs, n, g)
    OBVIOUS
  <2> DEFINE h == [i \in 1 .. n + 1 |->
                     IF i <= n THEN g[i] ELSE IF i = 1 THEN seqs[i] ELSE g[i - 1] \o seqs[i]]
  <2>2. n \in Nat /\ n + 1 \in Nat
    OBVIOUS
  <2>3. \A i \in 1 .. n : h[i] = g[i]
    BY <2>2
  <2>4. \A i \in 1 .. n : g[i] = IF i = 1 THEN seqs[i] ELSE g[i - 1] \o seqs[i]
    BY <2>1 DEF Joined
  <2>5. \A i \in 1 .. n + 1 : h[i] = IF i = 1 THEN seqs[i] ELSE g[i - 1] \o seqs[i]
    BY <2>2, <2>4
  <2>6. \A i \in 1 .. n + 1 : i # 1 => i - 1 \in 1 .. n
    BY <2>2
  <2>7. \A i \in 1 .. n + 1 : h[i] = IF i = 1 THEN seqs[i] ELSE h[i - 1] \o seqs[i]
    BY <2>3, <2>5, <2>6
  <2>8. h = [i \in 1 .. n + 1 |-> h[i]]
    OBVIOUS
  <2> HIDE DEF h
  <2>9. Joined(seqs, n + 1, h)
    BY <2>7, <2>8 DEF Joined
  <2> QED BY <2>2, <2>9
<1>3. Good = Nat
  <2>1. Good \in SUBSET Nat
    OBVIOUS
  <2> HIDE DEF Good
  <2> QED BY <1>1, <1>2, <2>1, NatSet
<1> QED BY <1>3

\* Sequences over T, joined, are a sequence over T.
LEMMA FlattenType ==
    ASSUME NEW T, NEW seqs \in Seq(Seq(T))
    PROVE  FlattenSeq(seqs) \in Seq(T)
<1> DEFINE n == Len(seqs)
           g == CHOOSE f : Joined(seqs, n, f)
<1>1. n \in Nat /\ \A i \in 1 .. n : seqs[i] \in Seq(T)
  BY LenProperties, ElementOfSeq
<1>2. CASE n = 0
  <2>1. seqs = <<>> /\ FlattenSeq(seqs) = seqs
    BY <1>2, EmptySeq DEF FlattenSeq
  <2> QED BY <2>1, EmptySeq
<1>3. CASE n # 0
  <2>1. FlattenSeq(seqs) = g[n]
    BY <1>3 DEF FlattenSeq, Joined
  <2>2. Joined(seqs, n, g)
    BY <1>1, JoinedExists
  <2> HIDE DEF g, n
  <2>3. \A i \in 1 .. n : g[i] = IF i = 1 THEN seqs[i] ELSE g[i - 1] \o seqs[i]
    BY <2>2 DEF Joined
  <2> DEFINE Good == {i \in Nat : i \in 1 .. n => g[i] \in Seq(T)}
  <2>4. 0 \in Good
    BY <1>1
  <2>5. ASSUME NEW i \in Good
        PROVE  i + 1 \in Good
    <3> SUFFICES ASSUME i + 1 \in 1 .. n
                 PROVE  g[i + 1] \in Seq(T)
      BY <1>1
    <3>1. i \in Nat /\ (i + 1 # 1 => i \in 1 .. n) /\ (i + 1) - 1 = i
      BY <1>1
    <3>2. seqs[i + 1] \in Seq(T)
      BY <1>1
    <3>3. g[i + 1] = IF i + 1 = 1 THEN seqs[i + 1] ELSE g[i] \o seqs[i + 1]
      BY <2>3, <3>1
    <3>4. i + 1 # 1 => g[i] \in Seq(T)
      BY <3>1
    <3>5. i + 1 # 1 => g[i] \o seqs[i + 1] \in Seq(T)
      BY <3>2, <3>4, ConcatProperties
    <3> QED BY <3>2, <3>3, <3>5
  <2>6. Good = Nat
    <3>1. Good \in SUBSET Nat
      OBVIOUS
    <3> HIDE DEF Good
    <3> QED BY <2>4, <2>5, <3>1, NatSet
  <2>7. n \in 1 .. n
    BY <1>1, <1>3
  <2>8. g[n] \in Seq(T)
    BY <1>1, <2>6, <2>7
  <2> QED BY <2>1, <2>8
<1> QED BY <1>2, <1>3
=============================================================================
