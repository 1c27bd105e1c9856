---------------------------- MODULE SumTheorems ----------------------------
(***************************************************************************)
(* What a sum over a finite set is, for the sums the balances are stated   *)
(* with: MapThenSumSet is a recursive function on the subsets of its set,  *)
(* which takes its elements in the order CHOOSE gives them.  Each fact is  *)
(* proved by taking the least subset for which it fails.                   *)
(***************************************************************************)
EXTENDS Integers, FiniteSetsExt, FiniteSetTheorems, WellFoundedInduction, TLAPS

\* The sum of what function f gives for the elements of S.
SumOver(f, S) == MapThenSumSet(LAMBDA x : f[x], S)

ChosenOf(s) == CHOOSE x \in s : TRUE

SumStep(f, g, s) == IF s = {} THEN 0 ELSE f[ChosenOf(s)] + g[s \ {ChosenOf(s)}]

\* g is the table of the sums of all subsets of S.
IsSumTable(f, S, g) == g = [s \in SUBSET S |-> SumStep(f, g, s)]

SumTable(f, S) == CHOOSE g : IsSumTable(f, S, g)

LEMMA SumInTable == \A f, S : SumOver(f, S) = SumTable(f, S)[S]
  BY DEF SumOver, SumTable, IsSumTable, SumStep, ChosenOf, MapThenSumSet, MapThenFoldSet

LEMMA ChosenIn == \A s : s # {} => ChosenOf(s) \in s
  BY DEF ChosenOf

\* A family of subsets of a finite set has a least member.
LEMMA LeastSubset ==
    ASSUME NEW S, IsFiniteSet(S), NEW B \in SUBSET (SUBSET S), B # {}
    PROVE  \E T \in B : \A U \in B : U \subseteq T => U = T
<1> DEFINE R == StrictSubsetOrdering(S)
<1>1. IsWellFoundedOn(R, SUBSET S)
  BY FS_StrictSubsetOrderingWellFounded, FS_FiniteSubsetsOfFinite
<1>2. \E T \in B : \A U \in B : ~ (<<U, T>> \in R)
  <2> HIDE DEF R
  <2> QED BY <1>1, WFMin, Zenon
<1>3. PICK T \in B : \A U \in B : ~ (<<U, T>> \in R)
  BY <1>2
<1>4. ASSUME NEW U \in B, U \subseteq T PROVE U = T
  BY <1>3, <1>4 DEF StrictSubsetOrdering
<1> QED BY <1>4

\* Two tables agree where both have an entry.
LEMMA TablesAgree ==
    ASSUME NEW f, NEW S, NEW T, IsFiniteSet(T), T \subseteq S,
           NEW g, NEW h, IsSumTable(f, S, g), IsSumTable(f, T, h)
    PROVE  \A s \in SUBSET T : g[s] = h[s]
<1> DEFINE B == {s \in SUBSET T : g[s] # h[s]}
<1> SUFFICES ASSUME B # {} PROVE FALSE
  OBVIOUS
<1>1. PICK s \in B : \A U \in B : U \subseteq s => U = s
  <2>1. B \in SUBSET (SUBSET T)
    OBVIOUS
  <2> HIDE DEF B
  <2> QED BY <2>1, LeastSubset
<1>2. g[s] = SumStep(f, g, s) /\ h[s] = SumStep(f, h, s)
  BY DEF IsSumTable
<1>3. s # {}
  BY <1>2 DEF SumStep
<1>4. g[s \ {ChosenOf(s)}] = h[s \ {ChosenOf(s)}]
  BY <1>1, <1>3, ChosenIn
<1> QED BY <1>1, <1>2, <1>4 DEF SumStep

LEMMA TableExists ==
    ASSUME NEW f, NEW S, IsFiniteSet(S)
    PROVE  IsSumTable(f, S, SumTable(f, S))
<1> DEFINE B == {T \in SUBSET S : \A g : ~ IsSumTable(f, T, g)}
<1>1. SUFFICES ASSUME B # {} PROVE FALSE
  <2>1. S \notin B => \E g : IsSumTable(f, S, g)
    OBVIOUS
  <2> QED BY <2>1 DEF SumTable
<1>2. PICK T \in B : \A U \in B : U \subseteq T => U = T
  <2>1. B \in SUBSET (SUBSET S)
    OBVIOUS
  <2> HIDE DEF B
  <2> QED BY <1>1, <2>1, LeastSubset
<1> DEFINE part(s) == SumTable(f, s)[s]
           g == [s \in SUBSET T |->
                    IF s = {} THEN 0 ELSE f[ChosenOf(s)] + part(s \ {ChosenOf(s)})]
<1>3. \A s \in SUBSET T : s # T => IsSumTable(f, s, SumTable(f, s)) /\ IsFiniteSet(s)
  <2>1. ASSUME NEW s \in SUBSET T, s # T PROVE \E h : IsSumTable(f, s, h)
    BY <1>2, <2>1
  <2>2. \A s \in SUBSET T : IsFiniteSet(s)
    BY FS_Subset
  <2> QED BY <2>1, <2>2 DEF SumTable
<1>4. ASSUME NEW s \in SUBSET T, s # T PROVE g[s] = part(s)
  <2>1. IsSumTable(f, s, SumTable(f, s))
    BY <1>3, <1>4
  <2>2. part(s) = SumStep(f, SumTable(f, s), s)
    BY <2>1 DEF IsSumTable
  <2>3. CASE s = {}
    BY <2>2, <2>3 DEF SumStep
  <2>4. CASE s # {}
    <3> DEFINE v == s \ {ChosenOf(s)}
    <3>1. v \in SUBSET T /\ v # T /\ v \subseteq s
      BY <1>4, <2>4, ChosenIn
    <3>2. IsSumTable(f, v, SumTable(f, v)) /\ IsFiniteSet(v)
      BY <1>3, <3>1
    <3>3. SumTable(f, s)[v] = SumTable(f, v)[v]
      <4>1. IsFiniteSet(s) /\ v \subseteq s /\ v \in SUBSET v
        BY <1>3, <1>4, <3>1
      <4> HIDE DEF v, g
      <4> QED BY <2>1, <3>2, <4>1, TablesAgree
    <3> QED BY <2>2, <2>4, <3>3 DEF SumStep
  <2> QED BY <2>3, <2>4
<1>5. IsSumTable(f, T, g)
  <2>1. ASSUME NEW s \in SUBSET T PROVE g[s] = SumStep(f, g, s)
    <3>1. CASE s = {}
      BY <3>1 DEF SumStep
    <3>2. CASE s # {}
      <4>1. s \ {ChosenOf(s)} \in SUBSET T /\ s \ {ChosenOf(s)} # T
        BY <3>2, ChosenIn
      <4>2. g[s \ {ChosenOf(s)}] = part(s \ {ChosenOf(s)})
        BY <4>1, <1>4
      <4> QED BY <3>2, <4>2 DEF SumStep
    <3> QED BY <3>1, <3>2
  <2>2. g = [s \in SUBSET T |-> g[s]]
    OBVIOUS
  <2> HIDE DEF g
  <2>3. g = [s \in SUBSET T |-> SumStep(f, g, s)]
    BY <2>1, <2>2
  <2> QED BY <2>3 DEF IsSumTable
<1> QED BY <1>2, <1>5

LEMMA SumOfNone == \A f : SumOver(f, {}) = 0
<1> SUFFICES ASSUME NEW f PROVE SumOver(f, {}) = 0
  OBVIOUS
<1>1. IsSumTable(f, {}, SumTable(f, {}))
  BY TableExists, FS_EmptySet
<1> QED BY <1>1, SumInTable DEF IsSumTable, SumStep

\* The element that is taken first.
LEMMA SumOfPicked ==
    ASSUME NEW f, NEW S, IsFiniteSet(S), S # {}
    PROVE  SumOver(f, S) = f[ChosenOf(S)] + SumOver(f, S \ {ChosenOf(S)})
<1> DEFINE v == S \ {ChosenOf(S)}
<1>1. IsSumTable(f, S, SumTable(f, S))
  BY TableExists
<1>2. IsFiniteSet(v) /\ v \in SUBSET S
  BY FS_Subset
<1>3. IsSumTable(f, v, SumTable(f, v))
  BY <1>2, TableExists
<1>4. SumTable(f, S)[v] = SumTable(f, v)[v]
  <2> HIDE DEF v
  <2> QED BY <1>1, <1>2, <1>3, TablesAgree
<1>5. SumTable(f, S)[S] = f[ChosenOf(S)] + SumTable(f, S)[v]
  BY <1>1 DEF IsSumTable, SumStep
<1> QED BY <1>4, <1>5, SumInTable

LEMMA SumIsInt ==
    ASSUME NEW f, NEW S, IsFiniteSet(S), \A x \in S : f[x] \in Int
    PROVE  SumOver(f, S) \in Int
<1> DEFINE B == {T \in SUBSET S : SumOver(f, T) \notin Int}
<1>1. SUFFICES ASSUME B # {} PROVE FALSE
  OBVIOUS
<1>2. PICK T \in B : \A U \in B : U \subseteq T => U = T
  <2>1. B \in SUBSET (SUBSET S)
    OBVIOUS
  <2> HIDE DEF B
  <2> QED BY <1>1, <2>1, LeastSubset
<1>3. T # {}
  BY SumOfNone
<1>4. ChosenOf(T) \in T
  BY <1>3, ChosenIn
<1>5. IsFiniteSet(T)
  BY FS_Subset
<1>6. SumOver(f, T) = f[ChosenOf(T)] + SumOver(f, T \ {ChosenOf(T)})
  BY <1>3, <1>5, SumOfPicked
<1>7. SumOver(f, T \ {ChosenOf(T)}) \in Int
  BY <1>2, <1>4
<1>8. f[ChosenOf(T)] \in Int
  BY <1>4
<1> QED BY <1>2, <1>6, <1>7, <1>8

\* Any element may be taken first.
THEOREM SumWithout ==
    ASSUME NEW f, NEW S, IsFiniteSet(S), \A x \in S : f[x] \in Int, NEW y \in S
    PROVE  SumOver(f, S) = f[y] + SumOver(f, S \ {y})
<1> DEFINE B == {T \in SUBSET S : \E x \in T : SumOver(f, T) # f[x] + SumOver(f, T \ {x})}
<1>1. SUFFICES ASSUME B # {} PROVE FALSE
  OBVIOUS
<1>2. PICK T \in B : \A U \in B : U \subseteq T => U = T
  <2>1. B \in SUBSET (SUBSET S)
    OBVIOUS
  <2> HIDE DEF B
  <2> QED BY <1>1, <2>1, LeastSubset
<1>3. PICK x \in T : SumOver(f, T) # f[x] + SumOver(f, T \ {x})
  OBVIOUS
<1> DEFINE c == ChosenOf(T)
<1>4. c \in T /\ SumOver(f, T) = f[c] + SumOver(f, T \ {c})
  BY <1>3, ChosenIn, FS_Subset, SumOfPicked
<1>5. c # x
  BY <1>3, <1>4
<1> HIDE DEF c
<1>6. \A U \in SUBSET S : IsFiniteSet(U)
  BY FS_Subset
<1>7. SumOver(f, T \ {c}) = f[x] + SumOver(f, (T \ {c}) \ {x})
  BY <1>2, <1>4, <1>5
<1>8. SumOver(f, T \ {x}) = f[c] + SumOver(f, (T \ {x}) \ {c})
  BY <1>2, <1>4, <1>5
<1>9. (T \ {c}) \ {x} = (T \ {x}) \ {c}
  OBVIOUS
<1>10. SumOver(f, (T \ {x}) \ {c}) \in Int /\ f[x] \in Int /\ f[c] \in Int
  BY <1>4, <1>6, SumIsInt
<1>11. f[c] + (f[x] + SumOver(f, (T \ {x}) \ {c})) = f[x] + (f[c] + SumOver(f, (T \ {x}) \ {c}))
  BY <1>10
<1> HIDE DEF B
<1> QED BY <1>3, <1>4, <1>7, <1>8, <1>9, <1>11

LEMMA SumWith ==
    ASSUME NEW f, NEW S, IsFiniteSet(S), \A x \in S : f[x] \in Int,
           NEW y, y \notin S, f[y] \in Int
    PROVE  SumOver(f, S \union {y}) = f[y] + SumOver(f, S)
<1>1. IsFiniteSet(S \union {y}) /\ (S \union {y}) \ {y} = S
  BY FS_AddElement
<1> QED BY <1>1, SumWithout

\* A sum depends on the values of its elements alone.
LEMMA SameSum ==
    ASSUME NEW f, NEW g, NEW S, IsFiniteSet(S), \A x \in S : f[x] = g[x]
    PROVE  SumOver(f, S) = SumOver(g, S)
<1> DEFINE B == {T \in SUBSET S : SumOver(f, T) # SumOver(g, T)}
<1>1. SUFFICES ASSUME B # {} PROVE FALSE
  OBVIOUS
<1>2. PICK T \in B : \A U \in B : U \subseteq T => U = T
  <2>1. B \in SUBSET (SUBSET S)
    OBVIOUS
  <2> HIDE DEF B
  <2> QED BY <1>1, <2>1, LeastSubset
<1>3. T # {} /\ IsFiniteSet(T)
  BY SumOfNone, FS_Subset
<1>4. /\ SumOver(f, T) = f[ChosenOf(T)] + SumOver(f, T \ {ChosenOf(T)})
      /\ SumOver(g, T) = g[ChosenOf(T)] + SumOver(g, T \ {ChosenOf(T)})
  BY <1>3, SumOfPicked
<1>5. ChosenOf(T) \in T
  BY <1>3, ChosenIn
<1>6. SumOver(f, T \ {ChosenOf(T)}) = SumOver(g, T \ {ChosenOf(T)}) /\ f[ChosenOf(T)] = g[ChosenOf(T)]
  BY <1>2, <1>5
<1> QED BY <1>2, <1>4, <1>6
=============================================================================
