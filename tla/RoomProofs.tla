------------------------------ MODULE RoomProofs ------------------------------
(***************************************************************************)
(* What a room promises, for every set of items, times, amounts and counts.*)
(* The books rest on lemmas on sums, which come first: adding up a function*)
(* over a finite set does not depend on the order, and adding up larger    *)
(* numbers, or more of them, gives a larger sum.                           *)
(***************************************************************************)
EXTENDS Room, FiniteSetTheorems, TLAPS

-----------------------------------------------------------------------------
(* Sums *)

\* Every set of subsets of a finite set has a smallest member: what an induction
\* over the finite sets comes down to.
LEMMA SmallestSubset ==
  ASSUME NEW S, IsFiniteSet(S), NEW B, B \subseteq SUBSET S, B # {}
  PROVE  \E T \in B : \A U \in B : U \subseteq T => U = T
<1>1. IsWellFoundedOn(StrictSubsetOrdering(S), FiniteSubsetsOf(S))
  BY FS_StrictSubsetOrderingWellFounded
<1>2. B \subseteq FiniteSubsetsOf(S)
  BY FS_Subset DEF FiniteSubsetsOf
<1>3. PICK T \in B : \A U \in B : ~ (<<U, T>> \in StrictSubsetOrdering(S))
  BY <1>1, <1>2, WFMin
<1>4. ASSUME NEW U \in B, U \subseteq T PROVE U = T
  BY <1>3, <1>4 DEF StrictSubsetOrdering
<1> QED BY <1>4

-----------------------------------------------------------------------------
(* The partial sums *)

\* The element a fold takes first, and what is left of s then.
FirstTerm(s) == CHOOSE x \in s : TRUE
OtherTerms(s) == s \ {FirstTerm(s)}

\* g is the table of the sums of the subsets of S.
PartialSums(f, S, g) ==
    g = [s \in SUBSET S |-> IF s = {} THEN 0 ELSE f[FirstTerm(s)] + g[OtherTerms(s)]]

\* A sum is read from such a table.
LEMMA SumFromTable ==
  ASSUME NEW f, NEW S
  PROVE  SumFunctionOnSet(f, S) = (CHOOSE g : PartialSums(f, S, g))[S]
BY DEF SumFunctionOnSet, FoldFunctionOnSet, MapThenFoldSet, PartialSums, FirstTerm, OtherTerms

\* What is left is smaller.
LEMMA OthersSmaller ==
  ASSUME NEW s, s # {}
  PROVE  FirstTerm(s) \in s /\ OtherTerms(s) \subseteq s /\ OtherTerms(s) # s
BY DEF FirstTerm, OtherTerms

\* The table of a set has the one of every subset in it.
LEMMA TableOfSubset ==
  ASSUME NEW f, NEW S, NEW g, PartialSums(f, S, g), NEW U, U \subseteq S
  PROVE  PartialSums(f, U, [s \in SUBSET U |-> g[s]])
<1> DEFINE h == [s \in SUBSET U |-> g[s]]
<1>1. ASSUME NEW s \in SUBSET U
      PROVE  h[s] = IF s = {} THEN 0 ELSE f[FirstTerm(s)] + h[OtherTerms(s)]
  <2>1. s \in SUBSET S
    OBVIOUS
  <2>2. g[s] = IF s = {} THEN 0 ELSE f[FirstTerm(s)] + g[OtherTerms(s)]
    BY <2>1 DEF PartialSums
  <2>3. CASE s = {}
    BY <2>2, <2>3
  <2>4. CASE s # {}
    <3>1. OtherTerms(s) \in SUBSET U
      BY <2>4, OthersSmaller
    <3> QED BY <2>2, <2>4, <3>1
  <2> QED BY <2>3, <2>4
<1>2. h = [s \in SUBSET U |-> IF s = {} THEN 0 ELSE f[FirstTerm(s)] + h[OtherTerms(s)]]
  BY <1>1
<1> QED BY <1>2 DEF PartialSums

\* A finite set has one table only.
LEMMA TableUnique ==
  ASSUME NEW f, NEW S, IsFiniteSet(S), NEW g, NEW h,
         PartialSums(f, S, g), PartialSums(f, S, h)
  PROVE  g = h
<1> DEFINE B == {s \in SUBSET S : g[s] # h[s]}
<1>1. SUFFICES ASSUME B # {} PROVE FALSE
  <2>1. \A s \in SUBSET S : g[s] = h[s]
    BY <1>1
  <2> QED BY <2>1 DEF PartialSums
<1>2. PICK s \in B : \A u \in B : u \subseteq s => u = s
  <2>1. B \subseteq SUBSET S
    OBVIOUS
  <2> HIDE DEF B
  <2> QED BY <1>1, <2>1, SmallestSubset
<1>3. g[s] = (IF s = {} THEN 0 ELSE f[FirstTerm(s)] + g[OtherTerms(s)])
  BY DEF PartialSums
<1>4. h[s] = (IF s = {} THEN 0 ELSE f[FirstTerm(s)] + h[OtherTerms(s)])
  BY DEF PartialSums
<1>5. s # {}
  BY <1>3, <1>4
<1>6. OtherTerms(s) \subseteq s /\ OtherTerms(s) # s /\ OtherTerms(s) \in SUBSET S
  BY <1>5, OthersSmaller
<1>7. OtherTerms(s) \notin B
  BY <1>2, <1>6
<1>8. g[OtherTerms(s)] = h[OtherTerms(s)]
  BY <1>6, <1>7
<1> QED BY <1>3, <1>4, <1>5, <1>8

\* Every finite set has one.
LEMMA TableExists ==
  ASSUME NEW f, NEW S, IsFiniteSet(S)
  PROVE  \E g : PartialSums(f, S, g)
<1> DEFINE Table(T) == CHOOSE g : PartialSums(f, T, g)
           Has(T) == \E g : PartialSums(f, T, g)
           B == {T \in SUBSET S : ~ Has(T)}
<1>1. SUFFICES ASSUME B # {} PROVE FALSE
  BY <1>1
<1>2. PICK T \in B : \A U \in B : U \subseteq T => U = T
  <2>1. B \subseteq SUBSET S
    OBVIOUS
  <2> HIDE DEF B
  <2> QED BY <1>1, <2>1, SmallestSubset
<1>3. ASSUME NEW U \in SUBSET T, U # T
      PROVE  PartialSums(f, U, Table(U)) /\ IsFiniteSet(U)
  BY <1>2, <1>3, FS_Subset
<1> DEFINE Total(s) == Table(s)[s]
           Sum1(s) == IF s = {} THEN 0 ELSE f[FirstTerm(s)] + Total(OtherTerms(s))
           t == [s \in SUBSET T |-> Sum1(s)]
<1>4. ASSUME NEW U \in SUBSET T, U # T PROVE t[U] = Total(U)
  <2>1. Total(U) = IF U = {} THEN 0 ELSE f[FirstTerm(U)] + Table(U)[OtherTerms(U)]
    <3>1. PartialSums(f, U, Table(U)) /\ U \in SUBSET U
      BY <1>3, <1>4
    <3> HIDE DEF Table
    <3> QED BY <3>1 DEF PartialSums
  <2>2. t[U] = Sum1(U)
    OBVIOUS
  <2>3. CASE U = {}
    BY <2>1, <2>2, <2>3
  <2>4. CASE U # {}
    <3> DEFINE W == OtherTerms(U)
    <3>1. W \subseteq U /\ W \in SUBSET T /\ W # T
      BY <1>4, <2>4, OthersSmaller
    <3>2. PartialSums(f, W, [s \in SUBSET W |-> Table(U)[s]])
      BY <1>3, <1>4, <3>1, TableOfSubset
    <3>3. [s \in SUBSET W |-> Table(U)[s]] = Table(W)
      BY <1>3, <3>1, <3>2, TableUnique
    <3>4. Table(U)[W] = Total(W)
      BY <3>3
    <3> QED BY <2>1, <2>2, <2>4, <3>4
  <2> QED BY <2>3, <2>4
<1>5. ASSUME NEW s \in SUBSET T
      PROVE  Sum1(s) = IF s = {} THEN 0 ELSE f[FirstTerm(s)] + t[OtherTerms(s)]
  <2>1. CASE s = {}
    BY <2>1
  <2>2. CASE s # {}
    <3>1. OtherTerms(s) \in SUBSET T /\ OtherTerms(s) # T
      BY <2>2, OthersSmaller
    <3> HIDE DEF t, Total
    <3> QED BY <1>4, <2>2, <3>1
  <2> QED BY <2>1, <2>2
<1>6. PartialSums(f, T, t)
  <2>1. t = [s \in SUBSET T |-> Sum1(s)]
    OBVIOUS
  <2>2. t = [s \in SUBSET T |-> IF s = {} THEN 0 ELSE f[FirstTerm(s)] + t[OtherTerms(s)]]
    <3> HIDE DEF t, Sum1
    <3> QED BY <1>5, <2>1
  <2> QED BY <2>2 DEF PartialSums
<1> QED BY <1>2, <1>6

-----------------------------------------------------------------------------
(* The sums *)

\* Nothing adds up to 0.
LEMMA SumEmpty == ASSUME NEW f PROVE SumFunctionOnSet(f, {}) = 0
BY DEF SumFunctionOnSet, FoldFunctionOnSet, MapThenFoldSet

\* A sum is its first term and the sum of the others.
LEMMA SumFirst ==
  ASSUME NEW f, NEW S, IsFiniteSet(S), S # {}
  PROVE  SumFunctionOnSet(f, S) = f[FirstTerm(S)] + SumFunctionOnSet(f, OtherTerms(S))
<1> DEFINE g == CHOOSE h : PartialSums(f, S, h)
           W == OtherTerms(S)
           hW == CHOOSE h : PartialSums(f, W, h)
<1>1. W \subseteq S /\ IsFiniteSet(W)
  BY OthersSmaller, FS_Subset
<1>2. PartialSums(f, S, g) /\ PartialSums(f, W, hW)
  BY <1>1, TableExists
<1>3. PartialSums(f, W, [s \in SUBSET W |-> g[s]])
  BY <1>1, <1>2, TableOfSubset
<1>4. [s \in SUBSET W |-> g[s]] = hW
  BY <1>1, <1>2, <1>3, TableUnique
<1>5. g[W] = hW[W]
  BY <1>4
<1>6. g[S] = f[FirstTerm(S)] + g[W]
  <2> HIDE DEF g, hW
  <2> QED BY <1>2 DEF PartialSums
<1>7. SumFunctionOnSet(f, S) = g[S] /\ SumFunctionOnSet(f, W) = hW[W]
  BY SumFromTable
<1> QED BY <1>5, <1>6, <1>7

\* A sum of integers is an integer.
LEMMA SumType ==
  ASSUME NEW f, NEW S, IsFiniteSet(S), \A x \in S : f[x] \in Int
  PROVE  SumFunctionOnSet(f, S) \in Int
<1> DEFINE B == {T \in SUBSET S : SumFunctionOnSet(f, T) \notin Int}
<1>1. SUFFICES ASSUME B # {} PROVE FALSE
  BY <1>1
<1>2. PICK T \in B : \A U \in B : U \subseteq T => U = T
  <2>1. B \subseteq SUBSET S
    OBVIOUS
  <2> HIDE DEF B
  <2> QED BY <1>1, <2>1, SmallestSubset
<1>3. T # {}
  BY SumEmpty
<1>4. FirstTerm(T) \in T /\ OtherTerms(T) \subseteq T /\ OtherTerms(T) # T /\ IsFiniteSet(T)
  BY <1>3, OthersSmaller, FS_Subset
<1>5. SumFunctionOnSet(f, OtherTerms(T)) \in Int
  BY <1>2, <1>4
<1>6. SumFunctionOnSet(f, T) = f[FirstTerm(T)] + SumFunctionOnSet(f, OtherTerms(T))
  BY <1>3, <1>4, SumFirst
<1>7. f[FirstTerm(T)] \in Int
  BY <1>4
<1> QED BY <1>5, <1>6, <1>7

\* Any term may be taken first.
LEMMA SumTake ==
  ASSUME NEW f, NEW S, IsFiniteSet(S), \A x \in S : f[x] \in Int, NEW y \in S
  PROVE  SumFunctionOnSet(f, S) = f[y] + SumFunctionOnSet(f, S \ {y})
<1> DEFINE Sum(T) == SumFunctionOnSet(f, T)
           B == {T \in SUBSET S : \E z \in T : Sum(T) # f[z] + Sum(T \ {z})}
<1>1. SUFFICES ASSUME B # {} PROVE FALSE
  <2>1. S \notin B
    BY <1>1
  <2> QED BY <2>1
<1>2. PICK T \in B : \A U \in B : U \subseteq T => U = T
  <2>1. B \subseteq SUBSET S
    OBVIOUS
  <2> HIDE DEF B
  <2> QED BY <1>1, <2>1, SmallestSubset
<1>3. PICK z \in T : Sum(T) # f[z] + Sum(T \ {z})
  OBVIOUS
<1> DEFINE x == FirstTerm(T)
<1>4. T # {} /\ x \in T /\ OtherTerms(T) = T \ {x} /\ IsFiniteSet(T)
  BY <1>3, OthersSmaller, FS_Subset DEF OtherTerms
<1>5. Sum(T) = f[x] + Sum(T \ {x})
  BY <1>4, SumFirst
<1> DEFINE both == (T \ {x}) \ {z}
<1>6. x # z /\ both = (T \ {z}) \ {x} /\ IsFiniteSet(both)
  BY <1>3, <1>4, <1>5, FS_Subset
<1>7. Sum(both) \in Int /\ f[x] \in Int /\ f[z] \in Int
  BY <1>4, <1>6, SumType
<1> HIDE DEF Sum, x
<1>8. T \ {x} \notin B /\ T \ {z} \notin B
  BY <1>2, <1>3, <1>4
<1>9. Sum(T \ {x}) = f[z] + Sum(both)
  BY <1>3, <1>6, <1>8
<1>10. Sum(T \ {z}) = f[x] + Sum(both)
  BY <1>4, <1>6, <1>8
<1> QED BY <1>3, <1>5, <1>7, <1>9, <1>10

\* More terms, each as large as it was or larger, and none of the new ones
\* negative: the sum does not fall.
LEMMA SumMonotone ==
  ASSUME NEW f, NEW g, NEW T, IsFiniteSet(T), NEW S, S \subseteq T,
         \A x \in S : f[x] \in Int /\ f[x] <= g[x],
         \A x \in T : g[x] \in Int /\ (x \notin S => g[x] >= 0)
  PROVE  SumFunctionOnSet(f, S) <= SumFunctionOnSet(g, T)
<1> DEFINE SumF(U) == SumFunctionOnSet(f, U)
           SumG(U) == SumFunctionOnSet(g, U)
           B == {U \in SUBSET T : ~ (SumF(U \cap S) <= SumG(U))}
<1>1. SUFFICES ASSUME B # {} PROVE FALSE
  <2>1. T \notin B /\ T \cap S = S
    BY <1>1
  <2> QED BY <2>1
<1>2. PICK U \in B : \A V \in B : V \subseteq U => V = U
  <2>1. B \subseteq SUBSET T
    OBVIOUS
  <2> HIDE DEF B
  <2> QED BY <1>1, <2>1, SmallestSubset
<1>3. U # {}
  BY SumEmpty
<1>4. PICK y \in U : TRUE
  BY <1>3
<1> DEFINE V == U \ {y}
<1>5. IsFiniteSet(U) /\ IsFiniteSet(U \cap S) /\ IsFiniteSet(V) /\ IsFiniteSet(V \cap S)
  BY FS_Subset
<1>6. SumF(V \cap S) \in Int /\ SumG(V) \in Int
  BY <1>5, SumType
<1>7. SumG(U) = g[y] + SumG(V)
  BY <1>5, SumTake
<1>8. SumF(V \cap S) <= SumG(V)
  <2> HIDE DEF SumF, SumG
  <2> QED BY <1>2
<1>9. CASE y \in S
  <2>1. (U \cap S) \ {y} = V \cap S
    OBVIOUS
  <2>2. SumF(U \cap S) = f[y] + SumF((U \cap S) \ {y})
    BY <1>5, <1>9, SumTake
  <2>3. f[y] \in Int /\ g[y] \in Int /\ f[y] <= g[y]
    BY <1>9
  <2>4. ~ (SumF(U \cap S) <= SumG(U))
    OBVIOUS
  <2> HIDE DEF SumF, SumG, V, B
  <2>5. SumF(U \cap S) = f[y] + SumF(V \cap S)
    BY <2>1, <2>2
  <2>6. f[y] + SumF(V \cap S) <= g[y] + SumG(V)
    BY <1>6, <1>8, <2>3
  <2> QED BY <1>7, <2>4, <2>5, <2>6
<1>10. CASE y \notin S
  <2>1. U \cap S = V \cap S
    BY <1>10
  <2>2. g[y] \in Int /\ g[y] >= 0
    BY <1>10
  <2>3. ~ (SumF(U \cap S) <= SumG(U))
    OBVIOUS
  <2> HIDE DEF SumF, SumG, V, B
  <2>4. SumF(V \cap S) <= g[y] + SumG(V)
    BY <1>6, <1>8, <2>2
  <2> QED BY <1>7, <2>1, <2>3, <2>4
<1> QED BY <1>9, <1>10

\* Equal terms have equal sums.
LEMMA SumEqual ==
  ASSUME NEW f, NEW g, NEW S, IsFiniteSet(S), \A x \in S : f[x] \in Int /\ f[x] = g[x]
  PROVE  SumFunctionOnSet(f, S) = SumFunctionOnSet(g, S)
<1>1. SumFunctionOnSet(f, S) <= SumFunctionOnSet(g, S)
  BY SumMonotone
<1>2. SumFunctionOnSet(g, S) <= SumFunctionOnSet(f, S)
  BY SumMonotone
<1>3. SumFunctionOnSet(f, S) \in Int /\ SumFunctionOnSet(g, S) \in Int
  BY SumType
<1> QED BY <1>1, <1>2, <1>3


\* The sum of the sums is the sum of the terms.
LEMMA SumPlus ==
  ASSUME NEW f, NEW g, NEW h, NEW S, IsFiniteSet(S),
         \A x \in S : f[x] \in Int /\ g[x] \in Int /\ h[x] = f[x] + g[x]
  PROVE  SumFunctionOnSet(h, S) = SumFunctionOnSet(f, S) + SumFunctionOnSet(g, S)
<1> DEFINE SumF(U) == SumFunctionOnSet(f, U)
           SumG(U) == SumFunctionOnSet(g, U)
           SumH(U) == SumFunctionOnSet(h, U)
           B == {U \in SUBSET S : SumH(U) # SumF(U) + SumG(U)}
<1>1. SUFFICES ASSUME B # {} PROVE FALSE
  <2>1. S \notin B
    BY <1>1
  <2> QED BY <2>1
<1>2. PICK U \in B : \A V \in B : V \subseteq U => V = U
  <2>1. B \subseteq SUBSET S
    OBVIOUS
  <2> HIDE DEF B
  <2> QED BY <1>1, <2>1, SmallestSubset
<1>3. PICK y \in U : TRUE
  BY SumEmpty
<1> DEFINE V == U \ {y}
<1>4. IsFiniteSet(U) /\ IsFiniteSet(V) /\ U \subseteq S
  BY FS_Subset
<1>5. SumF(V) \in Int /\ SumG(V) \in Int
  BY <1>4, SumType
<1>6. /\ SumF(U) = f[y] + SumF(V)
      /\ SumG(U) = g[y] + SumG(V)
      /\ SumH(U) = h[y] + SumH(V)
  <2>1. \A x \in U : f[x] \in Int /\ g[x] \in Int /\ h[x] \in Int
    BY <1>4
  <2> QED BY <1>4, <2>1, SumTake
<1>7. SumH(U) # SumF(U) + SumG(U)
  OBVIOUS
<1>8. f[y] \in Int /\ g[y] \in Int /\ h[y] = f[y] + g[y]
  BY <1>4
<1> HIDE DEF SumF, SumG, SumH
<1>9. SumH(V) = SumF(V) + SumG(V)
  BY <1>2, <1>3
<1> HIDE DEF B, V
<1> QED BY <1>5, <1>6, <1>7, <1>8, <1>9

\* Terms that are 0 add up to 0.
LEMMA SumZero ==
  ASSUME NEW f, NEW S, IsFiniteSet(S), \A x \in S : f[x] = 0
  PROVE  SumFunctionOnSet(f, S) = 0
<1> DEFINE total == SumFunctionOnSet(f, S)
<1>1. total = total + total
  BY SumPlus
<1>2. total \in Int
  BY SumType
<1> HIDE DEF total
<1>3. total = 0
  BY <1>1, <1>2
<1> QED BY <1>3 DEF total

\* Two sets without a common element are added up one after the other.
LEMMA SumUnion ==
  ASSUME NEW f, NEW S, NEW T, IsFiniteSet(S), IsFiniteSet(T), S \cap T = {},
         \A x \in S \cup T : f[x] \in Int
  PROVE  SumFunctionOnSet(f, S \cup T) = SumFunctionOnSet(f, S) + SumFunctionOnSet(f, T)
<1> DEFINE Sum(U) == SumFunctionOnSet(f, U)
           B == {U \in SUBSET T : Sum(S \cup U) # Sum(S) + Sum(U)}
<1>1. SUFFICES ASSUME B # {} PROVE FALSE
  <2>1. T \notin B
    BY <1>1
  <2> QED BY <2>1
<1>2. PICK U \in B : \A V \in B : V \subseteq U => V = U
  <2>1. B \subseteq SUBSET T
    OBVIOUS
  <2> HIDE DEF B
  <2> QED BY <1>1, <2>1, SmallestSubset
<1>3. Sum(S) \in Int
  BY SumType
<1>4. U # {}
  <2> SUFFICES ASSUME U = {} PROVE FALSE
    OBVIOUS
  <2>1. Sum(U) = 0 /\ S \cup U = S
    BY SumEmpty
  <2>2. Sum(S \cup U) # Sum(S) + Sum(U)
    OBVIOUS
  <2> HIDE DEF Sum, B
  <2>3. Sum(S) # Sum(S) + 0
    BY <2>1, <2>2
  <2> QED BY <1>3, <2>3
<1>5. PICK y \in U : TRUE
  BY <1>4
<1> DEFINE V == U \ {y}
<1>6. IsFiniteSet(U) /\ IsFiniteSet(V) /\ IsFiniteSet(S \cup U) /\ U \subseteq T
  BY FS_Subset, FS_Union
<1>7. (S \cup U) \ {y} = S \cup V
  BY <1>6
<1>8. Sum(V) \in Int /\ f[y] \in Int
  BY <1>6, SumType
<1>9. Sum(U) = f[y] + Sum(V) /\ Sum(S \cup U) = f[y] + Sum((S \cup U) \ {y})
  BY <1>6, SumTake
<1>10. Sum(S \cup U) # Sum(S) + Sum(U)
  OBVIOUS
<1> HIDE DEF Sum
<1>11. Sum(S \cup V) = Sum(S) + Sum(V)
  BY <1>2, <1>5
<1>12. Sum(S \cup U) = f[y] + Sum(S \cup V)
  BY <1>7, <1>9
<1> HIDE DEF B, V
<1> QED BY <1>3, <1>8, <1>9, <1>10, <1>11, <1>12

\* Adding up by keys: first what belongs to each key, then the keys.
LEMMA SumByKey ==
  ASSUME NEW f, NEW S, IsFiniteSet(S), NEW K, IsFiniteSet(K), NEW key \in [S -> K],
         \A x \in S : f[x] \in Int,
         NEW part, \A k \in K : part[k] = {x \in S : key[x] = k},
         NEW g, \A k \in K : g[k] = SumFunctionOnSet(f, part[k])
  PROVE  SumFunctionOnSet(g, K) = SumFunctionOnSet(f, S)
<1> DEFINE Sum(U) == SumFunctionOnSet(f, U)
           Of(U, k) == {x \in U : key[x] = k}
           Keys(U) == [k \in K |-> Sum(Of(U, k))]
           Total(U) == SumFunctionOnSet(Keys(U), K)
           B == {U \in SUBSET S : Total(U) # Sum(U)}
<1>0. ASSUME NEW U \in SUBSET S
      PROVE  /\ IsFiniteSet(U) /\ Sum(U) \in Int
             /\ \A k \in K : IsFiniteSet(Of(U, k)) /\ Sum(Of(U, k)) \in Int
  <2>1. IsFiniteSet(U)
    BY FS_Subset
  <2>2. ASSUME NEW k \in K PROVE IsFiniteSet(Of(U, k))
    BY <2>1, FS_Subset
  <2> QED BY <2>1, <2>2, SumType
<1>1. SUFFICES ASSUME B # {} PROVE FALSE
  <2>1. S \notin B
    BY <1>1
  <2>2. Total(S) = Sum(S)
    BY <2>1
  <2>3. SumFunctionOnSet(g, K) = Total(S)
    <3>1. \A k \in K : g[k] \in Int /\ g[k] = Keys(S)[k]
      BY <1>0
    <3> HIDE DEF Keys
    <3> QED BY <3>1, SumEqual
  <2> QED BY <2>2, <2>3
<1>2. PICK U \in B : \A V \in B : V \subseteq U => V = U
  <2>1. B \subseteq SUBSET S
    OBVIOUS
  <2> HIDE DEF B
  <2> QED BY <1>1, <2>1, SmallestSubset
<1>3. U # {}
  <2>1. ASSUME NEW k \in K PROVE Keys({})[k] = 0
    <3>1. Of({}, k) = {}
      OBVIOUS
    <3> HIDE DEF Of
    <3> QED BY <3>1, SumEmpty
  <2>2. Total({}) = 0
    <3> HIDE DEF Keys
    <3> QED BY <2>1, SumZero
  <2>3. Sum({}) = 0
    BY SumEmpty
  <2> HIDE DEF Sum, Total
  <2> QED BY <2>2, <2>3
<1>4. PICK y \in U : TRUE
  BY <1>3
<1> DEFINE V == U \ {y}
           c == key[y]
           L == K \ {c}
<1>5. U \in SUBSET S /\ V \in SUBSET S /\ c \in K /\ y \in S /\ f[y] \in Int
  OBVIOUS
<1>6. /\ IsFiniteSet(L)
      /\ \A k \in K : Keys(U)[k] = Sum(Of(U, k)) /\ Keys(V)[k] = Sum(Of(V, k))
      /\ \A k \in K : Keys(U)[k] \in Int /\ Keys(V)[k] \in Int
  BY <1>0, <1>5, FS_Subset
<1>7. \A k \in L : Keys(U)[k] = Keys(V)[k]
  <2>1. \A k \in L : Of(U, k) = Of(V, k)
    OBVIOUS
  <2> HIDE DEF Of
  <2> QED BY <2>1
<1>8. Keys(U)[c] = f[y] + Keys(V)[c]
  <2>1. y \in Of(U, c) /\ Of(U, c) \ {y} = Of(V, c) /\ IsFiniteSet(Of(U, c))
    BY <1>0, <1>5
  <2>2. \A x \in Of(U, c) : f[x] \in Int
    BY <1>5
  <2>3. Sum(Of(U, c)) = f[y] + Sum(Of(U, c) \ {y})
    <3> HIDE DEF Of
    <3> QED BY <2>1, <2>2, SumTake
  <2> QED BY <1>5, <1>6, <2>1, <2>3
<1> HIDE DEF Keys, Of
<1>9. /\ Total(U) = Keys(U)[c] + SumFunctionOnSet(Keys(U), L)
      /\ Total(V) = Keys(V)[c] + SumFunctionOnSet(Keys(V), L)
  <2> HIDE DEF V, c, B
  <2> QED BY <1>5, <1>6, SumTake
<1>10. SumFunctionOnSet(Keys(U), L) = SumFunctionOnSet(Keys(V), L)
  <2>1. \A k \in L : Keys(U)[k] \in Int /\ Keys(U)[k] = Keys(V)[k]
    BY <1>6, <1>7
  <2>2. IsFiniteSet(L)
    BY <1>6
  <2> HIDE DEF V, c, B, L
  <2> QED BY <2>1, <2>2, SumEqual
<1>11. Sum(U) = f[y] + Sum(V)
  BY <1>0, <1>5, SumTake
<1>12. SumFunctionOnSet(Keys(V), L) \in Int
  BY <1>6, SumType
<1>13. Total(U) # Sum(U)
  OBVIOUS
<1>14. Total(V) = Sum(V)
  <2> HIDE DEF Total, Sum
  <2> QED BY <1>2, <1>4, <1>5
<1>15. Sum(V) \in Int /\ Keys(V)[c] \in Int
  BY <1>0, <1>5, <1>6
<1> HIDE DEF Total, Sum, V, L, c, B
<1>16. Total(U) = f[y] + Total(V)
  BY <1>5, <1>8, <1>9, <1>10, <1>12, <1>15
<1> QED BY <1>11, <1>13, <1>14, <1>16


-----------------------------------------------------------------------------
(* Rooms *)

USE DEF Item

-----------------------------------------------------------------------------
(* Types *)

\* The empty tables have their types.
LEMMA RoomTypeInit == RoomInit => RoomTypeOK
  BY ReqTimeAssumption DEF RoomInit, RoomTypeOK

\* Every request leaves rows of their types.
LEMMA RoomTypeStep == RoomTypeOK /\ [RoomNext]_roomVars => RoomTypeOK'
<1> SUFFICES ASSUME RoomTypeOK, [RoomNext]_roomVars PROVE RoomTypeOK'
  OBVIOUS
<1> USE ClockAssumption, ReqTimeAssumption, IsuAssumption, CountAssumption
     DEF RoomTypeOK, MoveTime
<1>1. ASSUME NEW c \in Clock, NEW t \in ReqTime, NEW isu \in Isu, AddIsu(c, t, isu)
      PROVE  RoomTypeOK'
  BY <1>1 DEF AddIsu
<1>2. ASSUME NEW c \in Clock, NEW t \in ReqTime, NEW i \in Item, NEW n \in Count,
             BuyItem(c, t, i, n)
      PROVE  RoomTypeOK'
  <2>1. [item |-> i, ordinal |-> NextOrdinal(n), time |-> t] \in BuyingRow
    BY DEF BuyingRow, NextOrdinal
  <2> QED BY <1>2, <2>1 DEF BuyItem
<1>3. ASSUME NEW c \in Clock, GetStatus(c) PROVE RoomTypeOK'
  BY <1>3 DEF GetStatus
<1>4. CASE UNCHANGED roomVars
  BY <1>4 DEF roomVars
<1> QED BY <1>1, <1>2, <1>3, <1>4 DEF RoomNext

\* The tables always hold rows of their types.
THEOREM RoomTypeCorrect == RoomSpec => []RoomTypeOK
<1> QED BY RoomTypeInit, RoomTypeStep, PTL DEF RoomSpec

-----------------------------------------------------------------------------
(* Time *)

\* updateRoomTime never sets the room's time back.
LEMMA RoomTimeStep ==
    RoomTypeOK /\ [RoomNext]_roomVars => [roomTime' >= roomTime]_roomVars
<1> SUFFICES ASSUME RoomTypeOK, RoomNext PROVE roomTime' >= roomTime
  OBVIOUS
<1> QED
  BY ClockAssumption
  DEF RoomTypeOK, RoomNext, AddIsu, BuyItem, GetStatus, MoveTime, Current

\* The room's time never runs backwards, whatever the database clock does
\* (Game.js:133).
THEOREM RoomTimeNeverBack == RoomSpec => RoomTimeMonotone
<1> QED
  BY RoomTypeCorrect, RoomTimeStep, PTL DEF RoomSpec, RoomTimeMonotone

\* A request that is not in the past leaves the past alone.
LEMMA PastFrozenStep ==
    RoomTypeOK /\ [RoomNext]_roomVars =>
      [/\ \A t \in ReqTime : t < roomTime => adding'[t] = adding[t]
       /\ {b \in buying' : b.time < roomTime} = {b \in buying : b.time < roomTime}]_roomVars
<1> SUFFICES ASSUME RoomTypeOK, RoomNext
             PROVE  /\ \A t \in ReqTime : t < roomTime => adding'[t] = adding[t]
                    /\ {b \in buying' : b.time < roomTime}
                         = {b \in buying : b.time < roomTime}
  OBVIOUS
<1> USE ClockAssumption, ReqTimeAssumption DEF RoomTypeOK, MoveTime, Current, NotPast
<1>1. ASSUME NEW c \in Clock, NEW t \in ReqTime, NEW isu \in Isu, AddIsu(c, t, isu)
      PROVE  /\ \A u \in ReqTime : u < roomTime => adding'[u] = adding[u]
             /\ buying' = buying
  <2>1. roomTime <= t
    BY <1>1 DEF AddIsu
  <2> QED BY <1>1, <2>1 DEF AddIsu
<1>2. ASSUME NEW c \in Clock, NEW t \in ReqTime, NEW i \in Item, NEW n \in Count,
             BuyItem(c, t, i, n)
      PROVE  /\ adding' = adding
             /\ {b \in buying' : b.time < roomTime} = {b \in buying : b.time < roomTime}
  <2>1. roomTime <= t
    BY <1>2 DEF BuyItem
  <2>2. ~ ([item |-> i, ordinal |-> NextOrdinal(n), time |-> t].time < roomTime)
    BY <2>1
  <2> QED BY <1>2, <2>2 DEF BuyItem
<1>3. ASSUME NEW c \in Clock, GetStatus(c)
      PROVE  adding' = adding /\ buying' = buying
  BY <1>3 DEF GetStatus
<1> QED BY <1>1, <1>2, <1>3 DEF RoomNext

\* The past a status has shown is final: no request changes what arrived, or
\* what started to produce, before the room's time (Game.js:137).
THEOREM RoomPastFrozen == RoomSpec => PastFrozen
<1> QED BY RoomTypeCorrect, PastFrozenStep, PTL DEF RoomSpec, PastFrozen

\* What a status has shown up to the room's time stays true (Game.js:125).
THEOREM RoomPastKept == RoomSpec => PastKept
<1> QED BY RoomTimeNeverBack, RoomPastFrozen, PTL DEF PastKept

-----------------------------------------------------------------------------
(* Numbering of the copies *)

\* COUNT(*) counts what is there only as long as the table is finite.
NumberingInv == IsFiniteSet(buying) /\ OrdinalsContiguous

\* No copy is bought at first.
LEMMA NumberingInit == RoomInit => NumberingInv
<1> SUFFICES ASSUME RoomInit PROVE NumberingInv
  OBVIOUS
<1>1. buying = {}
  BY DEF RoomInit
<1>2. ASSUME NEW i \in Item
      PROVE  {b.ordinal : b \in {x \in buying : x.item = i}} = 1 .. CountBuying(buying, i)
  <2>1. {x \in buying : x.item = i} = {}
    BY <1>1
  <2>2. CountBuying(buying, i) = 0
    BY <2>1, FS_EmptySet DEF CountBuying
  <2> QED BY <2>1, <2>2
<1> QED BY <1>1, <1>2, FS_EmptySet DEF NumberingInv, OrdinalsContiguous

\* The next copy gets the first number that is not taken.
LEMMA NumberingBuy ==
  ASSUME RoomTypeOK, NumberingInv,
         NEW c \in Clock, NEW t \in ReqTime, NEW i \in Item, NEW n \in Count,
         BuyItem(c, t, i, n)
  PROVE  NumberingInv'
<1> DEFINE row == [item |-> i, ordinal |-> NextOrdinal(n), time |-> t]
           Of(T, j) == {x \in T : x.item = j}
<1>1. buying' = buying \cup {row}
  BY DEF BuyItem
<1>2. n \in Nat /\ NextOrdinal(n) = n + 1
  BY CountAssumption DEF NextOrdinal
<1>3. CountBuying(buying, i) = n
  BY DEF BuyItem, SeenAll
<1>4. {b.ordinal : b \in Of(buying, i)} = 1 .. n
  BY <1>3 DEF NumberingInv, OrdinalsContiguous
<1>5. \A b \in buying : b.item = i => b.ordinal \in 1 .. n
  BY <1>4
<1>6. row \notin Of(buying, i)
  BY <1>2, <1>5
<1>7. IsFiniteSet(buying')
  BY <1>1, FS_AddElement DEF NumberingInv
<1>8. ASSUME NEW b1 \in buying', NEW b2 \in buying',
             b1.item = b2.item, b1.ordinal = b2.ordinal
      PROVE  b1 = b2
  <2>1. CASE b1 \in buying /\ b2 \in buying
    BY <1>8, <2>1 DEF NumberingInv, OrdinalsContiguous
  <2>2. CASE b1 = row /\ b2 \in buying
    BY <1>2, <1>5, <1>8, <2>2
  <2>3. CASE b1 \in buying /\ b2 = row
    BY <1>2, <1>5, <1>8, <2>3
  <2> QED BY <1>1, <2>1, <2>2, <2>3
<1>9. ASSUME NEW j \in Item
      PROVE  {b.ordinal : b \in Of(buying', j)} = 1 .. CountBuying(buying', j)
  <2>1. CASE j = i
    <3>1. Of(buying', i) = Of(buying, i) \cup {row}
      BY <1>1
    <3>2. IsFiniteSet(Of(buying, i))
      BY FS_Subset DEF NumberingInv
    <3>3. CountBuying(buying', i) = n + 1
      BY <1>3, <1>6, <3>1, <3>2, FS_AddElement, ZenonT(60) DEF CountBuying
    <3>4. {b.ordinal : b \in Of(buying', i)} = (1 .. n) \cup {n + 1}
      <4>1. row.ordinal = n + 1
        BY <1>2
      <4>2. \A S : {b.ordinal : b \in S \cup {row}} = {b.ordinal : b \in S} \cup {row.ordinal}
        OBVIOUS
      <4> QED BY <1>4, <3>1, <4>1, <4>2
    <3> QED BY <1>2, <2>1, <3>3, <3>4
  <2>2. CASE j # i
    <3>1. Of(buying', j) = Of(buying, j)
      BY <1>1, <2>2
    <3> QED BY <3>1 DEF NumberingInv, OrdinalsContiguous, CountBuying
  <2> QED BY <2>1, <2>2
<1> QED BY <1>7, <1>8, <1>9 DEF NumberingInv, OrdinalsContiguous

\* Every request keeps the numbering.
LEMMA NumberingStep ==
    RoomTypeOK /\ NumberingInv /\ [RoomNext]_roomVars => NumberingInv'
<1> SUFFICES ASSUME RoomTypeOK, NumberingInv, [RoomNext]_roomVars
             PROVE  NumberingInv'
  OBVIOUS
<1>1. CASE buying' = buying
  BY <1>1 DEF NumberingInv, OrdinalsContiguous
<1>2. ASSUME NEW c \in Clock, NEW t \in ReqTime, NEW i \in Item, NEW n \in Count,
             BuyItem(c, t, i, n)
      PROVE  NumberingInv'
  BY <1>2, NumberingBuy
<1> QED BY <1>1, <1>2 DEF RoomNext, AddIsu, GetStatus, roomVars

\* The copies of an item are numbered 1..n without gap or repetition, n being
\* the count a buyer must know (Game.js:78 and the primary key of buying).
THEOREM RoomNumbering == RoomSpec => []OrdinalsContiguous
<1>1. NumberingInv => OrdinalsContiguous
  BY DEF NumberingInv
<1> QED
  BY RoomTypeCorrect, NumberingInit, NumberingStep, <1>1, PTL DEF RoomSpec

-----------------------------------------------------------------------------
(* The money *)

\* Every copy was bought by a request, whose count gives it its number.
BoughtRows(B) ==
    \A b \in B : /\ b.item \in Item /\ b.time \in ReqTime
                 /\ \E n \in Count : b.ordinal = n + 1

BooksInv == RoomTypeOK /\ NumberingInv /\ BoughtRows(buying) /\ Solvent

\* The terms of the three sums.
PriceOf(B) == [b \in B |-> Price(b.item, b.ordinal)]
ProducedOf(B, t) == [b \in B |-> Power(b.item, b.ordinal) * (t - b.time)]
By(B, t) == {b \in B : b.time <= t}

\* What a copy costs, and what it has produced once it is built, is not negative.
LEMMA TermType ==
  ASSUME NEW B, BoughtRows(B), NEW t \in Nat, NEW b \in B
  PROVE  /\ Price(b.item, b.ordinal) \in Nat /\ Power(b.item, b.ordinal) \in Nat
         /\ b.time \in Nat
         /\ Power(b.item, b.ordinal) * (t - b.time) \in Int
         /\ b.time <= t => Power(b.item, b.ordinal) * (t - b.time) >= 0
<1>1. PICK n \in Count : b.ordinal = n + 1
  BY DEF BoughtRows
<1>2. b.item \in Item
  BY DEF BoughtRows
<1> DEFINE p == Power(b.item, b.ordinal)
<1>3. Price(b.item, b.ordinal) \in Nat /\ p \in Nat
  BY <1>1, <1>2, ItemsAssumption
<1>4. b.time \in Nat
  BY ReqTimeAssumption DEF BoughtRows
<1> HIDE DEF p
<1>5. p * (t - b.time) \in Int
  BY <1>3, <1>4
<1>6. b.time <= t => p * (t - b.time) >= 0
  BY <1>3, <1>4
<1> QED BY <1>3, <1>4, <1>5, <1>6 DEF p

\* The isu that have arrived only grow: with time, and with what is added.
LEMMA AddedGrows ==
  ASSUME NEW a1 \in [ReqTime -> Nat], NEW a2 \in [ReqTime -> Nat],
         NEW t1 \in Nat, NEW t2 \in Nat, t1 <= t2,
         \A u \in ReqTime : a1[u] <= a2[u]
  PROVE  /\ AddedIsu(a1, t1) \in Int /\ AddedIsu(a2, t2) \in Int
         /\ AddedIsu(a1, t1) <= AddedIsu(a2, t2)
<1> DEFINE S == {u \in DOMAIN a1 : u <= t1}
           T == {u \in DOMAIN a2 : u <= t2}
<1>0. /\ DOMAIN a1 = ReqTime /\ DOMAIN a2 = ReqTime
      /\ \A u \in ReqTime : u \in Nat
  BY ReqTimeAssumption
<1>1. S \subseteq T /\ T \subseteq ReqTime
  <2>1. ASSUME NEW u \in S PROVE u \in T
    BY <1>0
  <2> QED BY <1>0, <2>1
<1>2. IsFiniteSet(T) /\ IsFiniteSet(S)
  <2>1. ASSUME NEW u \in T PROVE u \in 0 .. t2
    BY <1>0
  <2>2. IsFiniteSet(0 .. t2)
    BY FS_Interval
  <2> QED BY <1>1, <2>1, <2>2, FS_Subset
<1>3. \A u \in S : a1[u] \in Int /\ a1[u] <= a2[u]
  BY <1>1
<1>4. \A u \in T : a2[u] \in Int /\ a2[u] >= 0
  BY <1>1
<1> HIDE DEF S, T
<1>5. SumFunctionOnSet(a1, S) <= SumFunctionOnSet(a2, T)
  BY <1>1, <1>2, <1>3, <1>4, SumMonotone
<1>6. SumFunctionOnSet(a1, S) \in Int /\ SumFunctionOnSet(a2, T) \in Int
  BY <1>2, <1>3, <1>4, SumType
<1> QED BY <1>5, <1>6 DEF S, T, AddedIsu

\* So does what the copies have produced.
LEMMA GainGrows ==
  ASSUME NEW B2, BoughtRows(B2), IsFiniteSet(B2), NEW B1, B1 \subseteq B2,
         NEW t1 \in Nat, NEW t2 \in Nat, t1 <= t2
  PROVE  /\ Gain(B1, t1) \in Int /\ Gain(B2, t2) \in Int
         /\ Gain(B1, t1) <= Gain(B2, t2)
<1> DEFINE S == By(B1, t1)
           T == By(B2, t2)
           f == ProducedOf(B1, t1)
           g == ProducedOf(B2, t2)
<1>1. S \subseteq T /\ T \subseteq B2 /\ S \subseteq B1
  BY TermType DEF By
<1>2. IsFiniteSet(T) /\ IsFiniteSet(S)
  BY <1>1, FS_Subset
<1>3. ASSUME NEW b \in S PROVE f[b] \in Int /\ f[b] <= g[b]
  <2> DEFINE p == Power(b.item, b.ordinal)
  <2>1. b \in B1 /\ b \in B2
    BY DEF By
  <2>2. p \in Nat /\ b.time \in Nat
    BY <2>1, TermType
  <2> HIDE DEF p
  <2>3. p * (t1 - b.time) \in Int /\ p * (t1 - b.time) <= p * (t2 - b.time)
    BY <2>2
  <2> QED BY <2>1, <2>3 DEF ProducedOf, p
<1>4. ASSUME NEW b \in T PROVE g[b] \in Int /\ g[b] >= 0
  <2>1. b \in B2 /\ b.time <= t2
    BY DEF By
  <2> QED BY <2>1, TermType DEF ProducedOf
<1> HIDE DEF S, T, f, g
<1>5. SumFunctionOnSet(f, S) <= SumFunctionOnSet(g, T)
  BY <1>1, <1>2, <1>3, <1>4, SumMonotone
<1>6. SumFunctionOnSet(f, S) \in Int /\ SumFunctionOnSet(g, T) \in Int
  BY <1>2, <1>3, <1>4, SumType
<1> QED BY <1>5, <1>6 DEF S, T, f, g, Gain, By, ProducedOf

\* The copies cost a whole number of isu.
LEMMA CostType ==
  ASSUME NEW B, BoughtRows(B), IsFiniteSet(B) PROVE Cost(B) \in Int
<1>1. \A b \in B : PriceOf(B)[b] \in Int
  BY TermType, 0 \in Nat DEF PriceOf
<1> HIDE DEF PriceOf
<1>2. SumFunctionOnSet(PriceOf(B), B) \in Int
  BY <1>1, SumType
<1> QED BY <1>2 DEF Cost, PriceOf


\* A copy that is not there yet adds its price.
LEMMA CostOfOneMore ==
  ASSUME NEW B, NEW b, b \notin B, BoughtRows(B \cup {b}), IsFiniteSet(B)
  PROVE  Cost(B \cup {b}) = Price(b.item, b.ordinal) + Cost(B)
<1> DEFINE C == B \cup {b}
           f == PriceOf(C)
           g == PriceOf(B)
<1>1. b \in C /\ C \ {b} = B /\ IsFiniteSet(C)
  BY FS_AddElement
<1>2. \A x \in C : f[x] = Price(x.item, x.ordinal) /\ f[x] \in Int
  BY TermType, 0 \in Nat DEF PriceOf
<1>3. \A x \in B : g[x] = f[x]
  BY DEF PriceOf
<1>4. Cost(C) = SumFunctionOnSet(f, C) /\ Cost(B) = SumFunctionOnSet(g, B)
  BY DEF Cost, PriceOf
<1>5. f[b] = Price(b.item, b.ordinal)
  BY <1>1, <1>2
<1> HIDE DEF C, f, g
<1>6. SumFunctionOnSet(f, C) = f[b] + SumFunctionOnSet(f, C \ {b})
  BY <1>1, <1>2, SumTake
<1>7. SumFunctionOnSet(f, B) = SumFunctionOnSet(g, B)
  <2>1. \A x \in B : f[x] \in Int /\ f[x] = g[x]
    BY <1>1, <1>2, <1>3
  <2>2. IsFiniteSet(B)
    OBVIOUS
  <2> QED BY <2>1, <2>2, SumEqual
<1> QED BY <1>1, <1>4, <1>5, <1>6, <1>7 DEF C

\* What buyItem counts is an integer.
LEMMA MilliType ==
  ASSUME NEW a \in [ReqTime -> Nat], NEW B, BoughtRows(B), IsFiniteSet(B), NEW t \in Nat
  PROVE  MilliIsu(a, B, t) \in Int
<1>1. AddedIsu(a, t) \in Int
  <2>1. \A u \in ReqTime : a[u] <= a[u]
    BY ReqTimeAssumption
  <2> QED BY <2>1, AddedGrows
<1>2. Cost(B) \in Int /\ Gain(B, t) \in Int
  BY CostType, GainGrows
<1> QED BY <1>1, <1>2, MilliAssumption DEF MilliIsu

\* Without further purchases the money of a room does not fall: with time, and
\* with what is added.
LEMMA MoneyGrows ==
  ASSUME NEW a1 \in [ReqTime -> Nat], NEW a2 \in [ReqTime -> Nat],
         \A u \in ReqTime : a1[u] <= a2[u],
         NEW B, BoughtRows(B), IsFiniteSet(B),
         NEW t1 \in Nat, NEW t2 \in Nat, t1 <= t2
  PROVE  MilliIsu(a1, B, t1) <= MilliIsu(a2, B, t2)
<1> DEFINE A1 == AddedIsu(a1, t1)
           A2 == AddedIsu(a2, t2)
           G1 == Gain(B, t1)
           G2 == Gain(B, t2)
           C == Cost(B)
<1>1. A1 \in Int /\ A2 \in Int /\ A1 <= A2
  BY AddedGrows
<1>2. G1 \in Int /\ G2 \in Int /\ G1 <= G2
  BY GainGrows
<1>3. C \in Int
  BY CostType
<1>4. /\ MilliIsu(a1, B, t1) = Milli * A1 - Milli * C + G1
      /\ MilliIsu(a2, B, t2) = Milli * A2 - Milli * C + G2
  BY DEF MilliIsu
<1> HIDE DEF A1, A2, G1, G2, C
<1>5. Milli * A1 \in Int /\ Milli * A2 \in Int /\ Milli * A1 <= Milli * A2
  BY <1>1, MilliAssumption
<1>6. Milli * C \in Int
  BY <1>3, MilliAssumption
<1> QED BY <1>2, <1>4, <1>5, <1>6

\* A purchase takes the price of its copy, and nothing once it produces.
LEMMA MoneyAfterPurchase ==
  ASSUME NEW a \in [ReqTime -> Nat], NEW B, NEW b, b \notin B,
         BoughtRows(B \cup {b}), IsFiniteSet(B), NEW t \in Nat
  PROVE  MilliIsu(a, B \cup {b}, t) >= MilliIsu(a, B, t) - Milli * Price(b.item, b.ordinal)
<1> DEFINE C == B \cup {b}
           A == AddedIsu(a, t)
           K == Cost(B)
           P == Price(b.item, b.ordinal)
           G1 == Gain(B, t)
           G2 == Gain(C, t)
<1>1. BoughtRows(B) /\ IsFiniteSet(C)
  BY FS_AddElement DEF BoughtRows
<1>2. A \in Int
  <2>1. \A u \in ReqTime : a[u] <= a[u]
    BY ReqTimeAssumption
  <2> QED BY <2>1, AddedGrows
<1>3. K \in Int /\ Cost(C) = P + K /\ P \in Int
  BY <1>1, CostType, CostOfOneMore, TermType, 0 \in Nat
<1>4. G1 \in Int /\ G2 \in Int /\ G1 <= G2
  <2>1. B \subseteq C /\ t <= t
    OBVIOUS
  <2> HIDE DEF C
  <2> QED BY <1>1, <2>1, GainGrows DEF C
<1>5. /\ MilliIsu(a, B, t) = Milli * A - Milli * K + G1
      /\ MilliIsu(a, C, t) = Milli * A - Milli * Cost(C) + G2
  BY DEF MilliIsu
<1> HIDE DEF C, A, K, P, G1, G2
<1>6. Milli * Cost(C) = Milli * P + Milli * K
  BY <1>3, MilliAssumption
<1>7. Milli * A \in Int /\ Milli * K \in Int /\ Milli * P \in Int
  BY <1>2, <1>3, MilliAssumption
<1>8. MilliIsu(a, C, t) >= MilliIsu(a, B, t) - Milli * P
  BY <1>4, <1>5, <1>6, <1>7
<1> QED BY <1>8 DEF C, P


\* A room in which nothing was bought owes nothing.
LEMMA NothingOwed == adding \in [ReqTime -> Nat] /\ buying = {} => Solvent
<1> SUFFICES ASSUME adding \in [ReqTime -> Nat], buying = {} PROVE Solvent
  OBVIOUS
<1>1. ASSUME NEW t \in ReqTime PROVE MilliIsu(adding, buying, t) >= 0
  <2>1. t \in Nat
    BY ReqTimeAssumption
  <2> DEFINE S == {u \in DOMAIN adding : u <= t}
  <2>2. AddedIsu(adding, t) >= 0
    <3>1. IsFiniteSet(S)
      <4>1. ASSUME NEW u \in S PROVE u \in 0 .. t
        BY <2>1, ReqTimeAssumption
      <4>2. IsFiniteSet(0 .. t)
        BY <2>1, FS_Interval
      <4> HIDE DEF S
      <4> QED BY <4>1, <4>2, FS_Subset
    <3>2. \A u \in S : adding[u] \in Int /\ adding[u] >= 0
      BY <2>1
    <3> HIDE DEF S
    <3>3. SumFunctionOnSet(adding, {}) <= SumFunctionOnSet(adding, S)
      BY <3>1, <3>2, SumMonotone
    <3> QED BY <3>3, SumEmpty DEF AddedIsu, S
  <2>3. Cost(buying) = 0
    BY SumEmpty DEF Cost
  <2>4. Gain(buying, t) = 0
    <3>1. {b \in buying : b.time <= t} = {}
      OBVIOUS
    <3> QED BY <3>1, SumEmpty DEF Gain
  <2>5. AddedIsu(adding, t) \in Int
    <3>1. \A u \in ReqTime : adding[u] <= adding[u]
      BY ReqTimeAssumption
    <3> QED BY <2>1, <3>1, AddedGrows
  <2> QED BY <2>2, <2>3, <2>4, <2>5, MilliAssumption DEF MilliIsu
<1> QED BY <1>1 DEF Solvent

\* So an empty room keeps its books.
LEMMA BooksInit == RoomInit => BooksInv
<1> SUFFICES ASSUME RoomInit PROVE BooksInv
  OBVIOUS
<1>1. RoomTypeOK /\ NumberingInv
  BY RoomTypeInit, NumberingInit
<1>2. buying = {} /\ adding \in [ReqTime -> Nat]
  BY DEF RoomInit
<1>3. BoughtRows(buying)
  BY <1>2 DEF BoughtRows
<1> QED BY <1>1, <1>2, <1>3, NothingOwed DEF BooksInv

\* The copy a purchase inserts was not there, and the others stay as they were.
LEMMA PurchasedRow ==
  ASSUME RoomTypeOK, NumberingInv, BoughtRows(buying),
         NEW c \in Clock, NEW t \in ReqTime, NEW i \in Item, NEW n \in Count,
         BuyItem(c, t, i, n),
         NEW row, row = [item |-> i, ordinal |-> NextOrdinal(n), time |-> t]
  PROVE  /\ buying' = buying \cup {row} /\ row \notin buying
         /\ BoughtRows(buying \cup {row})
<1>1. buying' = buying \cup {row}
  BY DEF BuyItem
<1>2. n \in Nat /\ NextOrdinal(n) = n + 1
  BY CountAssumption DEF NextOrdinal
<1>3. {b.ordinal : b \in {x \in buying : x.item = i}} = 1 .. n
  BY DEF BuyItem, SeenAll, NumberingInv, OrdinalsContiguous
<1>4. \A b \in buying : b.item = i => b.ordinal \in 1 .. n
  BY <1>3
<1>5. row.item = i /\ row.ordinal = n + 1 /\ row.time = t
  BY <1>2
<1>6. row \notin buying
  BY <1>2, <1>4, <1>5
<1> QED BY <1>1, <1>5, <1>6 DEF BoughtRows

\* A purchase that the room can afford when its copy starts to produce leaves no
\* debt from then on, and until then nothing is promised.
LEMMA BooksBuy ==
  ASSUME BooksInv, NEW c \in Clock, NEW t0 \in ReqTime, NEW i \in Item, NEW n \in Count,
         BuyItem(c, t0, i, n)
  PROVE  BoughtRows(buying') /\ Solvent'
<1> DEFINE row == [item |-> i, ordinal |-> NextOrdinal(n), time |-> t0]
<1>1. /\ RoomTypeOK /\ NumberingInv /\ BoughtRows(buying) /\ IsFiniteSet(buying)
      /\ adding \in [ReqTime -> Nat]
  BY DEF BooksInv, RoomTypeOK, NumberingInv
<1>2. /\ buying' = buying \cup {row} /\ row \notin buying
      /\ BoughtRows(buying \cup {row})
  BY <1>1, PurchasedRow
<1>3. row.item = i /\ row.ordinal = NextOrdinal(n) /\ row.time = t0
  OBVIOUS
<1>4. adding' = adding /\ MilliIsu(adding, buying, t0) >= Milli * Price(i, NextOrdinal(n))
  BY DEF BuyItem, Affordable
<1> HIDE DEF row
<1>5. ASSUME NEW t \in ReqTime, \A b \in buying' : b.time <= t
      PROVE  MilliIsu(adding, buying', t) >= 0
  <2> DEFINE M0 == MilliIsu(adding, buying, t0)
             M1 == MilliIsu(adding, buying, t)
             M2 == MilliIsu(adding, buying', t)
             P == Price(i, NextOrdinal(n))
  <2>1. t0 \in Nat /\ t \in Nat /\ t0 <= t
    BY <1>2, <1>3, <1>5, ReqTimeAssumption
  <2>2. M0 <= M1
    <3>1. \A u \in ReqTime : adding[u] <= adding[u]
      BY <1>1, ReqTimeAssumption
    <3> QED BY <1>1, <2>1, <3>1, MoneyGrows
  <2>3. M2 >= M1 - Milli * P
    BY <1>1, <1>2, <1>3, <2>1, MoneyAfterPurchase
  <2>4. M0 \in Int /\ M1 \in Int
    BY <1>1, <2>1, MilliType
  <2>5. M2 \in Int
    <3>1. IsFiniteSet(buying \cup {row})
      BY <1>1, FS_AddElement
    <3> QED BY <1>1, <1>2, <2>1, <3>1, MilliType
  <2>6. Milli * P \in Int
    <3>1. P \in Nat
      <4>1. NextOrdinal(n) = n + 1
        BY DEF NextOrdinal
      <4> QED BY <4>1, ItemsAssumption
    <3> HIDE DEF P
    <3> QED BY <3>1, MilliAssumption
  <2>7. M0 >= Milli * P
    BY <1>4
  <2> HIDE DEF M0, M1, M2, P
  <2>8. M2 >= 0
    BY <2>2, <2>3, <2>4, <2>5, <2>6, <2>7
  <2> QED BY <2>8 DEF M2
<1> QED BY <1>2, <1>4, <1>5 DEF Solvent

\* What is added only helps.
LEMMA BooksAdd ==
  ASSUME BooksInv, NEW c \in Clock, NEW t0 \in ReqTime, NEW isu \in Isu,
         AddIsu(c, t0, isu)
  PROVE  Solvent'
<1>1. /\ adding \in [ReqTime -> Nat] /\ BoughtRows(buying) /\ IsFiniteSet(buying)
  BY DEF BooksInv, RoomTypeOK, NumberingInv
<1>2. buying' = buying /\ adding' = [adding EXCEPT ![t0] = @ + isu] /\ isu \in Nat
  BY IsuAssumption DEF AddIsu
<1>3. adding' \in [ReqTime -> Nat]
  BY <1>1, <1>2
<1>4. \A u \in ReqTime : adding[u] <= adding'[u]
  BY <1>1, <1>2
<1>5. ASSUME NEW t \in ReqTime, \A b \in buying : b.time <= t
      PROVE  MilliIsu(adding', buying, t) >= 0
  <2>1. t \in Nat
    BY ReqTimeAssumption
  <2>2. MilliIsu(adding, buying, t) <= MilliIsu(adding', buying, t)
    BY <1>1, <1>3, <1>4, <2>1, MoneyGrows
  <2>3. MilliIsu(adding, buying, t) >= 0
    BY <1>5 DEF BooksInv, Solvent
  <2>4. MilliIsu(adding, buying, t) \in Int /\ MilliIsu(adding', buying, t) \in Int
    BY <1>1, <1>3, <2>1, MilliType
  <2> QED BY <2>2, <2>3, <2>4
<1> QED BY <1>2, <1>5 DEF Solvent

\* Every request keeps the books.
LEMMA BooksStep == BooksInv /\ [RoomNext]_roomVars => BooksInv'
<1> SUFFICES ASSUME BooksInv, [RoomNext]_roomVars PROVE BooksInv'
  OBVIOUS
<1>1. RoomTypeOK' /\ NumberingInv'
  BY RoomTypeStep, NumberingStep DEF BooksInv
<1>2. ASSUME UNCHANGED <<adding, buying>> PROVE BoughtRows(buying') /\ Solvent'
  BY <1>2 DEF BooksInv, Solvent
<1>3. ASSUME NEW c \in Clock, NEW t \in ReqTime, NEW isu \in Isu, AddIsu(c, t, isu)
      PROVE  BoughtRows(buying') /\ Solvent'
  BY <1>3, BooksAdd DEF AddIsu, BooksInv
<1>4. ASSUME NEW c \in Clock, NEW t \in ReqTime, NEW i \in Item, NEW n \in Count,
             BuyItem(c, t, i, n)
      PROVE  BoughtRows(buying') /\ Solvent'
  BY <1>4, BooksBuy
<1>5. BoughtRows(buying') /\ Solvent'
  BY <1>2, <1>3, <1>4 DEF RoomNext, GetStatus, roomVars, BooksInv, Solvent
<1> QED BY <1>1, <1>5 DEF BooksInv

\* From the moment the last copy that was bought starts to produce, the room is
\* never in debt, in whatever order the copies were bought and for whatever times
\* (Game.js:103).
THEOREM RoomSolvent == RoomSpec => []Solvent
<1>1. BooksInv => Solvent
  BY DEF BooksInv
<1> QED BY BooksInit, BooksStep, <1>1, PTL DEF RoomSpec

=============================================================================
