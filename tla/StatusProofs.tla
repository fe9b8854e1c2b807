----------------------------- MODULE StatusProofs -----------------------------
(***************************************************************************)
(* The simulation of calcStatus agrees with the closed form of buyItem: at *)
(* every millisecond of the window it has the money the room has, so that  *)
(* the buttons the browser enables are those whose purchase is accepted.   *)
(* And the loops over arrays and the collision tests of phina.js compute    *)
(* what definitions without a loop, and without cases, give.               *)
(***************************************************************************)
EXTENDS MCFunctions, RoomProofs, SequenceTheorems, FiniteSetTheorems, WellFoundedInduction, TLAPS

\* What holds of the tables a status is computed from.
Tables == RoomTypeOK /\ NumberingInv /\ BoughtRows(buying)

\* It holds of every room.
LEMMA TablesCorrect == RoomSpec => []Tables
<1>1. BooksInv => Tables
  BY DEF BooksInv, Tables
<1> QED BY BooksInit, BooksStep, <1>1, PTL DEF RoomSpec

\* A set of natural numbers that is not empty has a least member.
LEMMA LeastTime ==
  ASSUME NEW T, T \subseteq Nat, T # {}
  PROVE  Min(T) \in T /\ \A t \in T : Min(T) <= t
<1>1. PICK x \in T : \A y \in T : ~ (<<y, x>> \in OpToRel(<, Nat))
  BY WFMin, NatLessThanWellFounded
<1>2. \A y \in T : ~ (y < x)
  BY <1>1 DEF OpToRel
<1>3. \A y \in T : x <= y
  BY <1>2
<1> QED BY <1>3 DEF Min

-----------------------------------------------------------------------------
(* The loop over the milliseconds *)

\* The times of a window are natural numbers.
LEMMA WindowTimes ==
  ASSUME Tables
  PROVE  /\ roomTime \in Window
         /\ \A t \in Window : /\ t \in Nat /\ roomTime <= t
                              /\ t # roomTime => t - 1 \in Window
BY HorizonAssumption DEF Tables, RoomTypeOK, Window

\* g is what the loop has computed after n of the milliseconds.
After(n, g) ==
    g = [t \in roomTime .. roomTime + n |->
           IF t = roomTime THEN Start ELSE Advance(g[t - 1], t)]

\* The loop computes the whole window.
LEMMA LoopEnds ==
  ASSUME Tables PROVE \E g : After(Horizon, g)
<1> DEFINE Missing == {n \in Nat : ~ \E g : After(n, g)}
<1>0. roomTime \in Nat
  BY DEF Tables, RoomTypeOK
<1>1. SUFFICES ASSUME Missing # {} PROVE FALSE
  BY <1>1, HorizonAssumption
<1>2. PICK n \in Missing : \A m \in Missing : n <= m
  <2>1. Missing \subseteq Nat
    OBVIOUS
  <2> HIDE DEF Missing
  <2> QED BY <1>1, <2>1, LeastTime
<1>3. CASE n = 0
  <2> DEFINE g == [t \in roomTime .. roomTime + n |-> Start]
  <2>1. ASSUME NEW t \in roomTime .. roomTime + n PROVE t = roomTime
    BY <1>0, <1>3
  <2> HIDE DEF Start, Advance
  <2>2. g = [t \in roomTime .. roomTime + n |->
               IF t = roomTime THEN Start ELSE Advance(g[t - 1], t)]
    BY <2>1
  <2> QED BY <1>2, <2>2 DEF After
<1>4. CASE n # 0
  <2>1. n - 1 \in Nat /\ n - 1 \notin Missing
    <3> HIDE DEF Missing
    <3>1. n \in Nat
      BY DEF Missing
    <3> QED BY <1>2, <1>4, <3>1
  <2>2. PICK g : After(n - 1, g)
    BY <2>1
  <2> DEFINE h == [t \in roomTime .. roomTime + n |->
                     IF t = roomTime + n THEN Advance(g[t - 1], t) ELSE g[t]]
  <2>3. ASSUME NEW t \in roomTime .. roomTime + n
        PROVE  h[t] = IF t = roomTime THEN Start ELSE Advance(h[t - 1], t)
    <3> HIDE DEF Start, Advance
    <3>1. CASE t = roomTime + n
      <4>1. t # roomTime /\ t - 1 # roomTime + n /\ t - 1 \in roomTime .. roomTime + n
        BY <1>0, <1>4, <2>1, <3>1
      <4>2. h[t - 1] = g[t - 1]
        BY <4>1
      <4> QED BY <3>1, <4>1, <4>2
    <3>2. CASE t # roomTime + n
      <4>1. t \in roomTime .. roomTime + (n - 1)
        BY <1>0, <2>1, <3>2
      <4>2. g[t] = IF t = roomTime THEN Start ELSE Advance(g[t - 1], t)
        BY <2>2, <4>1 DEF After
      <4>3. t # roomTime => t - 1 # roomTime + n /\ t - 1 \in roomTime .. roomTime + n
        BY <1>0, <2>1, <3>2
      <4> QED BY <3>2, <4>2, <4>3
    <3> QED BY <3>1, <3>2
  <2>4. h = [t \in roomTime .. roomTime + n |->
               IF t = roomTime THEN Start ELSE Advance(h[t - 1], t)]
    <3>1. h = [t \in roomTime .. roomTime + n |-> h[t]]
      OBVIOUS
    <3> HIDE DEF h, Start, Advance
    <3> QED BY <2>3, <3>1
  <2> QED BY <1>2, <2>4 DEF After
<1> QED BY <1>3, <1>4

\* So the simulation starts from the room as it is, and every millisecond follows
\* from the one before.
LEMMA SimulationSteps ==
  ASSUME Tables
  PROVE  /\ Simulation[roomTime] = Start
         /\ \A t \in Window \ {roomTime} : Simulation[t] = Advance(Simulation[t - 1], t)
<1> DEFINE sim == CHOOSE g : After(Horizon, g)
<1>1. Simulation = sim
  BY DEF Simulation, After, Window
<1>2. After(Horizon, sim)
  BY LoopEnds
<1>3. ASSUME NEW t \in Window
      PROVE  sim[t] = IF t = roomTime THEN Start ELSE Advance(sim[t - 1], t)
  <2> HIDE DEF sim, Start, Advance
  <2> QED BY <1>2 DEF After, Window
<1>4. roomTime \in Window
  BY WindowTimes
<1> HIDE DEF sim, Start, Advance
<1> QED BY <1>1, <1>3, <1>4

-----------------------------------------------------------------------------
(* What one millisecond brings *)

\* The rows of a set that start to produce at time t.
StartAt(B, t) == {b \in B : b.time = t}

\* What the rows of B make per millisecond.
PowerRows(B) == [b \in B |-> Power(b.item, b.ordinal)]
PowerOfAll(B) == SumFunctionOnSet(PowerRows(B), B)

\* The rows built by t are those built a millisecond before, and the new ones.
LEMMA BuiltStep ==
  ASSUME Tables, NEW t \in Nat, t # 0
  PROVE  /\ By(buying, t) = By(buying, t - 1) \cup StartAt(buying, t)
         /\ By(buying, t - 1) \cap StartAt(buying, t) = {}
         /\ IsFiniteSet(By(buying, t - 1)) /\ IsFiniteSet(StartAt(buying, t))
         /\ By(buying, t - 1) \subseteq buying /\ StartAt(buying, t) \subseteq buying
<1>1. \A b \in buying : b.time \in Nat
  BY TermType, 0 \in Nat DEF Tables
<1>2. By(buying, t - 1) \subseteq buying /\ StartAt(buying, t) \subseteq buying
  BY DEF By, StartAt
<1>3. ASSUME NEW b \in buying
      PROVE  /\ b.time <= t <=> b.time <= t - 1 \/ b.time = t
             /\ ~ (b.time <= t - 1 /\ b.time = t)
  BY <1>1
<1>4. IsFiniteSet(buying)
  BY DEF Tables, NumberingInv
<1>5. IsFiniteSet(By(buying, t - 1)) /\ IsFiniteSet(StartAt(buying, t))
  BY <1>2, <1>4, FS_Subset
<1>6. By(buying, t) = By(buying, t - 1) \cup StartAt(buying, t)
  BY <1>3 DEF By, StartAt
<1>7. By(buying, t - 1) \cap StartAt(buying, t) = {}
  BY <1>3 DEF By, StartAt
<1> QED BY <1>2, <1>5, <1>6, <1>7

\* What has arrived grows by what arrives.
LEMMA AddedStep ==
  ASSUME Tables, NEW t \in Nat, t # 0
  PROVE  /\ AddedIsu(adding, t) = AddedIsu(adding, t - 1) + AddingAt(t)
         /\ AddedIsu(adding, t - 1) \in Int /\ AddingAt(t) \in Int
<1> DEFINE S == {u \in DOMAIN adding : u <= t - 1}
           T == {u \in DOMAIN adding : u = t}
           U == {u \in DOMAIN adding : u <= t}
<1>0. adding \in [ReqTime -> Nat] /\ ReqTime \subseteq Nat
  BY ReqTimeAssumption DEF Tables, RoomTypeOK
<1>1. \A u \in DOMAIN adding : u \in Nat /\ u \in ReqTime /\ adding[u] \in Int
  BY <1>0
<1>2. U = S \cup T /\ S \cap T = {}
  <2>1. \A u \in DOMAIN adding : (u <= t <=> u <= t - 1 \/ u = t) /\ ~ (u <= t - 1 /\ u = t)
    BY <1>1
  <2> QED BY <2>1
<1>3. IsFiniteSet(S) /\ IsFiniteSet(T)
  <2>1. ASSUME NEW u \in S PROVE u \in 0 .. t
    BY <1>1
  <2>2. ASSUME NEW u \in T PROVE u \in 0 .. t
    OBVIOUS
  <2>3. IsFiniteSet(0 .. t)
    BY FS_Interval
  <2> HIDE DEF S, T
  <2> QED BY <2>1, <2>2, <2>3, FS_Subset
<1>4. SumFunctionOnSet(adding, S \cup T) = SumFunctionOnSet(adding, S) + SumFunctionOnSet(adding, T)
  <2>1. \A u \in S \cup T : adding[u] \in Int
    BY <1>1
  <2> HIDE DEF S, T
  <2> QED BY <1>2, <1>3, <2>1, SumUnion
<1>5. SumFunctionOnSet(adding, T) = AddingAt(t)
  <2>1. CASE t \in ReqTime
    <3>1. t \in T /\ T \ {t} = {} /\ \A u \in T : adding[u] \in Int
      BY <1>0, <1>1, <2>1
    <3>2. SumFunctionOnSet(adding, T \ {t}) = 0
      BY <3>1, SumEmpty
    <3> HIDE DEF T
    <3>3. SumFunctionOnSet(adding, T) = adding[t] + SumFunctionOnSet(adding, T \ {t})
      BY <1>3, <3>1, SumTake
    <3> QED BY <2>1, <3>1, <3>2, <3>3 DEF AddingAt
  <2>2. CASE t \notin ReqTime
    <3>1. T = {}
      BY <1>1, <2>2
    <3> HIDE DEF T
    <3> QED BY <2>2, <3>1, SumEmpty DEF AddingAt
  <2> QED BY <2>1, <2>2
<1>6. SumFunctionOnSet(adding, S) \in Int
  <2>1. \A u \in S : adding[u] \in Int
    BY <1>1
  <2> HIDE DEF S
  <2> QED BY <1>3, <2>1, SumType
<1>7. AddingAt(t) \in Int
  BY <1>0 DEF AddingAt
<1> QED BY <1>2, <1>4, <1>5, <1>6, <1>7 DEF AddedIsu

\* What has been produced grows by the power of what was built.
LEMMA GainStep ==
  ASSUME Tables, NEW t \in Nat, t # 0
  PROVE  /\ Gain(buying, t) = Gain(buying, t - 1) + PowerOfAll(By(buying, t - 1))
         /\ Gain(buying, t - 1) \in Int /\ PowerOfAll(By(buying, t - 1)) \in Int
<1> DEFINE S == By(buying, t - 1)
           T == StartAt(buying, t)
           f == ProducedOf(buying, t - 1)
           g == PowerRows(S)
           h == ProducedOf(buying, t)
<1>1. /\ By(buying, t) = S \cup T /\ S \cap T = {}
      /\ IsFiniteSet(S) /\ IsFiniteSet(T) /\ S \subseteq buying /\ T \subseteq buying
  BY BuiltStep
<1>2. ASSUME NEW b \in buying
      PROVE  /\ Power(b.item, b.ordinal) \in Nat /\ b.time \in Nat
             /\ f[b] \in Int /\ h[b] \in Int
             /\ f[b] = Power(b.item, b.ordinal) * ((t - 1) - b.time)
             /\ h[b] = Power(b.item, b.ordinal) * (t - b.time)
  <2>1. t - 1 \in Nat /\ BoughtRows(buying)
    BY DEF Tables
  <2>2. /\ Power(b.item, b.ordinal) * ((t - 1) - b.time) \in Int
        /\ Power(b.item, b.ordinal) * (t - b.time) \in Int
        /\ Power(b.item, b.ordinal) \in Nat /\ b.time \in Nat
    BY <2>1, TermType
  <2> QED BY <2>2 DEF ProducedOf
<1>3. ASSUME NEW b \in S PROVE f[b] \in Int /\ g[b] \in Int /\ h[b] = f[b] + g[b]
  <2> DEFINE p == Power(b.item, b.ordinal)
  <2>1. b \in buying
    BY <1>1
  <2>2. p \in Nat /\ b.time \in Nat /\ f[b] = p * ((t - 1) - b.time) /\ h[b] = p * (t - b.time)
    BY <1>2, <2>1
  <2>3. g[b] = p
    BY DEF PowerRows
  <2>4. f[b] \in Int
    BY <1>2, <2>1
  <2> HIDE DEF p, f, g, h
  <2>5. p * (t - b.time) = p * ((t - 1) - b.time) + p
    BY <2>2
  <2> QED BY <2>2, <2>3, <2>4, <2>5
<1>4. ASSUME NEW b \in T PROVE h[b] = 0
  <2>1. b \in buying /\ b.time = t
    BY DEF StartAt
  <2>2. h[b] = Power(b.item, b.ordinal) * (t - b.time) /\ Power(b.item, b.ordinal) \in Nat
    BY <1>2, <2>1
  <2> HIDE DEF h
  <2>3. t - b.time = 0
    BY <2>1
  <2> QED BY <2>2, <2>3
<1>5. /\ Gain(buying, t) = SumFunctionOnSet(h, S \cup T)
      /\ Gain(buying, t - 1) = SumFunctionOnSet(f, S)
      /\ PowerOfAll(S) = SumFunctionOnSet(g, S)
  BY <1>1 DEF Gain, ProducedOf, By, PowerOfAll
<1>6. \A b \in S \cup T : h[b] \in Int
  BY <1>1, <1>2
<1> HIDE DEF S, T, f, g, h
<1>7. SumFunctionOnSet(h, S \cup T) = SumFunctionOnSet(h, S) + SumFunctionOnSet(h, T)
  BY <1>1, <1>6, SumUnion
<1>8. SumFunctionOnSet(h, T) = 0
  BY <1>1, <1>4, SumZero
<1>9. SumFunctionOnSet(h, S) = SumFunctionOnSet(f, S) + SumFunctionOnSet(g, S)
  BY <1>1, <1>3, SumPlus
<1>10. SumFunctionOnSet(f, S) \in Int /\ SumFunctionOnSet(g, S) \in Int
  BY <1>1, <1>3, SumType
<1> QED BY <1>5, <1>7, <1>8, <1>9, <1>10 DEF S

\* So the money of a room grows by its power and by what arrives.
LEMMA MoneyStep ==
  ASSUME Tables, NEW t \in Nat, t # 0
  PROVE  MilliIsu(adding, buying, t) =
           MilliIsu(adding, buying, t - 1) + PowerOfAll(By(buying, t - 1)) + Milli * AddingAt(t)
<1> DEFINE A == AddedIsu(adding, t - 1)
           D == AddingAt(t)
           K == Cost(buying)
           G == Gain(buying, t - 1)
           P == PowerOfAll(By(buying, t - 1))
<1>1. AddedIsu(adding, t) = A + D /\ A \in Int /\ D \in Int
  BY AddedStep
<1>2. Gain(buying, t) = G + P /\ G \in Int /\ P \in Int
  BY GainStep
<1>3. K \in Int
  BY CostType DEF Tables, NumberingInv
<1>4. /\ MilliIsu(adding, buying, t) = Milli * AddedIsu(adding, t) - Milli * K + Gain(buying, t)
      /\ MilliIsu(adding, buying, t - 1) = Milli * A - Milli * K + G
  BY DEF MilliIsu
<1> HIDE DEF A, D, K, G, P
<1>5. Milli * (A + D) = Milli * A + Milli * D
  BY <1>1, MilliAssumption
<1>6. Milli * A \in Int /\ Milli * D \in Int /\ Milli * K \in Int
  BY <1>1, <1>3, MilliAssumption
<1>7. MilliIsu(adding, buying, t) = MilliIsu(adding, buying, t - 1) + P + Milli * D
  BY <1>1, <1>2, <1>4, <1>5, <1>6
<1> QED BY <1>7 DEF P, D


-----------------------------------------------------------------------------
(* What the items make *)

\* The rows of B for item i.
OfItem(B, i) == {b \in B : b.item = i}

\* Some rows of a room: there are finitely many, and each has a power.
LEMMA SomeRows ==
  ASSUME Tables, NEW B, B \subseteq buying
  PROVE  /\ IsFiniteSet(B)
         /\ \A b \in B : /\ b.item \in Item /\ Power(b.item, b.ordinal) \in Int
                         /\ PowerRows(B)[b] = Power(b.item, b.ordinal)
         /\ \A i \in Item : IsFiniteSet(OfItem(B, i)) /\ OfItem(B, i) \subseteq B
<1>1. IsFiniteSet(B)
  BY FS_Subset DEF Tables, NumberingInv
<1>2. ASSUME NEW b \in B
      PROVE  b.item \in Item /\ Power(b.item, b.ordinal) \in Int
  <2>1. b \in buying /\ BoughtRows(buying)
    BY DEF Tables
  <2>2. b.item \in Item
    BY <2>1 DEF BoughtRows
  <2>3. Power(b.item, b.ordinal) \in Nat
    BY <2>1, TermType, 0 \in Nat
  <2> QED BY <2>2, <2>3
<1>3. \A i \in Item : IsFiniteSet(OfItem(B, i)) /\ OfItem(B, i) \subseteq B
  BY <1>1, FS_Subset DEF OfItem
<1>4. \A b \in B : PowerRows(B)[b] = Power(b.item, b.ordinal)
  BY DEF PowerRows
<1> QED BY <1>1, <1>2, <1>3, <1>4

\* The power of an item is the sum of those of its rows, of whatever table.
LEMMA PowerOfRows ==
  ASSUME Tables, NEW B, B \subseteq buying, NEW C, C \subseteq B, NEW i \in Item
  PROVE  /\ PowerOf(C, i) = SumFunctionOnSet(PowerRows(B), OfItem(C, i))
         /\ PowerOf(C, i) \in Int
<1> DEFINE f == [b \in C |-> Power(i, b.ordinal)]
           g == PowerRows(B)
           S == OfItem(C, i)
<1>1. IsFiniteSet(S) /\ S \subseteq C
  BY SomeRows
<1>2. ASSUME NEW b \in S PROVE f[b] \in Int /\ f[b] = g[b]
  <2>1. b \in C /\ b \in B /\ b.item = i
    BY DEF OfItem
  <2>2. g[b] = Power(b.item, b.ordinal) /\ Power(b.item, b.ordinal) \in Int
    BY <2>1, SomeRows
  <2>3. f[b] = Power(i, b.ordinal)
    BY <2>1
  <2> QED BY <2>1, <2>2, <2>3
<1>3. PowerOf(C, i) = SumFunctionOnSet(f, S)
  BY DEF PowerOf, OfItem
<1> HIDE DEF f, g, S
<1>4. SumFunctionOnSet(f, S) = SumFunctionOnSet(g, S)
  BY <1>1, <1>2, SumEqual
<1>5. SumFunctionOnSet(f, S) \in Int
  BY <1>1, <1>2, SumType
<1> QED BY <1>3, <1>4, <1>5 DEF g, S

\* What is built at t adds its power to what was built before.
LEMMA PowerOfStep ==
  ASSUME Tables, NEW t \in Nat, t # 0, NEW i \in Item
  PROVE  PowerOf(By(buying, t), i) =
           PowerOf(By(buying, t - 1), i) + PowerOf(StartAt(buying, t), i)
<1> DEFINE S == By(buying, t - 1)
           T == StartAt(buying, t)
           f == PowerRows(buying)
<1>1. /\ By(buying, t) = S \cup T /\ S \cap T = {}
      /\ S \subseteq buying /\ T \subseteq buying
  BY BuiltStep
<1>2. /\ PowerOf(S \cup T, i) = SumFunctionOnSet(f, OfItem(S \cup T, i))
      /\ PowerOf(S, i) = SumFunctionOnSet(f, OfItem(S, i))
      /\ PowerOf(T, i) = SumFunctionOnSet(f, OfItem(T, i))
  <2>1. S \cup T \subseteq buying /\ buying \subseteq buying
    BY <1>1
  <2> HIDE DEF S, T
  <2> QED BY <1>1, <2>1, PowerOfRows
<1>3. /\ OfItem(S \cup T, i) = OfItem(S, i) \cup OfItem(T, i)
      /\ OfItem(S, i) \cap OfItem(T, i) = {}
  <2> HIDE DEF S, T
  <2> QED BY <1>1 DEF OfItem
<1>4. /\ IsFiniteSet(OfItem(S, i)) /\ IsFiniteSet(OfItem(T, i))
      /\ OfItem(S, i) \subseteq buying /\ OfItem(T, i) \subseteq buying
  <2> HIDE DEF S, T
  <2>1. IsFiniteSet(OfItem(S, i)) /\ OfItem(S, i) \subseteq S
    BY <1>1, SomeRows
  <2>2. IsFiniteSet(OfItem(T, i)) /\ OfItem(T, i) \subseteq T
    BY <1>1, SomeRows
  <2> QED BY <1>1, <2>1, <2>2
<1>5. \A b \in buying : f[b] \in Int
  BY SomeRows
<1> HIDE DEF S, T, f
<1>6. SumFunctionOnSet(f, OfItem(S, i) \cup OfItem(T, i)) =
        SumFunctionOnSet(f, OfItem(S, i)) + SumFunctionOnSet(f, OfItem(T, i))
  <2>1. \A b \in OfItem(S, i) \cup OfItem(T, i) : f[b] \in Int
    BY <1>4, <1>5
  <2> QED BY <1>3, <1>4, <2>1, SumUnion
<1> QED BY <1>1, <1>2, <1>3, <1>6 DEF S, T

\* So does their number.
LEMMA CountStep ==
  ASSUME Tables, NEW t \in Nat, t # 0, NEW i \in Item
  PROVE  CountBuying(By(buying, t), i) =
           CountBuying(By(buying, t - 1), i) + CountBuying(StartAt(buying, t), i)
<1> DEFINE S == By(buying, t - 1)
           T == StartAt(buying, t)
<1>1. /\ By(buying, t) = S \cup T /\ S \cap T = {}
      /\ S \subseteq buying /\ T \subseteq buying
  BY BuiltStep
<1> HIDE DEF S, T
<1>2. IsFiniteSet(OfItem(S, i)) /\ IsFiniteSet(OfItem(T, i))
  BY <1>1, SomeRows
<1>3. /\ OfItem(S \cup T, i) = OfItem(S, i) \cup OfItem(T, i)
      /\ OfItem(S, i) \cap OfItem(T, i) = {}
  BY <1>1 DEF OfItem
<1>4. Cardinality(OfItem(S, i) \cup OfItem(T, i)) =
        Cardinality(OfItem(S, i)) + Cardinality(OfItem(T, i)) - Cardinality({})
  BY <1>2, <1>3, FS_Union
<1>5. Cardinality(OfItem(S, i)) \in Nat /\ Cardinality(OfItem(T, i)) \in Nat /\ Cardinality({}) = 0
  BY <1>2, FS_CardinalityType, FS_EmptySet
<1> DEFINE m == Cardinality(OfItem(S, i))
           n == Cardinality(OfItem(T, i))
<1>6. Cardinality(OfItem(S \cup T, i)) = m + n
  <2>1. Cardinality(OfItem(S \cup T, i)) = m + n - 0
    BY <1>3, <1>4, <1>5
  <2> HIDE DEF m, n
  <2> QED BY <1>5, <2>1 DEF m, n
<1> QED BY <1>1, <1>6 DEF CountBuying, OfItem, S, T

\* The powers of the items add up to that of all the rows.
LEMMA TotalOfItems ==
  ASSUME Tables, NEW B, B \subseteq buying
  PROVE  TotalPower([i \in Item |-> PowerOf(B, i)]) = PowerOfAll(B)
<1> DEFINE f == PowerRows(B)
           g == [i \in Item |-> PowerOf(B, i)]
           key == [b \in B |-> b.item]
           group == [i \in Item |-> OfItem(B, i)]
<1>1. IsFiniteSet(B) /\ \A b \in B : f[b] \in Int /\ b.item \in Item
  BY SomeRows
<1>2. key \in [B -> Item]
  BY <1>1
<1>3. ASSUME NEW i \in Item
      PROVE  group[i] = {b \in B : key[b] = i} /\ g[i] = SumFunctionOnSet(f, group[i])
  <2>1. group[i] = {b \in B : key[b] = i}
    BY DEF OfItem
  <2>2. PowerOf(B, i) = SumFunctionOnSet(f, OfItem(B, i))
    BY PowerOfRows
  <2> QED BY <2>1, <2>2
<1>4. IsFiniteSet(Item)
  BY MItemsAssumption
<1> HIDE DEF f, g, key, group, Item
<1>5. SumFunctionOnSet(g, Item) = SumFunctionOnSet(f, B)
  BY <1>1, <1>2, <1>3, <1>4, SumByKey
<1> QED BY <1>5 DEF TotalPower, PowerOfAll, f, g


-----------------------------------------------------------------------------
(* The simulation *)

\* When the rows come in the order of the primary key, the count of the rows so far
\* is the ordinal of the row: calcStatus may pass the one for the other
\* (Game.js:185).
LEMMA RunningIsOrdinal ==
  ASSUME Tables, NEW b \in buying PROVE RunningCount(b) = b.ordinal
<1> DEFINE R == {x \in buying : x.item = b.item /\ x.ordinal <= b.ordinal}
           n == b.ordinal
           Of == {x \in buying : x.item = b.item}
           f == [x \in R |-> x.ordinal]
<1>1. b.item \in Item /\ \A x \in buying : x.ordinal \in Nat \ {0}
  BY DEF Tables, RoomTypeOK, BuyingRow
<1>2. {x.ordinal : x \in Of} = 1 .. CountBuying(buying, b.item)
  BY <1>1 DEF Tables, NumberingInv, OrdinalsContiguous
<1>3. n \in 1 .. CountBuying(buying, b.item)
  BY <1>2
<1>4. IsFiniteSet(Of) /\ CountBuying(buying, b.item) \in Nat
  <2>1. IsFiniteSet(buying) /\ Of \subseteq buying
    BY DEF Tables, NumberingInv
  <2>2. IsFiniteSet(Of)
    BY <2>1, FS_Subset
  <2> QED BY <2>2, FS_CardinalityType DEF CountBuying
<1>5. \A x \in R : x.ordinal \in 1 .. n
  BY <1>1
<1>6. f \in Surjection(R, 1 .. n)
  <2>1. ASSUME NEW k \in 1 .. n PROVE \E x \in R : f[x] = k
    <3>1. k \in 1 .. CountBuying(buying, b.item) /\ k <= n
      BY <1>1, <1>3, <1>4
    <3>2. PICK x \in Of : x.ordinal = k
      BY <1>2, <3>1
    <3>3. x \in R
      BY <3>1, <3>2
    <3> QED BY <3>2, <3>3
  <2>2. f \in [R -> 1 .. n]
    BY <1>5
  <2> HIDE DEF f, R, n
  <2> QED BY <2>1, <2>2 DEF Surjection
<1>7. f \in Injection(R, 1 .. n)
  <2>1. \A x, y \in R : f[x] = f[y] => x = y
    BY DEF Tables, NumberingInv, OrdinalsContiguous
  <2>2. f \in [R -> 1 .. n] /\ DOMAIN f = R
    BY <1>5
  <2> HIDE DEF f, R, n
  <2> QED BY <2>1, <2>2 DEF Injection, IsInjective
<1>8. ExistsBijection(R, 1 .. n)
  BY <1>6, <1>7 DEF ExistsBijection, Bijection
<1>9. IsFiniteSet(R) /\ n \in Nat
  <2>1. IsFiniteSet(buying) /\ R \subseteq buying
    BY DEF Tables, NumberingInv
  <2> QED BY <1>1, <2>1, FS_Subset
<1>10. Cardinality(1 .. n) = n
  <2> HIDE DEF n
  <2> QED BY <1>9, FS_Interval
<1>11. Cardinality(1 .. n) = Cardinality(R)
  <2> HIDE DEF n, R
  <2> QED BY <1>8, <1>9, FS_Bijection
<1> QED BY <1>10, <1>11 DEF RunningCount

\* s is what the room has at time t: the money buyItem counts, the powers and numbers
\* of the copies built by then.
Right(s, t) ==
    s = [milli |-> MilliIsu(adding, buying, t),
         power |-> PowerOfAll(By(buying, t)),
         itemPower |-> [i \in Item |-> PowerOf(By(buying, t), i)],
         itemBuilt |-> [i \in Item |-> CountBuying(By(buying, t), i)]]

\* The loops over the tables start the simulation right.
LEMMA StartRight == ASSUME Tables PROVE Right(Start, roomTime)
<1> DEFINE power == [b \in Built |-> Power(b.item, RunningCount(b))]
           B == By(buying, roomTime)
           itemPower == [i \in Item |-> SumFunctionOnSet(power, {b \in Built : b.item = i})]
<1>1. Built = B /\ B \subseteq buying
  BY DEF Built, By
<1>2. power = PowerRows(B)
  BY <1>1, RunningIsOrdinal DEF PowerRows
<1>3. itemPower = [i \in Item |-> PowerOf(B, i)]
  <2>1. \A i \in Item : SumFunctionOnSet(PowerRows(B), OfItem(B, i)) = PowerOf(B, i)
    BY <1>1, PowerOfRows
  <2> QED BY <1>1, <1>2, <2>1 DEF OfItem
<1>4. TotalPower(itemPower) = PowerOfAll(B)
  <2> HIDE DEF itemPower, B
  <2> QED BY <1>1, <1>3, TotalOfItems
<1>5. SumFunctionOnSet([b \in Built |-> power[b] * (roomTime - b.time)], Built)
        = Gain(buying, roomTime)
  <2> DEFINE f == [b \in Built |-> power[b] * (roomTime - b.time)]
             g == ProducedOf(buying, roomTime)
  <2>1. ASSUME NEW b \in B PROVE f[b] \in Int /\ f[b] = g[b]
    <3>1. b \in buying /\ roomTime \in Nat /\ BoughtRows(buying)
      BY <1>1 DEF Tables, RoomTypeOK
    <3>2. Power(b.item, b.ordinal) * (roomTime - b.time) \in Int
      BY <3>1, TermType
    <3>3. power[b] = Power(b.item, b.ordinal)
      BY <1>2 DEF PowerRows
    <3>4. f[b] = power[b] * (roomTime - b.time)
      BY <1>1
    <3>5. g[b] = Power(b.item, b.ordinal) * (roomTime - b.time)
      BY <3>1 DEF ProducedOf
    <3> QED BY <3>2, <3>3, <3>4, <3>5
  <2>2. IsFiniteSet(B)
    BY <1>1, SomeRows
  <2>3. Gain(buying, roomTime) = SumFunctionOnSet(g, B)
    BY DEF Gain, ProducedOf, By
  <2> HIDE DEF f, g, B
  <2>4. SumFunctionOnSet(f, B) = SumFunctionOnSet(g, B)
    BY <2>1, <2>2, SumEqual
  <2>5. SumFunctionOnSet(f, Built) = Gain(buying, roomTime)
    BY <1>1, <2>3, <2>4
  <2> QED BY <2>5 DEF f
<1>6. Start = [milli |-> Milli * AddedIsu(adding, roomTime) - Milli * Cost(buying)
                           + SumFunctionOnSet([b \in Built |-> power[b] * (roomTime - b.time)], Built),
               power |-> TotalPower(itemPower),
               itemPower |-> itemPower,
               itemBuilt |-> [i \in Item |-> CountBuying(Built, i)]]
  BY DEF Start
<1> HIDE DEF power, itemPower, B
<1> QED BY <1>1, <1>3, <1>4, <1>5, <1>6 DEF Right, MilliIsu, B

\* Every millisecond keeps it right.
LEMMA AdvanceRight ==
  ASSUME Tables, NEW t \in Nat, t # 0, NEW s, Right(s, t - 1)
  PROVE  Right(Advance(s, t), t)
<1> DEFINE B == {b \in buying : b.time = t}
           itemPower == [i \in Item |-> s.itemPower[i] + PowerOf(B, i)]
           C == By(buying, t - 1)
           D == By(buying, t)
<1>1. B = StartAt(buying, t) /\ D \subseteq buying
  BY DEF StartAt, By
<1>2. /\ s.milli = MilliIsu(adding, buying, t - 1)
      /\ s.power = PowerOfAll(C)
      /\ \A i \in Item : s.itemPower[i] = PowerOf(C, i) /\ s.itemBuilt[i] = CountBuying(C, i)
  BY DEF Right
<1> HIDE DEF B, C, D
<1>3. \A i \in Item : PowerOf(D, i) = s.itemPower[i] + PowerOf(B, i)
  BY <1>1, <1>2, PowerOfStep DEF C, D
<1>4. itemPower = [i \in Item |-> PowerOf(D, i)]
  BY <1>3
<1>5. TotalPower(itemPower) = PowerOfAll(D)
  <2> HIDE DEF itemPower
  <2> QED BY <1>1, <1>4, TotalOfItems
<1>6. \A i \in Item : CountBuying(D, i) = s.itemBuilt[i] + CountBuying(B, i)
  BY <1>1, <1>2, CountStep DEF C, D
<1>7. MilliIsu(adding, buying, t) = s.milli + s.power + Milli * AddingAt(t)
  BY <1>2, MoneyStep DEF C
<1>8. Advance(s, t) =
        [milli |-> s.milli + s.power + Milli * AddingAt(t),
         power |-> TotalPower(itemPower),
         itemPower |-> itemPower,
         itemBuilt |-> [i \in Item |-> s.itemBuilt[i] + CountBuying(B, i)]]
  BY DEF Advance, B
<1> HIDE DEF itemPower
<1>9. [i \in Item |-> s.itemBuilt[i] + CountBuying(B, i)] = [i \in Item |-> CountBuying(D, i)]
  BY <1>6
<1> QED BY <1>4, <1>5, <1>7, <1>8, <1>9 DEF Right, D

\* So the simulation is right throughout the window.
LEMMA SimulationRight ==
  ASSUME Tables PROVE \A t \in Window : Right(Simulation[t], t)
<1> DEFINE Wrong == {t \in Window : ~ Right(Simulation[t], t)}
<1>1. SUFFICES ASSUME Wrong # {} PROVE FALSE
  BY <1>1
<1>2. PICK t \in Wrong : \A u \in Wrong : t <= u
  <2>1. Wrong \subseteq Nat
    BY WindowTimes
  <2> HIDE DEF Wrong
  <2> QED BY <1>1, <2>1, LeastTime
<1>3. t \in Window /\ ~ Right(Simulation[t], t)
  OBVIOUS
<1>4. t # roomTime
  BY <1>3, StartRight, SimulationSteps
<1>5. t \in Nat /\ t # 0 /\ t - 1 \in Window /\ t - 1 \in Nat
  <2>1. roomTime \in Nat
    BY DEF Tables, RoomTypeOK
  <2> QED BY <1>3, <1>4, <2>1, WindowTimes
<1>6. t - 1 \notin Wrong
  <2> HIDE DEF Wrong
  <2> QED BY <1>2, <1>5
<1>7. Right(Simulation[t - 1], t - 1)
  BY <1>5, <1>6
<1>8. Simulation[t] = Advance(Simulation[t - 1], t)
  BY <1>3, <1>4, SimulationSteps
<1> QED BY <1>3, <1>5, <1>7, <1>8, AdvanceRight


-----------------------------------------------------------------------------
(* The buttons *)

\* The price of the next copy of an item is a number.
LEMMA NextPriceType ==
  ASSUME Tables, NEW i \in Item
  PROVE  Milli * NextPrice(i) \in Int
<1> DEFINE n == CountBuying(buying, i)
<1>1. n \in Nat
  <2>1. IsFiniteSet(buying)
    BY DEF Tables, NumberingInv
  <2>2. {b \in buying : b.item = i} \subseteq buying
    OBVIOUS
  <2> QED BY <2>1, <2>2, FS_Subset, FS_CardinalityType DEF CountBuying
<1>2. n \in {0} \cup {m + 1 : m \in Count}
  <2>1. CASE n = 0
    BY <2>1
  <2>2. CASE n # 0
    <3>1. n \in 1 .. n
      BY <1>1, <2>2
    <3>2. {b.ordinal : b \in {x \in buying : x.item = i}} = 1 .. n
      BY DEF Tables, NumberingInv, OrdinalsContiguous
    <3>3. PICK b \in buying : b.ordinal = n
      BY <3>1, <3>2
    <3>4. PICK m \in Count : b.ordinal = m + 1
      BY DEF Tables, BoughtRows
    <3> QED BY <3>3, <3>4
  <2> QED BY <2>1, <2>2
<1>3. Price(i, n + 1) \in Nat
  BY <1>2, ItemsAssumption
<1> QED BY <1>3, MilliAssumption DEF NextPrice

\* The times of the window at which the simulation can pay the next copy of item i
\* are those at which buyItem would sell it, and once that is so it stays so.
LEMMA PayableTimes ==
  ASSUME Tables, NEW i \in Item,
         NEW T, T = {t \in Window : Simulation[t].milli >= Milli * NextPrice(i)}
  PROVE  /\ T = {t \in Window : Affordable(i, CountBuying(buying, i), t)}
         /\ \A t \in T, u \in Window : t <= u => u \in T
<1> DEFINE M(t) == MilliIsu(adding, buying, t)
           P == Milli * NextPrice(i)
<1>1. ASSUME NEW t \in Window PROVE Simulation[t].milli = M(t)
  <2>1. Right(Simulation[t], t)
    BY SimulationRight
  <2> QED BY <2>1 DEF Right
<1>2. \A t \in Window : Affordable(i, CountBuying(buying, i), t) <=> M(t) >= P
  BY DEF Affordable, NextPrice, NextOrdinal
<1>3. T = {t \in Window : M(t) >= P}
  BY <1>1
<1>4. /\ adding \in [ReqTime -> Nat] /\ BoughtRows(buying) /\ IsFiniteSet(buying)
      /\ \A u \in ReqTime : adding[u] <= adding[u]
  BY DEF Tables, RoomTypeOK, NumberingInv
<1>5. ASSUME NEW t \in Window, NEW u \in Window, t <= u PROVE M(t) <= M(u)
  <2>1. t \in Nat /\ u \in Nat
    BY WindowTimes
  <2> QED BY <1>4, <1>5, <2>1, MoneyGrows
<1>6. \A t \in Window : M(t) \in Int
  BY <1>4, WindowTimes, MilliType
<1>7. P \in Int
  BY NextPriceType
<1> HIDE DEF M, P
<1>8. T = {t \in Window : Affordable(i, CountBuying(buying, i), t)}
  BY <1>2, <1>3
<1>9. ASSUME NEW t \in T, NEW u \in Window, t <= u PROVE u \in T
  <2>1. t \in Window /\ M(t) >= P
    BY <1>3
  <2>2. M(u) >= P
    BY <1>5, <1>6, <1>7, <1>9, <2>1
  <2> QED BY <1>3, <2>2
<1> QED BY <1>8, <1>9

\* A status enables the buttons whose purchase buyItem accepts.
LEMMA ButtonsRight == Tables => EnabledIfAffordable
<1> SUFFICES ASSUME Tables, NEW t \in Window, NEW i \in Item
             PROVE  Enabled(Status, i, t)
                      <=> Affordable(i, Status.items[i].count_bought, t)
  BY DEF EnabledIfAffordable
<1> DEFINE T == {u \in Window : Simulation[u].milli >= Milli * NextPrice(i)}
           sale == OnSale(Simulation)
<1>1. Status.on_sale = sale /\ Status.items[i].count_bought = CountBuying(buying, i)
  BY DEF Status
<1>2. /\ i \in DOMAIN sale <=> T # {}
      /\ T # {} => sale[i] = IF roomTime \in T THEN 0 ELSE Min(T)
  BY DEF OnSale
<1>3. /\ t \in T <=> Affordable(i, CountBuying(buying, i), t)
      /\ \A u \in T, v \in Window : u <= v => v \in T
  <2> DEFINE U == T
  <2>1. /\ U = {u \in Window : Affordable(i, CountBuying(buying, i), u)}
        /\ \A u \in U, v \in Window : u <= v => v \in U
    BY PayableTimes
  <2> QED BY <2>1
<1>4. t \in Nat /\ roomTime \in Window /\ roomTime <= t /\ T \subseteq Nat
  BY WindowTimes
<1> HIDE DEF T, sale
<1>5. T # {} => Min(T) \in T /\ \A u \in T : Min(T) <= u
  BY <1>4, LeastTime
<1>6. Enabled(Status, i, t) <=> T # {} /\ t >= sale[i]
  BY <1>1, <1>2 DEF Enabled
<1>7. ASSUME t \in T PROVE T # {} /\ t >= sale[i]
  BY <1>2, <1>4, <1>5, <1>7
<1>8. ASSUME T # {}, t >= sale[i] PROVE t \in T
  <2>1. CASE roomTime \in T
    BY <1>3, <1>4, <2>1
  <2>2. CASE roomTime \notin T
    <3>1. Min(T) \in T /\ Min(T) <= t
      BY <1>2, <1>4, <1>5, <1>8, <2>2
    <3> QED BY <1>3, <3>1
  <2> QED BY <2>1, <2>2
<1> QED BY <1>1, <1>3, <1>6, <1>7, <1>8

\* In every room that can come about, a button is enabled exactly when buyItem would
\* accept the purchase at that time: the simulation of calcStatus, millisecond by
\* millisecond, and the closed form of buyItem agree (Game.js:214, 82, game.js:92).
THEOREM ButtonsCorrect == RoomSpec => []EnabledIfAffordable
<1> QED BY TablesCorrect, ButtonsRight, PTL


-----------------------------------------------------------------------------
(* The copies that are drawn *)

\* A set of natural numbers with an upper bound has a greatest member.
LEMMA GreatestTime ==
  ASSUME NEW T, T \subseteq Nat, T # {}, NEW m \in Nat, \A u \in T : u <= m
  PROVE  \E u \in T : \A v \in T : v <= u
<1> DEFINE D == {m - u : u \in T}
<1>1. D \subseteq Nat /\ D # {}
  <2>1. \A u \in T : u \in Nat /\ m - u \in Nat
    OBVIOUS
  <2>2. D # {}
    OBVIOUS
  <2> QED BY <2>1, <2>2
<1>2. PICK d \in D : \A e \in D : d <= e
  <2> HIDE DEF D
  <2> QED BY <1>1, LeastTime
<1>3. PICK u \in T : d = m - u
  OBVIOUS
<1>4. ASSUME NEW v \in T PROVE v <= u
  <2>1. m - v \in D
    OBVIOUS
  <2>2. m - u <= m - v /\ u \in Nat /\ v \in Nat
    BY <1>2, <1>3, <2>1
  <2> QED BY <2>2
<1> QED BY <1>4

\* If no copy of an item starts to produce between k and t, what is built at k is what
\* is built at t.
LEMMA BuiltBetween ==
  ASSUME Tables, NEW i \in Item, NEW k \in Window, NEW t \in Window, k <= t,
         \A b \in buying : b.item = i /\ b.time <= t => b.time <= k,
         NEW B, B = {b \in buying : b.item = i /\ b.time <= t}
  PROVE  /\ Simulation[k].itemBuilt[i] = Cardinality(B)
         /\ Simulation[k].itemPower[i] = PowerOf(B, i)
<1> DEFINE C == By(buying, k)
<1>1. k \in Nat /\ t \in Nat /\ \A b \in buying : b.time \in Nat
  BY WindowTimes, TermType, 0 \in Nat DEF Tables
<1>2. OfItem(C, i) = B /\ OfItem(B, i) = B
  BY <1>1 DEF OfItem, By
<1>3. C \subseteq buying /\ B \subseteq buying
  BY DEF By
<1>4. PowerOf(C, i) = SumFunctionOnSet(PowerRows(buying), OfItem(C, i))
  <2> HIDE DEF C
  <2> QED BY <1>3, PowerOfRows
<1>5. PowerOf(B, i) = SumFunctionOnSet(PowerRows(buying), OfItem(B, i))
  BY <1>3, PowerOfRows
<1>6. CountBuying(C, i) = Cardinality(B)
  BY <1>2 DEF CountBuying, OfItem
<1>7. Right(Simulation[k], k)
  BY SimulationRight
<1>8. /\ Simulation[k].itemBuilt[i] = CountBuying(C, i)
      /\ Simulation[k].itemPower[i] = PowerOf(C, i)
  BY <1>7 DEF Right
<1> QED BY <1>2, <1>4, <1>5, <1>6, <1>8

\* The browser draws the copies that produce by then, with the power of their ordinals.
LEMMA ItemsRight == Tables => ShownItemsExact
<1> SUFFICES ASSUME Tables, NEW t \in Window, NEW i \in Item,
                    NEW B, B = {b \in buying : b.item = i /\ b.time <= t}
             PROVE  ShownItem(Status.items[i], t) =
                      [count_built |-> Cardinality(B), power |-> Big2Exp(PowerOf(B, i))]
  BY DEF ShownItemsExact
<1> DEFINE item == Status.items[i]
           U == {u \in Updates : \E b \in buying : b.item = i /\ b.time = u}
           entry(u) == [time |-> u, count_built |-> Simulation[u].itemBuilt[i],
                        power |-> Big2Exp(Simulation[u].itemPower[i])]
<1>1. /\ item.count_built = Simulation[roomTime].itemBuilt[i]
      /\ item.power = Big2Exp(Simulation[roomTime].itemPower[i])
      /\ item.building = {entry(u) : u \in U}
  BY DEF Status
<1>2. /\ roomTime \in Window /\ t \in Nat /\ roomTime \in Nat /\ roomTime <= t
      /\ \A u \in U : u \in Window /\ u \in Nat /\ roomTime < u
      /\ \A b \in buying : b.time \in Nat
  <2>1. \A u \in Window : u \in Nat
    BY WindowTimes
  <2>2. \A b \in buying : b.time \in Nat
    BY TermType, 0 \in Nat DEF Tables
  <2> QED BY <2>1, <2>2, WindowTimes DEF Updates
<1>3. \A b \in buying : b.item = i /\ b.time <= t /\ roomTime < b.time => b.time \in U
  <2> SUFFICES ASSUME NEW b \in buying, b.item = i, b.time <= t, roomTime < b.time
               PROVE  b.time \in U
    OBVIOUS
  <2>1. b.time \in Window
    BY <1>2, HorizonAssumption DEF Window
  <2> QED BY <1>2, <2>1 DEF Updates
<1>4. \A u : entry(u).time = u
  OBVIOUS
<1> HIDE DEF item, U
<1>5. CASE \E u \in U : u <= t
  <2> DEFINE V == {u \in U : u <= t}
  <2>1. V \subseteq Nat /\ V # {}
    BY <1>2, <1>5
  <2>2. PICK k \in V : \A v \in V : v <= k
    <3>1. \A u \in V : u <= t
      OBVIOUS
    <3> HIDE DEF V
    <3> QED BY <1>2, <2>1, <3>1, GreatestTime
  <2>3. k \in U /\ k <= t /\ k \in Nat /\ k \in Window
    BY <1>2
  <2> DEFINE Last(x) == x.time <= t /\ \A y \in item.building : y.time <= t => y.time <= x.time
  <2>4. entry(k) \in item.building /\ Last(entry(k))
    <3>1. entry(k) \in item.building
      BY <1>1, <2>3
    <3>2. ASSUME NEW y \in item.building, y.time <= t PROVE y.time <= k
      <4>1. PICK v \in U : y = entry(v)
        BY <1>1
      <4>2. y.time = v
        BY <4>1
      <4> QED BY <2>2, <3>2, <4>1, <4>2
    <3> QED BY <2>3, <3>1, <3>2
  <2>5. ASSUME NEW x \in item.building, Last(x) PROVE x = entry(k)
    <3>1. PICK v \in U : x = entry(v)
      BY <1>1
    <3>2. x.time = v /\ entry(k).time = k
      BY <3>1
    <3>3. v <= t /\ k <= v
      BY <2>3, <2>4, <2>5, <3>2
    <3>4. v \in V
      BY <3>1, <3>3
    <3>5. v = k
      BY <1>2, <2>2, <2>3, <3>1, <3>3, <3>4
    <3> QED BY <3>1, <3>5
  <2>6. LastAt(item.building, t) = entry(k)
    BY <2>4, <2>5 DEF LastAt
  <2>7. \E x \in item.building : x.time <= t
    BY <2>4
  <2>8. ShownItem(item, t) =
          [count_built |-> entry(k).count_built, power |-> entry(k).power]
    BY <2>6, <2>7 DEF ShownItem
  <2>9. \A b \in buying : b.item = i /\ b.time <= t => b.time <= k
    <3> SUFFICES ASSUME NEW b \in buying, b.item = i, b.time <= t PROVE b.time <= k
      OBVIOUS
    <3>1. CASE roomTime < b.time
      <4>1. b.time \in V
        BY <1>3, <3>1
      <4> QED BY <2>2, <4>1
    <3>2. CASE ~ (roomTime < b.time)
      BY <1>2, <2>3, <3>2
    <3> QED BY <3>1, <3>2
  <2>10. Simulation[k].itemBuilt[i] = Cardinality(B) /\ Simulation[k].itemPower[i] = PowerOf(B, i)
    <3>1. k \in Window /\ k <= t
      BY <2>3
    <3> HIDE DEF V, entry, Last
    <3> QED BY <2>9, <3>1, BuiltBetween, SMTT(30)
  <2> QED BY <2>8, <2>10 DEF item
<1>6. CASE ~ \E u \in U : u <= t
  <2>1. ~ \E x \in item.building : x.time <= t
    <3> SUFFICES ASSUME NEW x \in item.building, x.time <= t PROVE FALSE
      OBVIOUS
    <3>1. PICK v \in U : x = entry(v)
      BY <1>1
    <3> QED BY <1>4, <1>6, <3>1
  <2>2. ShownItem(item, t) = [count_built |-> item.count_built, power |-> item.power]
    BY <2>1 DEF ShownItem
  <2>3. \A b \in buying : b.item = i /\ b.time <= t => b.time <= roomTime
    BY <1>2, <1>3, <1>6
  <2>4. /\ Simulation[roomTime].itemBuilt[i] = Cardinality(B)
        /\ Simulation[roomTime].itemPower[i] = PowerOf(B, i)
    BY <1>2, <2>3, BuiltBetween
  <2> QED BY <1>1, <2>2, <2>4 DEF item
<1> QED BY <1>5, <1>6

\* The number of copies of an item and the power the browser shows with it are, for
\* every millisecond of the window, those of the copies built by then, up to what
\* big2exp cuts off (game.js:113, Game.js:185, 236).
THEOREM ItemsCorrect == RoomSpec => []ShownItemsExact
<1> QED BY TablesCorrect, ItemsRight, PTL


-----------------------------------------------------------------------------
(* The isu that is shown *)

\* What ^ is: no prover has its definition.
PowersOfRadix ==
    /\ Radix^0 = 1
    /\ \A k \in Nat : Radix^k \in Nat \ {0} /\ Radix^(k + 1) = Radix * Radix^k

\* A power is greater than its exponent.
LEMMA PowerExceeds == ASSUME PowersOfRadix PROVE \A n \in Nat : n < Radix^n
<1> DEFINE p(n) == Radix^n
           Small == {n \in Nat : ~ (n < p(n))}
<1>1. /\ p(0) = 1 /\ Radix \in Nat /\ Radix >= 2
      /\ \A k \in Nat : p(k) \in Nat /\ p(k) >= 1 /\ p(k + 1) = Radix * p(k)
  BY RadixAssumption DEF PowersOfRadix
<1> HIDE DEF p
<1>2. SUFFICES ASSUME Small # {} PROVE FALSE
  BY <1>2 DEF p
<1>3. PICK n \in Small : \A m \in Small : n <= m
  <2>1. Small \subseteq Nat
    OBVIOUS
  <2> HIDE DEF Small
  <2> QED BY <1>2, <2>1, LeastTime
<1>4. n \in Nat /\ n # 0 /\ n - 1 \in Nat /\ p(n) <= n
  BY <1>1
<1>5. n - 1 < p(n - 1)
  BY <1>3, <1>4
<1>6. p(n) = Radix * p(n - 1) /\ p(n - 1) \in Nat
  <2>1. (n - 1) + 1 = n
    BY <1>4
  <2> QED BY <1>1, <1>4, <2>1
<1>7. ASSUME NEW q \in Nat PROVE Radix * q >= q + q
  <2>1. (Radix - 2) * q >= 0 /\ Radix * q = (Radix - 2) * q + (q + q)
    BY <1>1
  <2> QED BY <1>1, <2>1
<1>8. n <= p(n - 1)
  BY <1>1, <1>4, <1>5
<1> QED BY <1>1, <1>4, <1>6, <1>7, <1>8

\* Dividing by q and multiplying again takes off less than q.
LEMMA DivisionBound ==
  ASSUME NEW n \in Nat, NEW q \in Nat \ {0}
  PROVE  /\ n \div q \in Nat /\ (n \div q) * q \in Nat
         /\ 0 <= n - (n \div q) * q /\ n - (n \div q) * q <= q - 1
<1>1. n \div q \in Nat /\ n % q \in 0 .. q - 1 /\ n = q * (n \div q) + (n % q)
  OBVIOUS
<1>2. (n \div q) * q = q * (n \div q)
  BY <1>1
<1> QED BY <1>1, <1>2

\* The leading digits of a number are the number but for the digits cut off.
LEMMA LeadingNear ==
  ASSUME PowersOfRadix, NEW n \in Nat, NEW d \in Nat \ {0}
  PROVE  LET x == Leading(n, d)
         IN  /\ x = [mantissa |-> x.mantissa, exponent |-> x.exponent]
             /\ x.mantissa \in Nat /\ x.exponent \in Nat
             /\ Value(x) \in Nat /\ Slack(x) \in Nat
             /\ 0 <= n - Value(x) /\ n - Value(x) <= Slack(x)
<1> DEFINE p(k) == Radix^k
           Short == {k \in 0 .. n : n \div p(k) < p(d)}
           Fits(k) == n \div p(k) < p(d) /\ (k = 0 \/ n \div p(k - 1) >= p(d))
           e == CHOOSE k \in 0 .. n : Fits(k)
<1>1. /\ p(0) = 1 /\ \A k \in Nat : p(k) \in Nat \ {0} /\ k < p(k)
  BY PowerExceeds DEF PowersOfRadix
<1>2. Leading(n, d) = [mantissa |-> n \div p(e), exponent |-> e]
  BY DEF Leading
<1> HIDE DEF p
<1>3. \A k \in Nat : n \div p(k) \in Nat
  BY <1>1, DivisionBound
<1>4. \E k \in 0 .. n : Fits(k)
  <2>1. n \in Short
    <3>1. n \div p(n) = 0
      <4>1. n < p(n) /\ p(n) \in Nat \ {0}
        BY <1>1
      <4> QED BY <4>1
    <3>2. 0 < p(d)
      BY <1>1
    <3> QED BY <3>1, <3>2
  <2>2. PICK k \in Short : \A j \in Short : k <= j
    <3>1. Short \subseteq Nat
      OBVIOUS
    <3> HIDE DEF Short
    <3> QED BY <2>1, <3>1, LeastTime
  <2>3. k \in 0 .. n /\ n \div p(k) < p(d)
    OBVIOUS
  <2>4. CASE k # 0
    <3>1. k - 1 \in 0 .. n /\ k - 1 \in Nat /\ ~ (k <= k - 1)
      BY <2>3, <2>4
    <3>2. ~ (n \div p(k - 1) < p(d))
      BY <2>2, <3>1
    <3>3. n \div p(k - 1) >= p(d)
      BY <1>1, <1>3, <3>1, <3>2
    <3> QED BY <2>3, <3>3
  <2> QED BY <2>3, <2>4
<1>5. e \in 0 .. n /\ e \in Nat
  <2> HIDE DEF Fits
  <2> QED BY <1>4
<1> HIDE DEF e
<1>6. /\ n \div p(e) \in Nat /\ (n \div p(e)) * p(e) \in Nat
      /\ 0 <= n - (n \div p(e)) * p(e) /\ n - (n \div p(e)) * p(e) <= p(e) - 1
  BY <1>1, <1>5, DivisionBound
<1>7. p(e) - 1 = Slack(Leading(n, d)) /\ p(e) - 1 \in Nat
  <2>1. p(e) - 1 \in Nat
    BY <1>1, <1>5
  <2>2. Slack(Leading(n, d)) = IF e = 0 THEN 0 ELSE p(e) - 1
    BY <1>2 DEF Slack, p
  <2> QED BY <1>1, <2>1, <2>2
<1>8. Value(Leading(n, d)) = (n \div p(e)) * p(e)
  BY <1>2 DEF Value, p
<1> QED BY <1>2, <1>5, <1>6, <1>7, <1>8

\* So is a number that is sent as mantissa and exponent.
LEMMA Big2ExpNear ==
  ASSUME PowersOfRadix, NEW n \in Int
  PROVE  LET x == Big2Exp(n)
         IN  /\ Value(x) \in Int /\ Slack(x) \in Nat
             /\ -Slack(x) <= n - Value(x) /\ n - Value(x) <= Slack(x)
<1>1. CASE n >= 0
  <2>1. Big2Exp(n) = Leading(n, Digits) /\ n \in Nat /\ Digits \in Nat \ {0}
    BY <1>1, RadixAssumption DEF Big2Exp
  <2> QED BY <2>1, LeadingNear
<1>2. CASE n < 0
  <2> DEFINE x == Leading(-n, Digits - 1)
  <2>1. -n \in Nat /\ Digits - 1 \in Nat \ {0}
    BY <1>2, RadixAssumption
  <2>2. /\ x = [mantissa |-> x.mantissa, exponent |-> x.exponent]
        /\ x.mantissa \in Nat /\ x.exponent \in Nat
        /\ Value(x) \in Nat /\ Slack(x) \in Nat
        /\ 0 <= -n - Value(x) /\ -n - Value(x) <= Slack(x)
    BY <2>1, LeadingNear
  <2>3. Big2Exp(n) = [x EXCEPT !.mantissa = -@]
    BY <1>2 DEF Big2Exp
  <2> HIDE DEF x
  <2>4. Big2Exp(n).mantissa = - x.mantissa /\ Big2Exp(n).exponent = x.exponent
    BY <2>2, <2>3
  <2>5. Slack(Big2Exp(n)) = Slack(x)
    BY <2>4 DEF Slack
  <2>6. Value(Big2Exp(n)) = - Value(x)
    <3>1. Radix^(x.exponent) \in Nat
      BY <2>2 DEF PowersOfRadix
    <3>2. (- x.mantissa) * Radix^(x.exponent) = - (x.mantissa * Radix^(x.exponent))
      BY <2>2, <3>1
    <3> QED BY <2>4, <3>2 DEF Value
  <2> QED BY <2>2, <2>5, <2>6
<1> QED BY <1>1, <1>2


\* The money and the power of the simulation.
LEMMA SimulationMoney ==
  ASSUME Tables, NEW t \in Window
  PROVE  /\ Simulation[t].milli = MilliIsu(adding, buying, t)
         /\ Simulation[t].power = PowerOfAll(By(buying, t))
<1>1. ASSUME NEW s, Right(s, t)
      PROVE  s.milli = MilliIsu(adding, buying, t) /\ s.power = PowerOfAll(By(buying, t))
  BY <1>1 DEF Right
<1>2. Right(Simulation[t], t)
  BY SimulationRight
<1> QED BY <1>1, <1>2

\* While nothing arrives and nothing starts to produce, the money grows by the power
\* of the beginning.
LEMMA MoneyBetween ==
  ASSUME Tables, NEW k \in Window, NEW t \in Window, k <= t,
         \A u \in Updates : u <= t => u <= k
  PROVE  /\ Simulation[k].milli \in Int /\ Simulation[k].power \in Int
         /\ Simulation[t].milli = Simulation[k].milli + Simulation[k].power * (t - k)
<1> DEFINE m(u) == Simulation[u].milli
           P == Simulation[k].power
           Off == {u \in Window : k <= u /\ u <= t /\ m(u) # m(k) + P * (u - k)}
<1>1. /\ k \in Nat /\ t \in Nat /\ roomTime \in Nat /\ roomTime <= k
      /\ \A u \in Window : u \in Nat /\ roomTime <= u
      /\ \A b \in buying : b.time \in Nat
  BY WindowTimes, TermType, 0 \in Nat DEF Tables, RoomTypeOK
<1>2. m(k) \in Int /\ P \in Int
  <2>1. m(k) = MilliIsu(adding, buying, k) /\ P = PowerOfAll(By(buying, k))
    BY SimulationMoney
  <2>2. MilliIsu(adding, buying, k) \in Int
    BY <1>1, MilliType DEF Tables, NumberingInv, RoomTypeOK
  <2>3. PowerOfAll(By(buying, k)) \in Int
    <3>1. k + 1 \in Nat /\ k + 1 # 0 /\ (k + 1) - 1 = k
      BY <1>1
    <3> QED BY <3>1, GainStep
  <2> QED BY <2>1, <2>2, <2>3
<1>3. SUFFICES ASSUME Off # {} PROVE FALSE
  <2>1. t \in Window /\ k <= t /\ t <= t
    BY <1>1
  <2> HIDE DEF m, P
  <2> QED BY <1>2, <1>3, <2>1 DEF m, P
<1>4. PICK u \in Off : \A v \in Off : u <= v
  <2>1. Off \subseteq Nat
    BY <1>1
  <2> HIDE DEF Off
  <2> QED BY <1>3, <2>1, LeastTime
<1>5. u \in Window /\ k <= u /\ u <= t /\ m(u) # m(k) + P * (u - k) /\ u \in Nat
  BY <1>1
<1>6. u # k
  <2> HIDE DEF m, P
  <2>1. P * (k - k) = 0
    BY <1>1, <1>2
  <2> QED BY <1>2, <1>5, <2>1
<1>7. /\ u # roomTime /\ u - 1 \in Window /\ k <= u - 1 /\ u - 1 <= t /\ u - 1 \in Nat
      /\ ~ (u <= u - 1)
  BY <1>1, <1>5, <1>6, WindowTimes
<1>8. m(u - 1) = m(k) + P * ((u - 1) - k)
  <2>1. u - 1 \notin Off
    <3> HIDE DEF Off
    <3> QED BY <1>4, <1>7
  <2> QED BY <1>7, <2>1
<1>9. AddingAt(u) = 0 /\ \A b \in buying : b.time # u
  <2>1. u \notin Updates
    BY <1>1, <1>5, <1>6
  <2> QED BY <1>1, <1>5, <1>7, <2>1 DEF Updates
<1>10. Simulation[u - 1].power = P
  <2>1. By(buying, u - 1) = By(buying, k)
    <3> SUFFICES ASSUME NEW b \in buying, b.time <= u - 1 PROVE b.time <= k
      BY <1>1, <1>7 DEF By
    <3>1. CASE roomTime < b.time
      <4>1. b.time \in Window
        BY <1>1, <1>5, <3>1, HorizonAssumption DEF Window
      <4>2. b.time \in Updates /\ b.time <= t
        BY <1>1, <1>5, <3>1, <4>1 DEF Updates
      <4> QED BY <4>2
    <3>2. CASE ~ (roomTime < b.time)
      BY <1>1, <3>2
    <3> QED BY <3>1, <3>2
  <2>2. /\ Simulation[u - 1].power = PowerOfAll(By(buying, u - 1))
        /\ Simulation[k].power = PowerOfAll(By(buying, k))
    BY <1>7, SimulationMoney
  <2> QED BY <2>1, <2>2
<1>11. m(u) = m(u - 1) + P + Milli * 0
  <2>1. Simulation[u] = Advance(Simulation[u - 1], u)
    BY <1>5, <1>7, SimulationSteps
  <2>2. Simulation[u].milli = Simulation[u - 1].milli + Simulation[u - 1].power + Milli * AddingAt(u)
    BY <2>1 DEF Advance
  <2> HIDE DEF P
  <2> QED BY <1>9, <1>10, <2>2
<1> HIDE DEF m, P
<1>12. P * ((u - 1) - k) + P = P * (u - k)
  BY <1>1, <1>2, <1>5
<1>13. P * ((u - 1) - k) \in Int /\ Milli * 0 = 0
  BY <1>1, <1>2, <1>5, MilliAssumption
<1> QED BY <1>2, <1>5, <1>8, <1>11, <1>12, <1>13

\* The entry in force is the last of those that are not later than t.
LEMMA LastEntry ==
  ASSUME NEW S, NEW t, NEW e \in S, e.time <= t,
         \A y \in S : y.time <= t => y.time <= e.time /\ (e.time <= y.time => y = e)
  PROVE  LastAt(S, t) = e
<1> DEFINE Last(x) == x.time <= t /\ \A y \in S : y.time <= t => y.time <= x.time
<1>1. LastAt(S, t) = CHOOSE x \in S : Last(x)
  BY DEF LastAt
<1>2. Last(e) /\ \A x \in S : Last(x) => x = e
  OBVIOUS
<1> HIDE DEF Last
<1> QED BY <1>1, <1>2

\* Two truncated numbers, one of them taken d times, are off by what was cut off.
LEMMA Product ==
  ASSUME NEW a \in Int, NEW c \in Nat, NEW d \in Nat, -c <= a, a <= c
  PROVE  a * d \in Int /\ c * d \in Nat /\ -(c * d) <= a * d /\ a * d <= c * d
<1>1. (c - a) * d >= 0 /\ (c + a) * d >= 0
  OBVIOUS
<1>2. (c - a) * d = c * d - a * d /\ (c + a) * d = c * d + a * d
  OBVIOUS
<1>3. a * d \in Int /\ c * d \in Nat
  OBVIOUS
<1> QED BY <1>1, <1>2, <1>3

\* The isu that are shown are those of the room, up to what was cut off.
LEMMA IsuRight == ASSUME PowersOfRadix PROVE Tables => ShownIsuExact
<1> SUFFICES ASSUME Tables, NEW t \in Window
             PROVE  LET d == MilliIsu(adding, buying, t) - ShownIsu(Status, t)
                    IN  -ShownSlack(Status, t) <= d /\ d <= ShownSlack(Status, t)
  BY DEF ShownIsuExact
<1> DEFINE U == {roomTime} \cup Updates
           entry == [u \in U |-> [time |-> u, milli_isu |-> Big2Exp(Simulation[u].milli),
                                  total_power |-> Big2Exp(Simulation[u].power)]]
           V == {u \in U : u <= t}
<1>1. Status.schedule = {entry[u] : u \in U}
  BY DEF Status
<1>2. /\ roomTime \in U /\ roomTime <= t /\ t \in Nat /\ U \subseteq Window
      /\ \A u \in Window : u \in Nat
  BY WindowTimes DEF Updates
<1>3. PICK k \in V : \A u \in V : u <= k
  <2>1. V \subseteq Nat /\ V # {} /\ \A u \in V : u <= t
    BY <1>2
  <2> HIDE DEF V
  <2> QED BY <1>2, <2>1, GreatestTime
<1>4. /\ k \in U /\ k \in Window /\ k \in Nat /\ k <= t /\ t - k \in Nat
      /\ \A u \in U : u <= t => u <= k
  <2> HIDE DEF U
  <2>1. k \in U /\ k <= t /\ \A u \in U : u <= t => u <= k
    BY <1>3
  <2> QED BY <1>2, <2>1
<1>5. LastAt(Status.schedule, t) = entry[k]
  <2>1. U \subseteq Int /\ t \in Int
    <3> HIDE DEF U
    <3> QED BY <1>2
  <2>2. \A u \in U : entry[u].time = u
    OBVIOUS
  <2>3. k \in U /\ k <= t /\ \A u \in U : u <= t => u <= k
    BY <1>4
  <2> HIDE DEF U, entry, V
  <2>4. entry[k] \in Status.schedule /\ entry[k].time <= t
    BY <1>1, <2>2, <2>3
  <2>5. ASSUME NEW y \in Status.schedule, y.time <= t
        PROVE  y.time <= entry[k].time /\ (entry[k].time <= y.time => y = entry[k])
    <3>1. PICK u \in U : y = entry[u]
      BY <1>1
    <3>2. y.time = u /\ entry[k].time = k
      BY <2>2, <2>3, <3>1
    <3>3. u <= k /\ (k <= u => u = k)
      BY <2>1, <2>3, <2>5, <3>1, <3>2
    <3> QED BY <3>1, <3>2, <3>3
  <2> QED BY <2>4, <2>5, LastEntry
<1> DEFINE M == Simulation[k].milli
           P == Simulation[k].power
           d == t - k
           x == Big2Exp(M)
           y == Big2Exp(P)
<1>6. M \in Int /\ P \in Int /\ Simulation[t].milli = M + P * d
  <2>1. \A u \in Updates : u <= t => u <= k
    BY <1>4
  <2> QED BY <1>4, <2>1, MoneyBetween
<1>7. MilliIsu(adding, buying, t) = M + P * d
  <2>1. Simulation[t].milli = MilliIsu(adding, buying, t)
    BY SimulationMoney
  <2> QED BY <1>6, <2>1
<1>8. /\ ShownIsu(Status, t) = Value(x) + Value(y) * d
      /\ ShownSlack(Status, t) = Slack(x) + Slack(y) * d
  <2>1. entry[k].milli_isu = x /\ entry[k].total_power = y /\ entry[k].time = k
    BY <1>4
  <2> HIDE DEF entry, x, y
  <2> QED BY <1>5, <2>1 DEF ShownIsu, ShownSlack
<1> HIDE DEF M, P, d, x, y
<1>9. /\ Value(x) \in Int /\ Slack(x) \in Nat
      /\ -Slack(x) <= M - Value(x) /\ M - Value(x) <= Slack(x)
  BY <1>6, Big2ExpNear DEF x
<1>10. /\ Value(y) \in Int /\ Slack(y) \in Nat
       /\ -Slack(y) <= P - Value(y) /\ P - Value(y) <= Slack(y)
  BY <1>6, Big2ExpNear DEF y
<1>11. d \in Nat
  BY <1>4 DEF d
<1>12. /\ (P - Value(y)) * d \in Int /\ Slack(y) * d \in Nat
       /\ -(Slack(y) * d) <= (P - Value(y)) * d /\ (P - Value(y)) * d <= Slack(y) * d
  <2>1. P - Value(y) \in Int
    BY <1>6, <1>10
  <2> QED BY <1>10, <1>11, <2>1, Product
<1>13. (P - Value(y)) * d = P * d - Value(y) * d /\ P * d \in Int /\ Value(y) * d \in Int
  BY <1>6, <1>10, <1>11
<1> QED BY <1>6, <1>7, <1>8, <1>9, <1>12, <1>13

\* In every room that can come about, and for every millisecond of the window, the
\* browser shows the isu buyItem would count and the copies built by then, up to the
\* digits big2exp cuts off (game.js:69, 113, Game.js:185, 214, Exponential.js).
THEOREM ShownCorrect == ASSUME PowersOfRadix PROVE RoomSpec => []ShownExact
<1>1. Tables => ShownExact
  BY IsuRight, ItemsRight DEF ShownExact
<1> QED BY <1>1, TablesCorrect, PTL

-----------------------------------------------------------------------------
(* The validator of the benchmarker *)

\* The entries of a schedule are times of the window.
LEMMA EntriesOfWindow ==
  ASSUME Tables
  PROVE  /\ Entries \subseteq Window /\ IsFiniteSet(Entries) /\ roomTime \in Entries
         /\ roomTime \in Window /\ roomTime \in Nat
         /\ \A t \in Window : t \in Nat /\ roomTime <= t /\ t <= roomTime + Horizon
<1>1. roomTime \in Nat /\ roomTime \in Window
  BY WindowTimes DEF Tables, RoomTypeOK
<1>2. IsFiniteSet(Window)
  BY <1>1, HorizonAssumption, FS_Interval DEF Window
<1>3. Entries \subseteq Window
  BY <1>1 DEF Entries, Updates
<1>4. IsFiniteSet(Entries)
  BY <1>2, <1>3, FS_Subset
<1>5. \A t \in Window : t \in Nat /\ roomTime <= t /\ t <= roomTime + Horizon
  BY <1>1, WindowTimes DEF Window
<1> QED BY <1>1, <1>3, <1>4, <1>5 DEF Entries

\* The place of a time in the schedule grows with it, and grows at every entry.
LEMMA PlaceGrows ==
  ASSUME Tables
  PROVE  /\ Cardinality(Entries) \in Nat
         /\ \A t \in Window : Place(t) \in 1 .. Cardinality(Entries)
         /\ \A t \in Window, u \in Window : t <= u => Place(t) <= Place(u)
         /\ \A t \in Window, u \in Entries : t < u => Place(t) < Place(u)
         /\ Place(roomTime) = 1
<1> DEFINE E(t) == {u \in Entries : u <= t}
<1>1. /\ Entries \subseteq Window /\ IsFiniteSet(Entries) /\ roomTime \in Entries
      /\ \A t \in Window : t \in Nat /\ roomTime <= t
  BY EntriesOfWindow
<1>2. \A t : E(t) \subseteq Entries /\ IsFiniteSet(E(t)) /\ Cardinality(E(t)) \in Nat
             /\ Cardinality(E(t)) <= Cardinality(Entries)
  BY <1>1, FS_Subset, FS_CardinalityType
<1>3. Cardinality(Entries) \in Nat
  BY <1>1, FS_CardinalityType
<1>4. ASSUME NEW t \in Window PROVE Place(t) \in 1 .. Cardinality(Entries)
  <2>1. roomTime \in E(t)
    BY <1>1
  <2>2. Cardinality(E(t)) # 0
    <3> HIDE DEF E
    <3> QED BY <1>2, <2>1, FS_EmptySet
  <2>3. Place(t) = Cardinality(E(t))
    BY DEF Place
  <2> HIDE DEF E
  <2> QED BY <1>2, <1>3, <2>2, <2>3
<1>5. ASSUME NEW t \in Window, NEW u \in Window, t <= u PROVE Place(t) <= Place(u)
  <2>1. E(t) \subseteq E(u)
    BY <1>1, <1>5
  <2>2. Place(t) = Cardinality(E(t)) /\ Place(u) = Cardinality(E(u))
    BY DEF Place
  <2> HIDE DEF E
  <2> QED BY <1>2, <2>1, <2>2, FS_Subset
<1>6. ASSUME NEW t \in Window, NEW u \in Entries, t < u PROVE Place(t) < Place(u)
  <2>1. E(t) \subseteq E(u) /\ u \in E(u) /\ u \notin E(t)
    BY <1>1, <1>6
  <2>2. Place(t) = Cardinality(E(t)) /\ Place(u) = Cardinality(E(u))
    BY DEF Place
  <2> HIDE DEF E
  <2>3. E(u) # E(t)
    BY <2>1
  <2>4. Cardinality(E(t)) <= Cardinality(E(u)) /\ Cardinality(E(t)) # Cardinality(E(u))
    BY <1>2, <2>1, <2>3, FS_Subset
  <2>5. Cardinality(E(t)) \in Nat /\ Cardinality(E(u)) \in Nat
    BY <1>2
  <2> QED BY <2>2, <2>4, <2>5
<1>7. Place(roomTime) = 1
  <2>1. E(roomTime) = {roomTime}
    BY <1>1
  <2>2. Place(roomTime) = Cardinality(E(roomTime))
    BY DEF Place
  <2> HIDE DEF E
  <2> QED BY <2>1, <2>2, FS_Singleton
<1> QED BY <1>3, <1>4, <1>5, <1>6, <1>7

\* So the times of the schedule are its entries in their order.
LEMMA TimesInOrder ==
  ASSUME Tables
  PROVE  /\ Cardinality(Entries) \in Nat \ {0}
         /\ Len(Times) = Cardinality(Entries) /\ DOMAIN Times = 1 .. Cardinality(Entries)
         /\ \A k \in 1 .. Cardinality(Entries) : Times[k] \in Entries /\ Place(Times[k]) = k
         /\ Times[1] = roomTime
<1> DEFINE n == Cardinality(Entries)
           f == [u \in Entries |-> Place(u)]
<1>1. /\ Entries \subseteq Window /\ IsFiniteSet(Entries) /\ roomTime \in Entries
      /\ \A t \in Window : t \in Nat /\ roomTime <= t
  BY EntriesOfWindow
<1>2. /\ n \in Nat /\ Place(roomTime) = 1
      /\ \A u \in Entries : Place(u) \in 1 .. n
      /\ \A t \in Entries, u \in Entries : t < u => Place(t) < Place(u)
  <2> HIDE DEF n
  <2> QED BY <1>1, PlaceGrows DEF n
<1>3. n \in Nat \ {0}
  <2> HIDE DEF n
  <2> QED BY <1>1, <1>2
<1>4. ASSUME NEW t \in Entries, NEW u \in Entries, Place(t) = Place(u) PROVE t = u
  <2> HIDE DEF n
  <2>1. ~ (t < u) /\ ~ (u < t)
    BY <1>2, <1>4
  <2>2. t \in Nat /\ u \in Nat
    BY <1>1
  <2> QED BY <2>1, <2>2
<1>5. f \in Injection(Entries, 1 .. n)
  <2> HIDE DEF n
  <2> QED BY <1>2, <1>4 DEF Injection, IsInjective
<1>6. f \in Surjection(Entries, 1 .. n)
  <2>1. IsFiniteSet(1 .. n) /\ Cardinality(1 .. n) = n
    <3> HIDE DEF n
    <3> QED BY <1>3, FS_Interval
  <2> HIDE DEF f
  <2> QED BY <1>5, <2>1, FS_Injection
<1>7. \A k \in 1 .. n : \E u \in Entries : Place(u) = k
  <2> HIDE DEF n
  <2> QED BY <1>6 DEF Surjection
<1>8. Times = [k \in 1 .. n |-> CHOOSE t \in Entries : Place(t) = k]
  BY DEF Times
<1> HIDE DEF n
<1>9. ASSUME NEW k \in 1 .. n PROVE Times[k] \in Entries /\ Place(Times[k]) = k
  BY <1>7, <1>8
<1>10. DOMAIN Times = 1 .. n /\ Len(Times) = n
  <2>1. Times \in Seq(Entries)
    BY <1>3, <1>8, <1>9
  <2>2. DOMAIN Times = 1 .. n
    BY <1>8
  <2> QED BY <1>3, <2>1, <2>2
<1>11. Times[1] = roomTime
  <2>1. Times[1] \in Entries /\ Place(Times[1]) = 1
    BY <1>3, <1>9
  <2> QED BY <1>1, <1>2, <1>4, <2>1
<1> QED BY <1>3, <1>9, <1>10, <1>11 DEF n

\* A time of the window lies in the segment of its place, and in no other.
LEMMA SegmentOf ==
  ASSUME Tables, NEW t \in Window
  PROVE  /\ Place(t) \in 1 .. Cardinality(Entries)
         /\ Times[Place(t)] \in Window /\ Times[Place(t)] <= t
         /\ Place(t) < Cardinality(Entries) => t < Times[Place(t) + 1]
         /\ \A u \in Updates : u <= t => u <= Times[Place(t)]
         /\ \A k \in 1 .. Cardinality(Entries) :
               /\ Times[k] <= t => k <= Place(t)
               /\ k < Cardinality(Entries) /\ t < Times[k + 1] => Place(t) <= k
<1> DEFINE n == Cardinality(Entries)
           j == Place(t)
<1>1. /\ Entries \subseteq Window /\ Updates \subseteq Entries
      /\ \A u \in Window : u \in Nat
  BY EntriesOfWindow DEF Entries
<1>2. /\ n \in Nat \ {0}
      /\ \A k \in 1 .. n : Times[k] \in Entries /\ Place(Times[k]) = k
  <2> HIDE DEF n
  <2> QED BY TimesInOrder DEF n
<1>3. /\ j \in 1 .. n
      /\ \A u \in Window : u <= t => Place(u) <= j
      /\ \A u \in Entries : t < u => j < Place(u)
      /\ \A s \in Window, u \in Entries : s < u => Place(s) < Place(u)
  <2> HIDE DEF n
  <2> QED BY PlaceGrows DEF n
<1> HIDE DEF n, j
<1>4. \A k \in 1 .. n : Times[k] \in Window /\ Times[k] \in Nat /\ Place(Times[k]) = k
  BY <1>1, <1>2
<1>5. t \in Nat
  BY <1>1
<1>6. ASSUME NEW k \in 1 .. n
      PROVE  (Times[k] <= t => k <= j) /\ (t < Times[k] => j < k)
  BY <1>2, <1>3, <1>4
<1>7. Times[j] <= t
  BY <1>3, <1>4, <1>5, <1>6
<1>8. j < n => t < Times[j + 1]
  <2> SUFFICES ASSUME j < n PROVE t < Times[j + 1]
    OBVIOUS
  <2>1. j + 1 \in 1 .. n /\ ~ (j + 1 <= j)
    BY <1>2, <1>3
  <2> QED BY <1>4, <1>5, <1>6, <2>1
<1>9. ASSUME NEW u \in Updates, u <= t PROVE u <= Times[j]
  <2>1. u \in Entries /\ u \in Window /\ u \in Nat
    BY <1>1
  <2>2. Place(u) <= j /\ Place(u) \in 1 .. n
    BY <1>3, <1>9, <2>1, PlaceGrows DEF n
  <2>3. ~ (Times[j] < u)
    <3>1. Times[j] < u => j < Place(u)
      BY <1>3, <1>4, <2>1
    <3> QED BY <1>3, <2>2, <3>1
  <2> QED BY <1>3, <1>4, <2>1, <2>3
<1>10. ASSUME NEW k \in 1 .. n, k < n, t < Times[k + 1] PROVE j <= k
  <2>1. k + 1 \in 1 .. n
    BY <1>2, <1>10
  <2>2. j < k + 1
    BY <1>6, <1>10, <2>1
  <2> QED BY <1>3, <2>2
<1> QED BY <1>3, <1>4, <1>6, <1>7, <1>8, <1>9, <1>10 DEF n, j

\* The division rounds up to the first millisecond that is enough.
LEMMA RoundUpLeast ==
  ASSUME NEW a \in Nat \ {0}, NEW b \in Nat \ {0}
  PROVE  /\ RoundUp(a, b) \in Nat
         /\ \A d \in Nat : b * d >= a <=> RoundUp(a, b) <= d
<1> DEFINE n == (a + b) - 1
           q == RoundUp(a, b)
<1>1. n \in Nat
  OBVIOUS
<1>2. q \in Nat /\ q * b \in Nat /\ 0 <= n - q * b /\ n - q * b <= b - 1
  <2>1. q = n \div b
    BY DEF RoundUp
  <2> HIDE DEF n, q
  <2> QED BY <1>1, <2>1, DivisionBound
<1>3. ASSUME NEW d \in Nat, q <= d PROVE b * d >= a
  <2>1. d - q \in Nat /\ b * (d - q) >= 0
    BY <1>2, <1>3
  <2>2. b * (d - q) = b * d - q * b /\ b * d \in Nat
    BY <1>2
  <2> HIDE DEF q
  <2> QED BY <1>2, <2>1, <2>2
<1>4. ASSUME NEW d \in Nat, ~ (q <= d) PROVE ~ (b * d >= a)
  <2>1. (q - 1) - d \in Nat /\ b * ((q - 1) - d) >= 0
    BY <1>2, <1>4
  <2>2. b * ((q - 1) - d) = (q * b - b) - b * d /\ b * d \in Nat
    BY <1>2
  <2> HIDE DEF q
  <2> QED BY <1>2, <2>1, <2>2
<1> QED BY <1>2, <1>3, <1>4

\* Within a segment a price the money does not yet reach is reached that many
\* milliseconds after its beginning, if at all.
LEMMA ReachedBy ==
  ASSUME Tables, NEW t \in Window, NEW k \in Window, NEW pr \in Int, k <= t,
         \A u \in Updates : u <= t => u <= k,
         Simulation[k].milli < pr
  PROVE  /\ Simulation[k].milli \in Int /\ Simulation[k].power \in Int
         /\ Simulation[k].power > 0 => RoundUp(pr - Simulation[k].milli, Simulation[k].power) \in Nat
         /\ Simulation[t].milli >= pr
              <=> /\ Simulation[k].power > 0
                  /\ k + RoundUp(pr - Simulation[k].milli, Simulation[k].power) <= t
<1> DEFINE x == Simulation[k].milli
           v == Simulation[k].power
           m == Simulation[t].milli
           q == RoundUp(pr - x, v)
<1>1. x \in Int /\ v \in Int /\ m = x + v * (t - k)
  BY MoneyBetween
<1>2. t \in Nat /\ k \in Nat /\ t - k \in Nat
  BY EntriesOfWindow
<1>3. x < pr
  OBVIOUS
<1> HIDE DEF x, v, m
<1>4. pr - x \in Nat \ {0}
  BY <1>1, <1>3
<1>5. CASE v > 0
  <2>1. v \in Nat \ {0}
    BY <1>1, <1>5
  <2>2. q \in Nat /\ (v * (t - k) >= pr - x <=> q <= t - k)
    <3> HIDE DEF q
    <3> QED BY <1>2, <1>4, <2>1, RoundUpLeast DEF q
  <2>3. v * (t - k) \in Nat
    BY <1>2, <2>1
  <2> HIDE DEF q
  <2>4. v * (t - k) >= pr - x <=> m >= pr
    BY <1>1, <2>3
  <2>5. q <= t - k <=> k + q <= t
    BY <1>2, <2>2
  <2> QED BY <1>1, <1>5, <2>2, <2>4, <2>5 DEF q, x, v, m
<1>6. CASE ~ (v > 0)
  <2>1. -v \in Nat
    BY <1>1, <1>6
  <2>2. (-v) * (t - k) >= 0 /\ v * (t - k) \in Int
    BY <1>1, <1>2, <2>1
  <2>3. (-v) * (t - k) = -(v * (t - k))
    BY <1>1, <1>2
  <2>4. v * (t - k) <= 0
    BY <2>2, <2>3
  <2>5. ~ (m >= pr)
    BY <1>1, <1>3, <2>2, <2>4
  <2> QED BY <1>1, <1>6, <2>5 DEF x, v, m
<1> QED BY <1>5, <1>6

\* What calcOnSale finds in segment k of the simulation, for the price pr.
MoneyAt(k) == Simulation[Times[k]].milli
PowerAt(k) == Simulation[Times[k]].power
ReachAt(pr, k) == Times[k] + RoundUp(pr - MoneyAt(k), PowerAt(k))
SaleAt(pr, k) ==
    IF pr <= MoneyAt(k) THEN Times[k]
    ELSE IF PowerAt(k) > 0 /\ (k < Cardinality(Entries) => ReachAt(pr, k) < Times[k + 1])
         THEN ReachAt(pr, k)
         ELSE NotOnSale

\* Its answer is that of the last segment, if only there the price may be reached, and
\* that of the first segment with one else.
LEMMA CalcOnSaleIs ==
  ASSUME Tables, NEW pr \in Int, NEW xs, NEW vs,
         xs = [k \in DOMAIN Times |-> Simulation[Times[k]].milli],
         vs = [k \in DOMAIN Times |-> Simulation[Times[k]].power]
  PROVE  LET n == Cardinality(Entries)
             First(k) == /\ SaleAt(pr, k) # NotOnSale
                         /\ \A j \in 1 .. k - 1 : SaleAt(pr, j) = NotOnSale
             sale == CalcOnSale(pr, Times, xs, vs)
         IN  /\ pr > MoneyAt(n) =>
                  sale = IF PowerAt(n) > 0 /\ ReachAt(pr, n) <= roomTime + Horizon
                         THEN ReachAt(pr, n) ELSE NotOnSale
             /\ ~ (pr > MoneyAt(n)) /\ (\E k \in 1 .. n : First(k)) =>
                  \E k \in 1 .. n : First(k) /\ sale = SaleAt(pr, k)
<1> DEFINE n == Cardinality(Entries)
           Reach(k) == Times[k] + RoundUp(pr - xs[k], vs[k])
           At(k) == IF pr <= xs[k] THEN Times[k]
                    ELSE IF vs[k] > 0 /\ (k < n => Reach(k) < Times[k + 1]) THEN Reach(k)
                    ELSE NotOnSale
           First(k) == /\ SaleAt(pr, k) # NotOnSale
                       /\ \A j \in 1 .. k - 1 : SaleAt(pr, j) = NotOnSale
           Found(k) == /\ At(k) # NotOnSale
                       /\ \A j \in 1 .. k - 1 : At(j) = NotOnSale
           sale == CalcOnSale(pr, Times, xs, vs)
<1>1. n \in Nat \ {0} /\ Len(Times) = n /\ DOMAIN Times = 1 .. n /\ Times[1] = roomTime
  BY TimesInOrder
<1>2. sale = IF pr > xs[n]
             THEN IF vs[n] > 0 /\ Reach(n) <= Times[1] + Horizon THEN Reach(n) ELSE NotOnSale
             ELSE At(CHOOSE k \in 1 .. n : Found(k))
  BY <1>1 DEF CalcOnSale
<1>3. \A k \in 1 .. n : xs[k] = MoneyAt(k) /\ vs[k] = PowerAt(k)
  <2> HIDE DEF n
  <2> QED BY <1>1 DEF MoneyAt, PowerAt
<1>4. \A k \in 1 .. n : At(k) = SaleAt(pr, k) /\ Reach(k) = ReachAt(pr, k)
  BY <1>3 DEF SaleAt, ReachAt
<1>5. \A k \in 1 .. n : Found(k) <=> First(k)
  <2> SUFFICES ASSUME NEW k \in 1 .. n PROVE Found(k) <=> First(k)
    OBVIOUS
  <2> HIDE DEF n, At
  <2>1. \A j \in 1 .. k - 1 : j \in 1 .. n
    BY <1>1
  <2> QED BY <1>4, <2>1
<1>6. n \in 1 .. n
  <2> HIDE DEF n
  <2> QED BY <1>1
<1> HIDE DEF n, At, Reach, sale, Found, First
<1>7. pr > MoneyAt(n) => sale = IF PowerAt(n) > 0 /\ ReachAt(pr, n) <= roomTime + Horizon
                                THEN ReachAt(pr, n) ELSE NotOnSale
  BY <1>1, <1>2, <1>3, <1>4, <1>6
<1>8. ASSUME ~ (pr > MoneyAt(n)), \E k \in 1 .. n : First(k)
      PROVE  \E k \in 1 .. n : First(k) /\ sale = SaleAt(pr, k)
  <2> DEFINE c == CHOOSE k \in 1 .. n : Found(k)
  <2>1. c \in 1 .. n /\ Found(c)
    BY <1>5, <1>8
  <2>2. sale = At(c)
    BY <1>2, <1>3, <1>6, <1>8
  <2> HIDE DEF c
  <2> QED BY <1>4, <1>5, <2>1, <2>2
<1> QED BY <1>7, <1>8 DEF n, First, sale

\* In segment k a price it does not begin with is reached from ReachAt on.
LEMMA ReachedInSegment ==
  ASSUME Tables, NEW t \in Window, NEW pr \in Int, NEW k \in 1 .. Cardinality(Entries),
         Times[k] <= t, k < Cardinality(Entries) => t < Times[k + 1]
  PROVE  /\ Place(t) = k /\ Times[k] \in Window /\ MoneyAt(k) \in Int
         /\ MoneyAt(k) < pr =>
               /\ PowerAt(k) > 0 => ReachAt(pr, k) \in Nat /\ Times[k] <= ReachAt(pr, k)
               /\ Simulation[t].milli >= pr <=> PowerAt(k) > 0 /\ ReachAt(pr, k) <= t
<1> DEFINE n == Cardinality(Entries)
<1>1. /\ n \in Nat
      /\ Place(t) \in 1 .. n
      /\ Times[k] <= t => k <= Place(t)
      /\ k < n /\ t < Times[k + 1] => Place(t) <= k
  BY SegmentOf, TimesInOrder
<1>2. Place(t) = k
  <2> HIDE DEF n
  <2>1. k \in 1 .. n /\ k <= Place(t) /\ (k < n => Place(t) <= k)
    BY <1>1 DEF n
  <2> QED BY <1>1, <2>1
<1>3. /\ Times[k] \in Window /\ Times[k] <= t
      /\ \A u \in Updates : u <= t => u <= Times[k]
  BY <1>2, SegmentOf
<1>4. MoneyAt(k) \in Int
  BY <1>3, MoneyBetween DEF MoneyAt
<1>5. ASSUME MoneyAt(k) < pr
      PROVE  /\ PowerAt(k) > 0 => ReachAt(pr, k) \in Nat /\ Times[k] <= ReachAt(pr, k)
             /\ Simulation[t].milli >= pr <=> PowerAt(k) > 0 /\ ReachAt(pr, k) <= t
  <2> DEFINE q == RoundUp(pr - MoneyAt(k), PowerAt(k))
  <2>1. /\ PowerAt(k) > 0 => q \in Nat
        /\ Simulation[t].milli >= pr <=> PowerAt(k) > 0 /\ Times[k] + q <= t
    BY <1>3, <1>5, ReachedBy DEF MoneyAt, PowerAt
  <2>2. ReachAt(pr, k) = Times[k] + q /\ Times[k] \in Nat
    BY <1>3, EntriesOfWindow DEF ReachAt
  <2> HIDE DEF q
  <2>3. q \in Nat => Times[k] + q \in Nat /\ Times[k] <= Times[k] + q
    BY <2>2
  <2> QED BY <2>1, <2>2, <2>3
<1> QED BY <1>2, <1>3, <1>4, <1>5

\* A lower bound of a set in the set is its minimum.
LEMMA MinIs ==
  ASSUME NEW T, T \subseteq Nat, NEW r \in T, \A t \in T : r <= t
  PROVE  Min(T) = r
<1>1. Min(T) \in T /\ \A t \in T : Min(T) <= t
  BY LeastTime
<1>2. Min(T) <= r /\ r <= Min(T) /\ r \in Nat /\ Min(T) \in Nat
  BY <1>1
<1> QED BY <1>2

\* calcOnSale finds the first millisecond of the window that has the money.
LEMMA SaleIsFirst ==
  ASSUME Tables, NEW pr \in Int, NEW T, T = {t \in Window : Simulation[t].milli >= pr},
         \A t \in T, u \in Window : t <= u => u \in T,
         Simulation[roomTime].milli < pr,
         NEW xs, NEW vs,
         xs = [k \in DOMAIN Times |-> Simulation[Times[k]].milli],
         vs = [k \in DOMAIN Times |-> Simulation[Times[k]].power]
  PROVE  CalcOnSale(pr, Times, xs, vs) = IF T = {} THEN NotOnSale ELSE Min(T)
<1> DEFINE n == Cardinality(Entries)
           First(k) == /\ SaleAt(pr, k) # NotOnSale
                       /\ \A j \in 1 .. k - 1 : SaleAt(pr, j) = NotOnSale
           sale == CalcOnSale(pr, Times, xs, vs)
<1>1. /\ pr > MoneyAt(n) =>
           sale = IF PowerAt(n) > 0 /\ ReachAt(pr, n) <= roomTime + Horizon
                  THEN ReachAt(pr, n) ELSE NotOnSale
      /\ ~ (pr > MoneyAt(n)) /\ (\E k \in 1 .. n : First(k)) =>
           \E k \in 1 .. n : First(k) /\ sale = SaleAt(pr, k)
  BY CalcOnSaleIs
<1>2. /\ n \in Nat \ {0} /\ n \in 1 .. n
      /\ \A k \in 1 .. n : Times[k] \in Entries
  <2>1. n \in Nat \ {0} /\ \A k \in 1 .. n : Times[k] \in Entries
    BY TimesInOrder
  <2> HIDE DEF n
  <2> QED BY <2>1
<1>3. /\ \A k \in 1 .. n : Times[k] \in Window /\ Times[k] \in Nat
      /\ T \subseteq Nat /\ T \subseteq Window
      /\ \A t \in Window : t \in Nat /\ roomTime <= t /\ t <= roomTime + Horizon
      /\ roomTime \in Nat
  <2> HIDE DEF n
  <2> QED BY <1>2, EntriesOfWindow
<1>4. ASSUME NEW t \in Window, NEW k \in 1 .. n, Times[k] <= t, k < n => t < Times[k + 1]
      PROVE  /\ MoneyAt(k) \in Int
             /\ MoneyAt(k) < pr =>
                  /\ PowerAt(k) > 0 => ReachAt(pr, k) \in Nat /\ Times[k] <= ReachAt(pr, k)
                  /\ t \in T <=> PowerAt(k) > 0 /\ ReachAt(pr, k) <= t
  <2>1. t \in T <=> Simulation[t].milli >= pr
    OBVIOUS
  <2> QED BY <1>4, <2>1, ReachedInSegment
<1>5. ASSUME NEW t \in Window
      PROVE  /\ Place(t) \in 1 .. n /\ Times[Place(t)] <= t
             /\ Place(t) < n => t < Times[Place(t) + 1]
             /\ \A k \in 1 .. n : /\ Times[k] <= t => k <= Place(t)
                                  /\ k < n /\ t < Times[k + 1] => Place(t) <= k
  BY SegmentOf
<1> HIDE DEF n, First, sale
<1>6. Window = roomTime .. roomTime + Horizon /\ Horizon \in Nat
  BY HorizonAssumption DEF Window
<1>7. ASSUME NEW k \in 1 .. n
      PROVE  /\ MoneyAt(k) \in Int
             /\ MoneyAt(k) < pr /\ PowerAt(k) > 0 =>
                  ReachAt(pr, k) \in Nat /\ Times[k] <= ReachAt(pr, k)
  <2>1. /\ Times[k] \in Window /\ Times[k] \in Nat /\ Times[k] <= Times[k]
        /\ \A u \in Updates : u <= Times[k] => u <= Times[k]
    BY <1>3
  <2>2. MoneyAt(k) \in Int
    BY <2>1, MoneyBetween DEF MoneyAt
  <2> DEFINE q == RoundUp(pr - MoneyAt(k), PowerAt(k))
  <2>3. MoneyAt(k) < pr /\ PowerAt(k) > 0 => q \in Nat
    BY <2>1, ReachedBy DEF MoneyAt, PowerAt
  <2>4. ReachAt(pr, k) = Times[k] + q
    BY DEF ReachAt
  <2> HIDE DEF q
  <2>5. q \in Nat => Times[k] + q \in Nat /\ Times[k] <= Times[k] + q
    BY <2>1
  <2> QED BY <2>2, <2>3, <2>4, <2>5
<1>8. CASE pr > MoneyAt(n)
  <2>1. ASSUME NEW t \in Window, Times[n] <= t
        PROVE  /\ PowerAt(n) > 0 => ReachAt(pr, n) \in Nat /\ Times[n] <= ReachAt(pr, n)
               /\ t \in T <=> PowerAt(n) > 0 /\ ReachAt(pr, n) <= t
    BY <1>2, <1>4, <1>7, <1>8, <2>1
  <2>2. Times[n] \in Window /\ Times[n] \notin T
    <3>1. MoneyAt(n) = Simulation[Times[n]].milli
      BY DEF MoneyAt
    <3> QED BY <1>2, <1>3, <1>7, <1>8, <3>1
  <2>3. ASSUME NEW t \in T PROVE Times[n] <= t
    <3>1. ~ (t <= Times[n])
      BY <2>2
    <3> QED BY <1>2, <1>3, <3>1
  <2>4. CASE PowerAt(n) > 0 /\ ReachAt(pr, n) <= roomTime + Horizon
    <3>1. ReachAt(pr, n) \in Window /\ Times[n] <= ReachAt(pr, n)
      <4>1. ReachAt(pr, n) \in Nat /\ Times[n] <= ReachAt(pr, n) /\ Times[n] <= Times[n]
        BY <1>2, <1>3, <2>1, <2>2, <2>4
      <4>2. roomTime <= Times[n] /\ Times[n] \in Nat
        BY <1>3, <2>2
      <4> QED BY <1>3, <1>6, <2>4, <4>1, <4>2
    <3>2. ReachAt(pr, n) \in T
      <4>1. PowerAt(n) > 0 /\ ReachAt(pr, n) \in Nat
        BY <2>1, <2>4, <3>1, Zenon
      <4>2. ReachAt(pr, n) <= ReachAt(pr, n)
        BY <4>1
      <4>3. ReachAt(pr, n) \in T <=> PowerAt(n) > 0 /\ ReachAt(pr, n) <= ReachAt(pr, n)
        BY <2>1, <3>1, Zenon
      <4> QED BY <4>1, <4>2, <4>3
    <3>3. \A t \in T : ReachAt(pr, n) <= t
      BY <1>3, <2>1, <2>3
    <3>4. Min(T) = ReachAt(pr, n)
      BY <1>3, <3>2, <3>3, MinIs
    <3> QED BY <1>1, <1>8, <2>4, <3>2, <3>4 DEF sale
  <2>5. CASE ~ (PowerAt(n) > 0 /\ ReachAt(pr, n) <= roomTime + Horizon)
    <3>1. ASSUME NEW t \in T PROVE FALSE
      <4>1. t \in Window /\ Times[n] <= t
        BY <1>3, <2>3
      <4>2. /\ PowerAt(n) > 0 /\ ReachAt(pr, n) \in Nat
            /\ ReachAt(pr, n) <= t /\ t <= roomTime + Horizon /\ t \in Nat
        BY <1>3, <2>1, <4>1
      <4> QED BY <1>3, <1>6, <2>5, <4>2
    <3> QED BY <1>1, <1>8, <2>5, <3>1 DEF sale
  <2> QED BY <2>4, <2>5
<1>9. CASE ~ (pr > MoneyAt(n))
  <2>1. \E k \in 1 .. n : First(k)
    <3> DEFINE K == {k \in 1 .. n : SaleAt(pr, k) # NotOnSale}
    <3>1. SaleAt(pr, n) = Times[n]
      BY <1>2, <1>7, <1>9 DEF SaleAt
    <3>2. n \in K /\ K \subseteq Nat
      BY <1>2, <1>3, <3>1 DEF NotOnSale
    <3>3. PICK k \in K : \A j \in K : k <= j
      <4> HIDE DEF K
      <4> QED BY <3>2, LeastTime
    <3>4. ASSUME NEW j \in 1 .. k - 1 PROVE SaleAt(pr, j) = NotOnSale
      <4>1. k \in 1 .. n /\ j \in 1 .. n /\ ~ (k <= j)
        BY <1>2
      <4>2. j \notin K
        BY <3>3, <4>1
      <4> QED BY <4>1, <4>2
    <3> QED BY <3>4 DEF First
  <2>2. PICK k \in 1 .. n : First(k) /\ sale = SaleAt(pr, k)
    BY <1>1, <1>9, <2>1
  <2>3. SaleAt(pr, k) # NotOnSale /\ \A j \in 1 .. k - 1 : SaleAt(pr, j) = NotOnSale
    BY <2>2 DEF First
  <2>4. ASSUME NEW j \in 1 .. n, SaleAt(pr, j) = NotOnSale
        PROVE  /\ MoneyAt(j) < pr
               /\ PowerAt(j) > 0 => j < n /\ ~ (ReachAt(pr, j) < Times[j + 1])
    <3>1. ~ (pr <= MoneyAt(j))
      <4>1. Times[j] # NotOnSale
        BY <1>3 DEF NotOnSale
      <4> QED BY <2>4, <4>1 DEF SaleAt
    <3>2. MoneyAt(j) < pr
      BY <1>7, <3>1
    <3>3. PowerAt(j) > 0 => ReachAt(pr, j) # NotOnSale
      BY <1>7, <3>2 DEF NotOnSale
    <3>4. PowerAt(j) > 0 => j < n /\ ~ (ReachAt(pr, j) < Times[j + 1])
      BY <2>4, <3>1, <3>3 DEF SaleAt, n
    <3> QED BY <3>2, <3>4
  <2>5. ASSUME NEW t \in T PROVE k <= Place(t)
    <3> DEFINE j == Place(t)
    <3>1. /\ t \in Window /\ j \in 1 .. n /\ Times[j] <= t
          /\ j < n => t < Times[j + 1]
      BY <1>3, <1>5
    <3> HIDE DEF j
    <3> SUFFICES ASSUME ~ (k <= j) PROVE FALSE
      BY DEF j
    <3>2. j \in 1 .. k - 1
      BY <1>2, <3>1
    <3>3. MoneyAt(j) < pr /\ (PowerAt(j) > 0 => j < n /\ ~ (ReachAt(pr, j) < Times[j + 1]))
      BY <2>3, <2>4, <3>1, <3>2
    <3>4. PowerAt(j) > 0 /\ ReachAt(pr, j) <= t
      BY <1>4, <3>1, <3>3
    <3>5. j < n /\ t < Times[j + 1] /\ ~ (ReachAt(pr, j) < Times[j + 1])
      BY <3>1, <3>3, <3>4
    <3>6. j + 1 \in 1 .. n
      BY <1>2, <3>1, <3>5
    <3>7. t \in Nat /\ ReachAt(pr, j) \in Nat /\ Times[j + 1] \in Nat
      BY <1>3, <1>7, <3>1, <3>3, <3>4, <3>6
    <3> QED BY <3>4, <3>5, <3>7
  <2>6. ASSUME NEW t \in T PROVE Times[k] <= t
    <3>1. t \in Window /\ k <= Place(t) /\ Place(t) \in 1 .. n
      BY <1>3, <1>5, <2>5
    <3>2. CASE k = 1
      <4>1. Times[1] = roomTime
        BY TimesInOrder
      <4> QED BY <1>3, <3>1, <3>2, <4>1
    <3>3. CASE k # 1
      <4>1. k - 1 \in 1 .. n /\ k - 1 < n /\ (k - 1) + 1 = k /\ ~ (Place(t) <= k - 1)
        BY <1>2, <3>1, <3>3
      <4>2. ~ (t < Times[(k - 1) + 1])
        BY <1>5, <3>1, <4>1
      <4> QED BY <1>3, <3>1, <4>1, <4>2
    <3> QED BY <3>2, <3>3
  <2>7. CASE pr <= MoneyAt(k)
    <3>1. SaleAt(pr, k) = Times[k]
      BY <2>7 DEF SaleAt
    <3>2. Times[k] \in T
      <4>1. Simulation[Times[k]].milli >= pr
        BY <1>7, <2>7 DEF MoneyAt
      <4> QED BY <1>3, <4>1
    <3>3. Min(T) = Times[k]
      BY <1>3, <2>6, <3>2, MinIs
    <3> QED BY <2>2, <3>1, <3>2, <3>3 DEF sale
  <2>8. CASE ~ (pr <= MoneyAt(k))
    <3>1. MoneyAt(k) < pr
      BY <1>7, <2>8
    <3>2. k # n
      BY <1>7, <1>9, <2>8
    <3>3. k < n /\ k + 1 \in 1 .. n
      BY <1>2, <3>2
    <3>4. PowerAt(k) > 0 /\ ReachAt(pr, k) < Times[k + 1] /\ SaleAt(pr, k) = ReachAt(pr, k)
      BY <2>3, <2>8, <3>3 DEF SaleAt, n
    <3> DEFINE r == ReachAt(pr, k)
    <3>5. r \in Nat /\ Times[k] <= r
      BY <1>7, <3>1, <3>4
    <3>6. r \in Window /\ r < Times[k + 1]
      <4>1. /\ Times[k] \in Nat /\ roomTime <= Times[k]
            /\ Times[k + 1] \in Nat /\ Times[k + 1] <= roomTime + Horizon
        BY <1>3, <3>3
      <4>2. r < Times[k + 1]
        BY <3>4
      <4> HIDE DEF r
      <4> QED BY <1>3, <1>6, <3>5, <4>1, <4>2
    <3>7. r \in T
      <4>1. PowerAt(k) > 0 /\ r <= r
        BY <3>4, <3>5
      <4>2. r \in T <=> PowerAt(k) > 0 /\ ReachAt(pr, k) <= r
        BY <1>4, <3>1, <3>5, <3>6
      <4> QED BY <4>1, <4>2
    <3>8. ASSUME NEW t \in T PROVE r <= t
      <4>1. t \in Window /\ t \in Nat /\ Times[k] <= t /\ Times[k + 1] \in Nat
        BY <1>3, <2>6, <3>3
      <4>2. CASE t < Times[k + 1]
        BY <1>4, <3>1, <4>1, <4>2
      <4>3. CASE ~ (t < Times[k + 1])
        <5> HIDE DEF r
        <5> QED BY <3>5, <3>6, <4>1, <4>3
      <4> QED BY <4>2, <4>3
    <3>9. Min(T) = r
      <4> HIDE DEF r
      <4> QED BY <1>3, <3>7, <3>8, MinIs
    <3> QED BY <2>2, <3>4, <3>7, <3>9 DEF sale
  <2> QED BY <2>7, <2>8
<1> QED BY <1>7, <1>8, <1>9

\* The answer of the validator is the server's, in every room.
LEMMA FormsRight == Tables => FormsAgree
<1> SUFFICES ASSUME Tables, NEW i \in Item,
                    Simulation[roomTime].milli < Milli * NextPrice(i)
             PROVE  CalcOnSale(Milli * NextPrice(i), Times,
                               [k \in DOMAIN Times |-> Simulation[Times[k]].milli],
                               [k \in DOMAIN Times |-> Simulation[Times[k]].power])
                      = IF i \in DOMAIN OnSale(Simulation) THEN OnSale(Simulation)[i] ELSE NotOnSale
  BY DEF FormsAgree
<1> DEFINE pr == Milli * NextPrice(i)
           T == {t \in Window : Simulation[t].milli >= pr}
           sale == OnSale(Simulation)
<1>1. pr \in Int
  BY NextPriceType
<1>2. \A t \in T, u \in Window : t <= u => u \in T
  BY PayableTimes
<1>3. roomTime \notin T
  <2>1. Simulation[roomTime].milli < pr
    OBVIOUS
  <2>2. Simulation[roomTime].milli \in Int
    <3>1. roomTime \in Window /\ roomTime <= roomTime
      BY EntriesOfWindow
    <3>2. \A u \in Updates : u <= roomTime => u <= roomTime
      OBVIOUS
    <3> QED BY <3>1, <3>2, MoneyBetween
  <2> HIDE DEF pr
  <2> QED BY <1>1, <2>1, <2>2
<1>4. IF i \in DOMAIN sale THEN sale[i] = Min(T) /\ T # {} ELSE T = {}
  BY <1>3 DEF OnSale
<1> HIDE DEF sale, pr, T
<1>5. CalcOnSale(pr, Times, [k \in DOMAIN Times |-> Simulation[Times[k]].milli],
                 [k \in DOMAIN Times |-> Simulation[Times[k]].power])
        = IF T = {} THEN NotOnSale ELSE Min(T)
  BY <1>1, <1>2, SaleIsFirst DEF T, pr
<1> QED BY <1>4, <1>5 DEF pr, sale

\* In every room that can come about, the benchmarker's closed form of when an item goes
\* on sale finds the millisecond the server's simulation finds, so that it does not fail a
\* correct server (gamelog.go:405-450, Game.js:214).
THEOREM ValidatorCorrect == RoomSpec => []FormsAgree
<1> QED BY TablesCorrect, FormsRight, PTL

-----------------------------------------------------------------------------
(* The loops over arrays *)

\* What an array to erase from may hold, undefined included.
Held == Values \cup {Undefined}

\* The places up to n of the array b whose elements are kept, and how many they are.
Kept(b, f, n) == {m \in 1 .. n : b[m] \notin f}
Rank(b, f, n) == Cardinality(Kept(b, f, n))

RankFacts(b, f, n) ==
    /\ Rank(b, f, n) \in Nat /\ Rank(b, f, n) <= n
    /\ Rank(b, f, 0) = 0
    /\ Rank(b, f, n + 1) = Rank(b, f, n) + (IF b[n + 1] \in f THEN 0 ELSE 1)
    /\ \A m \in 0 .. n : Rank(b, f, m) \in Nat /\ Rank(b, f, m) <= Rank(b, f, n)

\* As many are kept up to the next place, and one more if that is kept itself; a place up
\* to n has no more kept up to it than n has.
LEMMA RankNext ==
  ASSUME NEW b, NEW f, NEW n \in Nat
  PROVE  RankFacts(b, f, n)
<1>1. IsFiniteSet(1 .. n) /\ Cardinality(1 .. n) = n
  BY FS_Interval
<1>2. Kept(b, f, n) \subseteq 1 .. n
  BY DEF Kept
<1>3. IsFiniteSet(Kept(b, f, n)) /\ Rank(b, f, n) \in Nat /\ Rank(b, f, n) <= n
  BY <1>1, <1>2, FS_Subset, FS_CardinalityType DEF Rank
<1>4. Rank(b, f, 0) = 0
  <2>1. Kept(b, f, 0) = {}
    BY DEF Kept
  <2> QED BY <2>1, FS_EmptySet DEF Rank
<1>5. Rank(b, f, n + 1) = Rank(b, f, n) + (IF b[n + 1] \in f THEN 0 ELSE 1)
  <2>1. CASE b[n + 1] \in f
    <3>1. Kept(b, f, n + 1) = Kept(b, f, n)
      BY <2>1 DEF Kept
    <3> QED BY <1>3, <2>1, <3>1 DEF Rank
  <2>2. CASE b[n + 1] \notin f
    <3>1. Kept(b, f, n + 1) = Kept(b, f, n) \cup {n + 1}
      BY <2>2 DEF Kept
    <3>2. n + 1 \notin Kept(b, f, n)
      BY DEF Kept
    <3> QED BY <1>3, <2>2, <3>1, <3>2, FS_AddElement DEF Rank
  <2> QED BY <2>1, <2>2
<1>6. \A m \in 0 .. n : Rank(b, f, m) \in Nat /\ Rank(b, f, m) <= Rank(b, f, n)
  <2> SUFFICES ASSUME NEW m \in 0 .. n PROVE Rank(b, f, m) \in Nat /\ Rank(b, f, m) <= Rank(b, f, n)
    OBVIOUS
  <2>1. Kept(b, f, m) \subseteq Kept(b, f, n)
    BY DEF Kept
  <2> QED BY <1>3, <2>1, FS_Subset, FS_CardinalityType DEF Rank
<1> QED BY <1>3, <1>4, <1>5, <1>6 DEF RankFacts

\* Taking one element out moves those behind it one place up.
LEMMA RemoveOne ==
  ASSUME NEW a \in Seq(Held), NEW n \in 1 .. Len(a)
  PROVE  LET s == Calls!RemoveAt(a, n)
         IN  /\ s \in Seq(Held) /\ Len(s) = Len(a) - 1
             /\ \A k \in 1 .. Len(a) - 1 : s[k] = IF k < n THEN a[k] ELSE a[k + 1]
<1> DEFINE u == SubSeq(a, 1, n - 1)
           w == SubSeq(a, n + 1, Len(a))
           s == Calls!RemoveAt(a, n)
<1>1. s = u \o w
  BY DEF Calls!RemoveAt
<1>2. u \in Seq(Held) /\ Len(u) = n - 1 /\ \A k \in 1 .. n - 1 : u[k] = a[k]
  OBVIOUS
<1>3. w \in Seq(Held) /\ Len(w) = Len(a) - n /\ \A k \in 1 .. Len(a) - n : w[k] = a[n + k]
  OBVIOUS
<1> HIDE DEF u, w
<1>4. s \in Seq(Held) /\ Len(s) = Len(a) - 1
  BY <1>1, <1>2, <1>3
<1>5. ASSUME NEW k \in 1 .. Len(a) - 1 PROVE s[k] = IF k < n THEN a[k] ELSE a[k + 1]
  <2>1. CASE k < n
    BY <1>1, <1>2, <1>3, <2>1
  <2>2. CASE n <= k
    <3>1. k \in 1 .. Len(u) + Len(w) /\ k > Len(u)
      BY <1>2, <1>3, <2>2
    <3>2. s[k] = w[k - (n - 1)]
      BY <1>1, <1>2, <1>3, <3>1
    <3>3. k - (n - 1) \in 1 .. Len(a) - n /\ n + (k - (n - 1)) = k + 1
      BY <2>2
    <3> QED BY <1>3, <2>2, <3>2, <3>3
  <2> QED BY <2>1, <2>2
<1> QED BY <1>4, <1>5

\* The array a when the elements of b up to c have been seen: those kept of them come
\* first, the others follow, and the index is between the two, or behind the end.
Erased(b, f, a, c, n) ==
    /\ c \in 0 .. Len(b)
    /\ Len(a) = Rank(b, f, c) + Len(b) - c
    /\ \A m \in Kept(b, f, c) : a[Rank(b, f, m)] = b[m]
    /\ \A m \in c + 1 .. Len(b) : a[Rank(b, f, c) + m - c] = b[m]
    /\ n = Rank(b, f, c) \/ (c = Len(b) /\ n >= Len(a))

\* One more is seen, and taken out.
LEMMA ErasedOne ==
  ASSUME NEW b \in Seq(Held), NEW a \in Seq(Held), NEW f, NEW c, NEW n \in Nat,
         Erased(b, f, a, c, n), c < Len(b), b[c + 1] \in f
  PROVE  /\ n < Len(a) /\ a[n + 1] = b[c + 1]
         /\ Erased(b, f, Calls!RemoveAt(a, n + 1), c + 1, n)
<1> DEFINE s == Calls!RemoveAt(a, n + 1)
           R == Rank(b, f, c)
<1>0. c \in Nat /\ Len(b) \in Nat /\ RankFacts(b, f, c)
  <2>1. c \in Nat /\ Len(b) \in Nat
    BY DEF Erased
  <2> QED BY <2>1, RankNext
<1>1. c \in Nat /\ Len(b) \in Nat /\ c + 1 \in 0 .. Len(b) /\ n = R /\ R \in Nat
  BY <1>0 DEF Erased, RankFacts
<1>2. Len(a) = R + Len(b) - c /\ n < Len(a) /\ n + 1 \in 1 .. Len(a)
  BY <1>1 DEF Erased
<1>3. a[n + 1] = b[c + 1]
  <2>1. c + 1 \in c + 1 .. Len(b) /\ R + (c + 1) - c = n + 1
    BY <1>1
  <2> QED BY <2>1 DEF Erased
<1>4. Rank(b, f, c + 1) = R /\ Kept(b, f, c + 1) = Kept(b, f, c)
  <2>1. Kept(b, f, c + 1) = Kept(b, f, c)
    BY <1>1 DEF Kept
  <2> QED BY <2>1 DEF Rank
<1>5. /\ Len(s) = Len(a) - 1
      /\ \A k \in 1 .. Len(a) - 1 : s[k] = IF k < n + 1 THEN a[k] ELSE a[k + 1]
  BY <1>2, RemoveOne
<1> HIDE DEF s, R
<1>6. ASSUME NEW m \in Kept(b, f, c) PROVE s[Rank(b, f, m)] = b[m]
  <2>1. m \in 0 .. c /\ m \in Nat /\ m - 1 \in Nat /\ b[m] \notin f
    BY <1>1 DEF Kept
  <2>2. Rank(b, f, m) \in Nat /\ Rank(b, f, m) <= R
    BY <1>0, <2>1 DEF R, RankFacts
  <2>3. 1 <= Rank(b, f, m)
    <3> DEFINE o == m - 1
    <3>0. o \in Nat /\ b[o + 1] \notin f
      BY <2>1
    <3> HIDE DEF o
    <3>3. RankFacts(b, f, o)
      BY <3>0, RankNext
    <3>1. Rank(b, f, o + 1) = Rank(b, f, o) + 1 /\ Rank(b, f, o) \in Nat
      BY <3>0, <3>3 DEF RankFacts
    <3>2. o + 1 = m
      BY <2>1 DEF o
    <3> QED BY <3>1, <3>2
  <2>4. Rank(b, f, m) \in 1 .. Len(a) - 1 /\ Rank(b, f, m) < n + 1
    BY <1>1, <1>2, <2>2, <2>3
  <2>5. a[Rank(b, f, m)] = b[m]
    BY DEF Erased
  <2> QED BY <1>5, <2>4, <2>5
<1>7. ASSUME NEW m \in (c + 1) + 1 .. Len(b) PROVE s[R + m - (c + 1)] = b[m]
  <2>1. R + m - (c + 1) \in 1 .. Len(a) - 1 /\ ~ (R + m - (c + 1) < n + 1) /\ (R + m - (c + 1)) + 1 = R + m - c
    BY <1>1, <1>2
  <2>2. m \in c + 1 .. Len(b)
    BY <1>1
  <2>3. a[R + m - c] = b[m]
    BY <2>2 DEF Erased, R
  <2> QED BY <1>5, <2>1, <2>3
<1>8. Len(s) = R + Len(b) - (c + 1)
  BY <1>1, <1>2, <1>5
<1>9. Erased(b, f, s, c + 1, n)
  BY <1>1, <1>4, <1>6, <1>7, <1>8 DEF Erased
<1> QED BY <1>2, <1>3, <1>9 DEF s

\* One more is seen, and kept.
LEMMA KeptOne ==
  ASSUME NEW b \in Seq(Held), NEW a \in Seq(Held), NEW f, NEW c, NEW n \in Nat,
         Erased(b, f, a, c, n), c < Len(b), b[c + 1] \notin f
  PROVE  /\ n < Len(a) /\ a[n + 1] = b[c + 1]
         /\ Erased(b, f, a, c + 1, n + 1)
<1> DEFINE R == Rank(b, f, c)
<1>0. c \in Nat /\ Len(b) \in Nat /\ RankFacts(b, f, c)
  <2>1. c \in Nat /\ Len(b) \in Nat
    BY DEF Erased
  <2> QED BY <2>1, RankNext
<1>1. c \in Nat /\ Len(b) \in Nat /\ c + 1 \in 0 .. Len(b) /\ n = R /\ R \in Nat
  BY <1>0 DEF Erased, RankFacts
<1>2. Len(a) = R + Len(b) - c /\ n < Len(a)
  BY <1>1 DEF Erased
<1>3. a[n + 1] = b[c + 1]
  <2>1. c + 1 \in c + 1 .. Len(b) /\ R + (c + 1) - c = n + 1
    BY <1>1
  <2> QED BY <2>1 DEF Erased
<1>4. Rank(b, f, c + 1) = R + 1
  BY <1>0, <1>1 DEF RankFacts
<1>5. Kept(b, f, c + 1) = Kept(b, f, c) \cup {c + 1}
  BY <1>1 DEF Kept
<1> HIDE DEF R
<1>6. ASSUME NEW m \in Kept(b, f, c + 1) PROVE a[Rank(b, f, m)] = b[m]
  <2>1. CASE m = c + 1
    BY <1>1, <1>3, <1>4, <2>1
  <2>2. CASE m \in Kept(b, f, c)
    BY <2>2 DEF Erased
  <2> QED BY <1>5, <2>1, <2>2
<1>7. ASSUME NEW m \in (c + 1) + 1 .. Len(b) PROVE a[(R + 1) + m - (c + 1)] = b[m]
  <2>1. m \in c + 1 .. Len(b) /\ (R + 1) + m - (c + 1) = R + m - c
    BY <1>1
  <2> QED BY <2>1 DEF Erased, R
<1>8. Len(a) = (R + 1) + Len(b) - (c + 1) /\ n + 1 = R + 1
  BY <1>1, <1>2
<1>9. Erased(b, f, a, c + 1, n + 1)
  BY <1>1, <1>4, <1>6, <1>7, <1>8 DEF Erased
<1> QED BY <1>2, <1>3, <1>9

\* Behind the end there is nothing: the array is as it will be.
LEMMA ErasedAll ==
  ASSUME NEW b \in Seq(Held), NEW a \in Seq(Held), NEW f, NEW c, NEW n \in Nat,
         Erased(b, f, a, c, n), n >= Len(a)
  PROVE  /\ c = Len(b)
         /\ Len(a) = Rank(b, f, Len(b))
         /\ \A m \in Kept(b, f, Len(b)) : a[Rank(b, f, m)] = b[m]
         /\ Erased(b, f, a, c, n + 1)
<1>0. c \in Nat /\ Len(b) \in Nat /\ c <= Len(b) /\ Len(a) \in Nat
  BY DEF Erased
<1>1. c \in Nat /\ Len(b) \in Nat /\ c <= Len(b) /\ Rank(b, f, c) \in Nat /\ Len(a) \in Nat
  BY <1>0, RankNext DEF RankFacts
<1>2. c = Len(b)
  BY <1>1 DEF Erased
<1>3. n + 1 >= Len(a)
  BY <1>1
<1>4. Len(a) = Rank(b, f, Len(b))
  BY <1>1, <1>2 DEF Erased
<1>5. Erased(b, f, a, c, n + 1)
  BY <1>2, <1>3 DEF Erased
<1> QED BY <1>2, <1>4, <1>5 DEF Erased
-----------------------------------------------------------------------------
(* What is true during the calls *)

\* While all elements that a function holds for are erased.
ErasingInv ==
    /\ arraysOp \in {"eraseAll", "eraseIfAll"}
    /\ arraysBefore \in Seq(Held) /\ arraysArr \in Seq(Held)
    /\ arraysI \in Nat
    /\ arraysLen = (IF arraysOp = "eraseIfAll" THEN Len(arraysArr) ELSE Len(arraysBefore))
    /\ \E c \in Nat : Erased(arraysBefore, arraysFn, arraysArr, c, arraysI)
    /\ arraysRunning \in BOOLEAN
    /\ ~ arraysRunning => arraysI >= arraysLen

\* While the first of them is looked for.
EraseFirstInv ==
    /\ arraysOp = "eraseIf"
    /\ arraysBefore \in Seq(Held)
    /\ arraysI \in Nat /\ arraysI <= Len(arraysBefore)
    /\ arraysLen = Len(arraysBefore)
    /\ \A k \in 1 .. arraysI : arraysBefore[k] \notin arraysFn
    /\ arraysRunning \in BOOLEAN
    /\ arraysRunning => arraysArr = arraysBefore
    /\ ~ arraysRunning =>
           \/ arraysArr = arraysBefore /\ arraysI >= arraysLen
           \/ /\ arraysI < arraysLen /\ arraysBefore[arraysI + 1] \in arraysFn
              /\ arraysArr = Calls!RemoveAt(arraysBefore, arraysI + 1)

\* While an array is shuffled: every value is at as many places as before.
Places(a, v) == {n \in DOMAIN a : a[n] = v}
ShuffleInv ==
    /\ arraysOp = "shuffle"
    /\ arraysBefore \in Seq(Values) /\ arraysArr \in Seq(Values)
    /\ arraysLen = Len(arraysBefore) /\ Len(arraysArr) = Len(arraysBefore)
    /\ arraysI \in Nat
    /\ \A v \in Values : Cardinality(Places(arraysArr, v)) = Cardinality(Places(arraysBefore, v))

\* While equal elements are left out: what is in is the first of its kind up to the index,
\* every kind is in, and in the order of the firsts.
Firsts(b, n) == {m \in 1 .. n : \A k \in 1 .. m - 1 : b[k] # b[m]}
UniqTo(b, a, n) ==
    /\ \A k \in 1 .. Len(a) : \E m \in Firsts(b, n) : a[k] = b[m]
    /\ \A m \in 1 .. n : \E k \in 1 .. Len(a) : a[k] = b[m]
    /\ \A k, l \in 1 .. Len(a) : \A m, o \in Firsts(b, n) :
           k < l /\ a[k] = b[m] /\ a[l] = b[o] => m < o
UniqInv ==
    /\ arraysOp = "uniq"
    /\ arraysBefore \in Seq(Values) /\ arraysArr \in Seq(Values)
    /\ arraysLen = Len(arraysBefore)
    /\ arraysI \in Nat /\ arraysI <= arraysLen
    /\ UniqTo(arraysBefore, arraysArr, arraysI)
    /\ arraysRunning \in BOOLEAN
    /\ ~ arraysRunning => arraysI >= arraysLen

\* While an array is filled.
FilledTo(b, from, n) == [m \in DOMAIN b |-> IF from < m /\ m <= n THEN Calls!Filling ELSE b[m]]
FillInv ==
    /\ arraysOp = "fill"
    /\ arraysBefore \in Seq(Values)
    /\ arraysStart \in 0 .. Len(arraysBefore) /\ arraysEnd \in 0 .. Len(arraysBefore)
    /\ arraysLen = Len(arraysBefore)
    /\ arraysI \in Nat /\ arraysStart <= arraysI
    /\ arraysEnd # 0 => arraysI = arraysStart \/ arraysI <= arraysEnd
    /\ arraysArr = FilledTo(arraysBefore, arraysStart, arraysI)
    /\ arraysRunning \in BOOLEAN
    /\ ~ arraysRunning => arraysI >= Calls!FillEnd(arraysEnd, arraysLen)

\* While a range is written: the numbers so far, the last of them before the end.
Stride(from, to, step) == IF step # 0 THEN step ELSE IF from < to THEN 1 ELSE -1
Goes(from, to, m, n) == (from < to) = (m > 0) /\ IF m > 0 THEN n < to ELSE n > to
RangeTo(from, to, m, a, n) ==
    /\ a \in Seq(Int)
    /\ \A k \in 1 .. Len(a) : a[k] = from + (k - 1) * m
    /\ n = from + Len(a) * m
    /\ Len(a) > 0 => Goes(from, to, m, n - m)
RangeInv ==
    /\ arraysOp = "range"
    /\ arraysStart \in -MaxInt .. MaxInt /\ arraysEnd \in -MaxInt .. MaxInt /\ arraysStep \in -3 .. 3
    /\ RangeTo(arraysStart, arraysEnd, Stride(arraysStart, arraysEnd, arraysStep), arraysArr, arraysLen)
    /\ arraysRunning \in BOOLEAN
    /\ ~ arraysRunning =>
           ~ Goes(arraysStart, arraysEnd, Stride(arraysStart, arraysEnd, arraysStep), arraysLen)

\* While the greatest and the least are looked for.
MostTo(b, n, most, least) ==
    /\ \/ n = 0 /\ most = -Calls!Infinity /\ least = Calls!Infinity
       \/ (\E m \in 1 .. n : most = b[m]) /\ (\E m \in 1 .. n : least = b[m])
    /\ \A m \in 1 .. n : least <= b[m] /\ b[m] <= most
MostInv ==
    /\ arraysOp = "most"
    /\ arraysBefore \in Seq(Values) /\ arraysArr = arraysBefore
    /\ arraysLen = Len(arraysBefore)
    /\ arraysI \in Nat /\ arraysI <= arraysLen
    /\ MostTo(arraysBefore, arraysI, arraysMax, arraysMin)
    /\ arraysRunning \in BOOLEAN
    /\ ~ arraysRunning => arraysI >= arraysLen

\* One call or the other.
CallInv ==
    \/ ErasingInv \/ EraseFirstInv \/ ShuffleInv \/ UniqInv
    \/ FillInv \/ RangeInv \/ MostInv

\* What the constants are.
LEMMA CallsConstants ==
  /\ Values \subseteq Int /\ Undefined \notin Values /\ MaxInt \in Nat
  /\ \A v \in Values : -Calls!Infinity < v /\ v < Calls!Infinity
  /\ Calls!Infinity \in Int
BY CallsAssumption DEF Calls!ArraysAssumption, Calls!Infinity

\* Arrays are sequences of at most MaxLen elements.
LEMMA ArraysAreSeqs ==
  /\ \A b \in Calls!Arrays : b \in Seq(Values)
  /\ \A b \in Calls!WithHoles : b \in Seq(Held)
<1>1. ASSUME NEW S, NEW n \in Nat, NEW b \in [1 .. n -> S] PROVE b \in Seq(S)
  BY SeqDef
<1>2. \A n \in 0 .. MaxLen : n \in Nat
  BY CallsAssumption DEF Calls!ArraysAssumption
<1>3. \A b \in Calls!Arrays : b \in Seq(Values)
  BY <1>1, <1>2 DEF Calls!Arrays
<1>4. \A b \in Calls!WithHoles : b \in Seq(Held)
  BY <1>1, <1>2 DEF Calls!WithHoles, Held
<1> QED BY <1>3, <1>4

\* No number yet.
LEMMA RangeNone ==
  ASSUME NEW from \in Int, NEW to, NEW m \in Int
  PROVE  RangeTo(from, to, m, <<>>, from)
<1>1. Len(<<>>) = 0 /\ <<>> \in Seq(Int)
  OBVIOUS
<1>2. 0 * m = 0
  OBVIOUS
<1> QED BY <1>1, <1>2 DEF RangeTo

\* Every call begins so.
LEMMA CallStart == Calls!Init => CallInv
<1> SUFFICES ASSUME Calls!Init PROVE CallInv
  OBVIOUS
<1> USE DEF Calls!Init
<1>1. CASE arraysOp \in Calls!Erasing /\ arraysBefore \in Calls!WithHoles
  <2>1. arraysBefore \in Seq(Held) /\ arraysArr = arraysBefore /\ arraysI = 0
        /\ arraysLen = Len(arraysBefore) /\ arraysRunning = TRUE
    BY <1>1, ArraysAreSeqs DEF Calls!Erasing
  <2>2. CASE arraysOp = "eraseIf"
    BY <2>1, <2>2 DEF CallInv, EraseFirstInv
  <2>3. CASE arraysOp \in {"eraseAll", "eraseIfAll"}
    <3>1. Rank(arraysBefore, arraysFn, 0) = 0 /\ Kept(arraysBefore, arraysFn, 0) = {}
      <4>1. RankFacts(arraysBefore, arraysFn, 0)
        BY RankNext
      <4> QED BY <4>1 DEF RankFacts, Kept
    <3>2. Erased(arraysBefore, arraysFn, arraysArr, 0, arraysI)
      BY <2>1, <3>1 DEF Erased
    <3> QED BY <2>1, <2>3, <3>2 DEF CallInv, ErasingInv
  <2> QED BY <1>1, <2>2, <2>3 DEF Calls!Erasing
<1>2. CASE arraysOp \in {"shuffle", "uniq", "most"} /\ arraysBefore \in Calls!Arrays
  <2>1. arraysBefore \in Seq(Values) /\ arraysI = 0 /\ arraysLen = Len(arraysBefore) /\ arraysRunning = TRUE
        /\ arraysMax = -Calls!Infinity /\ arraysMin = Calls!Infinity
    BY <1>2, ArraysAreSeqs
  <2>2. CASE arraysOp = "shuffle"
    BY <2>1, <2>2 DEF CallInv, ShuffleInv
  <2>3. CASE arraysOp = "uniq"
    <3>1. arraysArr = <<>>
      BY <2>3
    <3>2. UniqTo(arraysBefore, arraysArr, 0)
      BY <3>1 DEF UniqTo
    <3> QED BY <2>1, <2>3, <3>1, <3>2 DEF CallInv, UniqInv
  <2>4. CASE arraysOp = "most"
    <3>1. arraysArr = arraysBefore
      BY <2>4
    <3>2. MostTo(arraysBefore, 0, arraysMax, arraysMin)
      BY <2>1 DEF MostTo
    <3> QED BY <2>1, <2>4, <3>1, <3>2 DEF CallInv, MostInv
  <2> QED BY <1>2, <2>2, <2>3, <2>4
<1>3. CASE arraysOp = "fill" /\ arraysBefore \in Calls!Arrays
           /\ arraysStart \in 0 .. Len(arraysBefore) /\ arraysEnd \in 0 .. Len(arraysBefore)
  <2>1. arraysBefore \in Seq(Values) /\ arraysI = arraysStart /\ arraysLen = Len(arraysBefore)
        /\ arraysRunning = TRUE /\ arraysArr = arraysBefore
    BY <1>3, ArraysAreSeqs
  <2>2. arraysArr = FilledTo(arraysBefore, arraysStart, arraysI)
    <3>1. arraysBefore = [m \in DOMAIN arraysBefore |-> arraysBefore[m]]
      BY <2>1
    <3>2. \A m \in DOMAIN arraysBefore : ~ (arraysStart < m /\ m <= arraysI)
      BY <1>3, <2>1
    <3> QED BY <2>1, <3>1, <3>2 DEF FilledTo
  <2>3. arraysI \in Nat /\ arraysStart <= arraysI
    BY <1>3, <2>1
  <2> QED BY <1>3, <2>1, <2>2, <2>3, Zenon DEF CallInv, FillInv
<1>4. CASE arraysOp = "range" /\ arraysBefore = <<>> /\ arraysStart \in -MaxInt .. MaxInt
           /\ arraysEnd \in -MaxInt .. MaxInt /\ arraysStep \in -3 .. 3
  <2>1. arraysArr = <<>> /\ arraysLen = arraysStart /\ arraysRunning = TRUE
    BY <1>4
  <2>2. Stride(arraysStart, arraysEnd, arraysStep) \in Int /\ arraysStart \in Int
    BY <1>4, CallsConstants DEF Stride
  <2>3. RangeTo(arraysStart, arraysEnd, Stride(arraysStart, arraysEnd, arraysStep), arraysArr, arraysLen)
    BY <2>1, <2>2, RangeNone
  <2> QED BY <1>4, <2>1, <2>3 DEF CallInv, RangeInv
<1> QED BY <1>1, <1>2, <1>3, <1>4 DEF Calls!Calls

\* A call keeps its arguments, and runs its own loop only.
LEMMA OwnLoop ==
  ASSUME Calls!Next
  PROVE  /\ UNCHANGED <<arraysOp, arraysBefore, arraysFn, arraysStart, arraysEnd, arraysStep>>
         /\ arraysRunning
         /\ arraysOp \in Calls!Erasing => Calls!Erase
         /\ arraysOp = "shuffle" => Calls!Shuffle
         /\ arraysOp = "uniq" => Calls!Uniq
         /\ arraysOp = "fill" => Calls!Fill
         /\ arraysOp = "range" => Calls!RangeStep
         /\ arraysOp = "most" => Calls!Most
<1>1. CASE Calls!Erase
  BY <1>1 DEF Calls!Erase, Calls!call, Calls!Erasing
<1>2. CASE Calls!Shuffle
  BY <1>2 DEF Calls!Shuffle, Calls!Runs, Calls!call, Calls!Erasing
<1>3. CASE Calls!Uniq
  BY <1>3 DEF Calls!Uniq, Calls!Runs, Calls!call, Calls!Erasing
<1>4. CASE Calls!Fill
  BY <1>4 DEF Calls!Fill, Calls!Runs, Calls!call, Calls!Erasing
<1>5. CASE Calls!RangeStep
  BY <1>5 DEF Calls!RangeStep, Calls!Runs, Calls!call, Calls!Erasing
<1>6. CASE Calls!Most
  BY <1>6 DEF Calls!Most, Calls!Runs, Calls!call, Calls!Erasing
<1> QED BY <1>1, <1>2, <1>3, <1>4, <1>5, <1>6 DEF Calls!Next

\* The loop that erases all.
LEMMA ErasingStep == ErasingInv /\ Calls!Next => ErasingInv'
<1> SUFFICES ASSUME ErasingInv, Calls!Next PROVE ErasingInv'
  OBVIOUS
<1>1. Calls!Erase /\ UNCHANGED <<arraysOp, arraysBefore, arraysFn>>
  BY OwnLoop DEF ErasingInv, Calls!Erasing
<1>2. PICK c \in Nat : Erased(arraysBefore, arraysFn, arraysArr, c, arraysI)
  BY DEF ErasingInv
<1>3. /\ arraysOp \in {"eraseAll", "eraseIfAll"}
      /\ arraysBefore \in Seq(Held) /\ arraysArr \in Seq(Held) /\ arraysI \in Nat
      /\ arraysLen = (IF arraysOp = "eraseIfAll" THEN Len(arraysArr) ELSE Len(arraysBefore))
      /\ c <= Len(arraysBefore)
  BY <1>2 DEF ErasingInv, Erased
<1>4. /\ arraysI < Len(arraysArr) => Calls!At(arraysArr, arraysI) = arraysArr[arraysI + 1]
      /\ arraysI >= Len(arraysArr) => Calls!Splice(arraysArr, arraysI) = arraysArr
      /\ arraysI < Len(arraysArr) => Calls!Splice(arraysArr, arraysI) = Calls!RemoveAt(arraysArr, arraysI + 1)
  BY <1>3 DEF Calls!At, Calls!Splice
<1>5. CASE arraysI >= arraysLen
  <2>1. arraysRunning' = FALSE /\ UNCHANGED <<arraysArr, arraysI, arraysLen>>
    BY <1>1, <1>5 DEF Calls!Erase, Calls!Ends
  <2>2. Erased(arraysBefore', arraysFn', arraysArr', c, arraysI')
    BY <1>1, <1>2, <2>1
  <2> QED BY <1>1, <1>3, <1>5, <2>1, <2>2 DEF ErasingInv
<1>6. CASE ~ (arraysI >= arraysLen) /\ Calls!At(arraysArr, arraysI) \in arraysFn
  <2>1. /\ arraysArr' = Calls!Splice(arraysArr, arraysI)
        /\ arraysLen' = (IF arraysOp = "eraseIfAll" THEN arraysLen - 1 ELSE arraysLen)
        /\ arraysRunning' = TRUE /\ arraysI' = arraysI
    BY <1>1, <1>3, <1>6 DEF Calls!Erase, Calls!Again
  <2>2. CASE arraysI < Len(arraysArr)
    <3>1. c < Len(arraysBefore)
      <4>1. Rank(arraysBefore, arraysFn, c) \in Nat
        <5>1. RankFacts(arraysBefore, arraysFn, c)
          BY RankNext
        <5> QED BY <5>1 DEF RankFacts
      <4> QED BY <1>2, <1>3, <2>2, <4>1 DEF Erased
    <3>2. arraysArr[arraysI + 1] = arraysBefore[c + 1]
      BY <1>2, <1>3, <3>1, ErasedOne, KeptOne
    <3>3. Erased(arraysBefore, arraysFn, Calls!RemoveAt(arraysArr, arraysI + 1), c + 1, arraysI)
      BY <1>2, <1>3, <1>4, <1>6, <2>2, <3>1, <3>2, ErasedOne
    <3>4. /\ Calls!RemoveAt(arraysArr, arraysI + 1) \in Seq(Held)
          /\ Len(Calls!RemoveAt(arraysArr, arraysI + 1)) = Len(arraysArr) - 1
      <4>1. arraysI + 1 \in 1 .. Len(arraysArr)
        BY <1>3, <2>2
      <4> QED BY <1>3, <4>1, RemoveOne
    <3>5. Erased(arraysBefore', arraysFn', arraysArr', c + 1, arraysI')
      BY <1>1, <1>4, <2>1, <2>2, <3>3
    <3>6. arraysLen' = (IF arraysOp' = "eraseIfAll" THEN Len(arraysArr') ELSE Len(arraysBefore'))
      BY <1>1, <1>3, <1>4, <2>1, <2>2, <3>4
    <3>7. arraysArr' \in Seq(Held)
      BY <1>4, <2>1, <2>2, <3>4
    <3>8. c + 1 \in Nat
      OBVIOUS
    <3> QED BY <1>1, <1>3, <2>1, <3>5, <3>6, <3>7, <3>8 DEF ErasingInv
  <2>3. CASE arraysI >= Len(arraysArr)
    <3>1. arraysOp # "eraseIfAll"
      BY <1>3, <1>6, <2>3
    <3>2. Erased(arraysBefore', arraysFn', arraysArr', c, arraysI')
      BY <1>1, <1>2, <1>4, <2>1, <2>3
    <3> QED BY <1>1, <1>3, <1>4, <2>1, <2>3, <3>1, <3>2 DEF ErasingInv
  <2> QED BY <1>3, <2>2, <2>3
<1>7. CASE ~ (arraysI >= arraysLen) /\ Calls!At(arraysArr, arraysI) \notin arraysFn
  <2>1. /\ arraysI' = arraysI + 1
        /\ UNCHANGED <<arraysArr, arraysLen, arraysRunning>> /\ arraysRunning
    BY <1>1, <1>7 DEF Calls!Erase
  <2>2. CASE arraysI < Len(arraysArr)
    <3>1. c < Len(arraysBefore)
      <4>1. Rank(arraysBefore, arraysFn, c) \in Nat
        <5>1. RankFacts(arraysBefore, arraysFn, c)
          BY RankNext
        <5> QED BY <5>1 DEF RankFacts
      <4> QED BY <1>2, <1>3, <2>2, <4>1 DEF Erased
    <3>2. arraysArr[arraysI + 1] = arraysBefore[c + 1]
      BY <1>2, <1>3, <3>1, ErasedOne, KeptOne
    <3>3. Erased(arraysBefore, arraysFn, arraysArr, c + 1, arraysI + 1)
      BY <1>2, <1>3, <1>4, <1>7, <2>2, <3>1, <3>2, KeptOne
    <3>4. Erased(arraysBefore', arraysFn', arraysArr', c + 1, arraysI') /\ c + 1 \in Nat
      BY <1>1, <2>1, <3>3
    <3> QED BY <1>1, <1>3, <2>1, <3>4 DEF ErasingInv
  <2>3. CASE arraysI >= Len(arraysArr)
    <3>1. Erased(arraysBefore, arraysFn, arraysArr, c, arraysI + 1)
      BY <1>2, <1>3, <2>3, ErasedAll
    <3>2. Erased(arraysBefore', arraysFn', arraysArr', c, arraysI')
      BY <1>1, <2>1, <3>1
    <3> QED BY <1>1, <1>3, <2>1, <3>2 DEF ErasingInv
  <2> QED BY <1>3, <2>2, <2>3
<1> QED BY <1>5, <1>6, <1>7
\* The loop that erases the first.
LEMMA EraseFirstStep == EraseFirstInv /\ Calls!Next => EraseFirstInv'
<1> SUFFICES ASSUME EraseFirstInv, Calls!Next PROVE EraseFirstInv'
  OBVIOUS
<1>1. Calls!Erase /\ UNCHANGED <<arraysOp, arraysBefore, arraysFn>> /\ arraysRunning
  BY OwnLoop DEF EraseFirstInv, Calls!Erasing
<1>2. /\ arraysOp = "eraseIf" /\ arraysBefore \in Seq(Held) /\ Len(arraysBefore) \in Nat
      /\ arraysI \in Nat /\ arraysI <= Len(arraysBefore) /\ arraysLen = Len(arraysBefore)
      /\ \A k \in 1 .. arraysI : arraysBefore[k] \notin arraysFn
      /\ arraysArr = arraysBefore
  BY <1>1 DEF EraseFirstInv
<1>3. CASE arraysI >= arraysLen
  <2>1. arraysRunning' = FALSE /\ UNCHANGED <<arraysArr, arraysI, arraysLen>>
    BY <1>1, <1>3 DEF Calls!Erase, Calls!Ends
  <2> QED BY <1>1, <1>2, <1>3, <2>1 DEF EraseFirstInv
<1>4. CASE ~ (arraysI >= arraysLen)
  <2>1. arraysI < Len(arraysBefore) /\ arraysI + 1 \in DOMAIN arraysBefore
    BY <1>2, <1>4
  <2>2. Calls!At(arraysArr, arraysI) = arraysBefore[arraysI + 1]
    BY <1>2, <2>1 DEF Calls!At
  <2>3. CASE arraysBefore[arraysI + 1] \in arraysFn
    <3>1. /\ arraysArr' = Calls!Splice(arraysArr, arraysI)
          /\ arraysLen' = arraysLen /\ arraysRunning' = FALSE /\ arraysI' = arraysI
      BY <1>1, <1>2, <1>4, <2>2, <2>3 DEF Calls!Erase, Calls!Again
    <3>2. arraysArr' = Calls!RemoveAt(arraysBefore, arraysI + 1)
      BY <1>2, <2>1, <3>1 DEF Calls!Splice
    <3> QED BY <1>1, <1>2, <2>1, <2>3, <3>1, <3>2 DEF EraseFirstInv, Calls!RemoveAt
  <2>4. CASE arraysBefore[arraysI + 1] \notin arraysFn
    <3>1. arraysI' = arraysI + 1 /\ UNCHANGED <<arraysArr, arraysLen, arraysRunning>>
      BY <1>1, <1>4, <2>2, <2>4 DEF Calls!Erase
    <3>2. \A k \in 1 .. arraysI + 1 : arraysBefore[k] \notin arraysFn
      BY <1>2, <2>4
    <3> QED BY <1>1, <1>2, <2>1, <3>1, <3>2 DEF EraseFirstInv
  <2> QED BY <2>3, <2>4
<1> QED BY <1>3, <1>4

\* Swapping two elements puts every value at as many places: the transposition of the two
\* is a bijection of its places.
LEMMA SwapPermutes ==
  ASSUME NEW a \in Seq(Values), NEW m \in 0 .. Len(a) - 1, NEW n \in 0 .. Len(a) - 1, NEW v
  PROVE  LET s == Calls!Swap(a, m, n)
         IN  /\ s \in Seq(Values) /\ Len(s) = Len(a)
             /\ Cardinality(Places(s, v)) = Cardinality(Places(a, v))
<1> DEFINE s == Calls!Swap(a, m, n)
           t(k) == IF k = m + 1 THEN n + 1 ELSE IF k = n + 1 THEN m + 1 ELSE k
<1>1. /\ m + 1 \in DOMAIN a /\ n + 1 \in DOMAIN a /\ DOMAIN a = 1 .. Len(a) /\ Len(a) \in Nat
      /\ \A k \in DOMAIN a : a[k] \in Values
  OBVIOUS
<1>2. DOMAIN s = DOMAIN a /\ \A k \in DOMAIN a : s[k] = a[t(k)]
  <2>1. DOMAIN s = DOMAIN a
    BY DEF Calls!Swap
  <2>2. \A k \in DOMAIN a : s[k] = IF k = n + 1 THEN a[m + 1] ELSE IF k = m + 1 THEN a[n + 1] ELSE a[k]
    BY <1>1 DEF Calls!Swap
  <2>3. \A k \in DOMAIN a : k = n + 1 /\ k = m + 1 => a[m + 1] = a[n + 1]
    OBVIOUS
  <2> QED BY <2>1, <2>2, <2>3
<1>3. s \in Seq(Values) /\ Len(s) = Len(a)
  <2>1. s \in [1 .. Len(a) -> Values]
    BY <1>1, <1>2 DEF Calls!Swap
  <2> QED BY <1>1, <2>1, SeqDef
<1>4. \A k \in DOMAIN a : t(k) \in DOMAIN a /\ t(t(k)) = k
  BY <1>1
<1> HIDE DEF s, t
<1> DEFINE f == [k \in Places(s, v) |-> t(k)]
<1>5. \A k \in Places(s, v) : k \in DOMAIN a /\ t(k) \in Places(a, v) /\ t(t(k)) = k
  BY <1>2, <1>4 DEF Places
<1>6. \A k \in Places(a, v) : k \in DOMAIN a /\ t(k) \in Places(s, v) /\ t(t(k)) = k
  BY <1>2, <1>4 DEF Places
<1>7. f \in Bijection(Places(s, v), Places(a, v))
  <2>1. f \in [Places(s, v) -> Places(a, v)]
    BY <1>5
  <2>2. \A k, l \in Places(s, v) : f[k] = f[l] => k = l
    BY <1>5
  <2>3. \A k \in Places(a, v) : \E l \in Places(s, v) : f[l] = k
    <3> SUFFICES ASSUME NEW k \in Places(a, v) PROVE \E l \in Places(s, v) : f[l] = k
      OBVIOUS
    <3>1. t(k) \in Places(s, v) /\ f[t(k)] = t(t(k)) /\ t(t(k)) = k
      BY <1>6
    <3> QED BY <3>1
  <2> HIDE DEF f
  <2> QED BY <2>1, <2>2, <2>3 DEF Bijection, Injection, Surjection, IsInjective
<1>8. IsFiniteSet(Places(s, v))
  <2>1. Places(s, v) \subseteq 1 .. Len(a)
    BY <1>1, <1>2 DEF Places
  <2>2. IsFiniteSet(1 .. Len(a))
    BY <1>1, FS_Interval
  <2> QED BY <2>1, <2>2, FS_Subset
<1>9. ExistsBijection(Places(s, v), Places(a, v))
  BY <1>7 DEF ExistsBijection
<1> QED BY <1>3, <1>8, <1>9, FS_Bijection DEF s

\* The loop that shuffles.
LEMMA ShuffleStep == ShuffleInv /\ Calls!Next => ShuffleInv'
<1> SUFFICES ASSUME ShuffleInv, Calls!Next PROVE ShuffleInv'
  OBVIOUS
<1>1. Calls!Shuffle /\ UNCHANGED <<arraysOp, arraysBefore>>
  BY OwnLoop DEF ShuffleInv
<1>2. CASE arraysI >= arraysLen
  <2>1. UNCHANGED <<arraysArr, arraysI, arraysLen>>
    BY <1>1, <1>2 DEF Calls!Shuffle, Calls!Ends
  <2> QED BY <1>1, <2>1 DEF ShuffleInv, Places
<1>3. CASE ~ (arraysI >= arraysLen)
  <2>1. PICK j \in 0 .. arraysLen - 1 : arraysArr' = Calls!Swap(arraysArr, arraysI, j)
    BY <1>1, <1>3 DEF Calls!Shuffle
  <2>2. arraysI' = arraysI + 1 /\ arraysLen' = arraysLen
    BY <1>1, <1>3 DEF Calls!Shuffle
  <2>3. /\ arraysArr \in Seq(Values) /\ arraysI \in 0 .. Len(arraysArr) - 1 /\ j \in 0 .. Len(arraysArr) - 1
    BY <1>3 DEF ShuffleInv
  <2>4. /\ arraysArr' \in Seq(Values) /\ Len(arraysArr') = Len(arraysArr)
        /\ \A v \in Values : Cardinality(Places(arraysArr', v)) = Cardinality(Places(arraysArr, v))
    BY <2>1, <2>3, SwapPermutes
  <2>5. \A v \in Values : Cardinality(Places(arraysArr', v)) = Cardinality(Places(arraysBefore', v))
    BY <1>1, <2>4 DEF ShuffleInv
  <2> QED BY <1>1, <2>2, <2>4, <2>5 DEF ShuffleInv
<1> QED BY <1>2, <1>3

\* One element more: the first of its kind is put in, another is not.
LEMMA UniqOne ==
  ASSUME NEW b \in Seq(Values), NEW a \in Seq(Values), NEW n \in Nat, n < Len(b), UniqTo(b, a, n)
  PROVE  LET s == IF Calls!FirstOf(b, n + 1) THEN Append(a, b[n + 1]) ELSE a
         IN  s \in Seq(Values) /\ UniqTo(b, s, n + 1)
<1>0. b[n + 1] \in Values
  OBVIOUS
<1>1. \A m : m \in Firsts(b, n) => m \in Firsts(b, n + 1)
  BY DEF Firsts
<1>2. \A m \in Firsts(b, n + 1) : m \in Firsts(b, n) \/ m = n + 1
  BY DEF Firsts
<1>3. CASE Calls!FirstOf(b, n + 1)
  <2> DEFINE s == Append(a, b[n + 1])
             L == Len(a) + 1
  <2>1. /\ s \in Seq(Values) /\ Len(s) = L /\ L \in Nat /\ s[L] = b[n + 1]
        /\ \A k \in 1 .. Len(a) : s[k] = a[k]
    BY <1>0
  <2> HIDE DEF s
  <2>2. \A k \in 1 .. L : k \in 1 .. Len(a) \/ k = L
    OBVIOUS
  <2>3. n + 1 \in Firsts(b, n + 1)
    BY <1>3 DEF Calls!FirstOf, Firsts
  <2>4. \A m \in 1 .. n : b[m] # b[n + 1]
    BY <1>3 DEF Calls!FirstOf
  <2>5. \A k \in 1 .. L : \E m \in Firsts(b, n + 1) : s[k] = b[m]
    BY <1>1, <2>1, <2>2, <2>3 DEF UniqTo
  <2>6. \A m \in 1 .. n + 1 : \E k \in 1 .. L : s[k] = b[m]
    <3> SUFFICES ASSUME NEW m \in 1 .. n + 1 PROVE \E k \in 1 .. L : s[k] = b[m]
      OBVIOUS
    <3>1. CASE m = n + 1
      <4>1. L \in 1 .. L
        OBVIOUS
      <4> QED BY <2>1, <3>1, <4>1
    <3>2. CASE m \in 1 .. n
      <4>1. PICK k \in 1 .. Len(a) : a[k] = b[m]
        BY <3>2 DEF UniqTo
      <4>2. k \in 1 .. L
        OBVIOUS
      <4> QED BY <2>1, <4>1, <4>2
    <3> QED BY <3>1, <3>2
  <2>7. ASSUME NEW k \in 1 .. L, NEW l \in 1 .. L, NEW m \in Firsts(b, n + 1), NEW o \in Firsts(b, n + 1),
               k < l, s[k] = b[m], s[l] = b[o]
        PROVE  m < o
    <3>1. k \in 1 .. Len(a) /\ s[k] = a[k]
      BY <2>1, <2>7
    <3>2. PICK p \in Firsts(b, n) : a[k] = b[p]
      BY <3>1 DEF UniqTo
    <3>3. m \in Firsts(b, n)
      <4>1. p \in 1 .. n
        BY DEF Firsts
      <4>2. m # n + 1
        BY <2>4, <2>7, <3>1, <3>2, <4>1
      <4> QED BY <1>2, <4>2
    <3>4. CASE l = L
      <4>1. b[o] = b[n + 1]
        BY <2>1, <2>7, <3>4
      <4>2. o = n + 1
        <5>1. o \in 1 .. n + 1
          BY DEF Firsts
        <5> QED BY <2>4, <4>1, <5>1
      <4> QED BY <3>3, <4>2 DEF Firsts
    <3>5. CASE l \in 1 .. Len(a)
      <4>1. s[l] = a[l]
        BY <2>1, <3>5
      <4>2. PICK q \in Firsts(b, n) : a[l] = b[q]
        BY <3>5 DEF UniqTo
      <4>3. o \in Firsts(b, n)
        <5>1. q \in 1 .. n
          BY DEF Firsts
        <5>2. o # n + 1
          BY <2>4, <2>7, <4>1, <4>2, <5>1
        <5> QED BY <1>2, <5>2
      <4> QED BY <2>7, <3>1, <3>3, <3>5, <4>1, <4>3 DEF UniqTo
    <3> QED BY <2>2, <3>4, <3>5
  <2>8. UniqTo(b, s, n + 1)
    BY <2>1, <2>5, <2>6, <2>7 DEF UniqTo
  <2> QED BY <1>3, <2>1, <2>8 DEF s
<1>4. CASE ~ Calls!FirstOf(b, n + 1)
  <2>1. PICK p \in 1 .. n : b[p] = b[n + 1]
    BY <1>4 DEF Calls!FirstOf
  <2>2. n + 1 \notin Firsts(b, n + 1)
    BY <2>1 DEF Firsts
  <2>3. \A m : m \in Firsts(b, n + 1) <=> m \in Firsts(b, n)
    BY <1>1, <1>2, <2>2
  <2>4. \A m \in 1 .. n + 1 : \E k \in 1 .. Len(a) : a[k] = b[m]
    <3> SUFFICES ASSUME NEW m \in 1 .. n + 1 PROVE \E k \in 1 .. Len(a) : a[k] = b[m]
      OBVIOUS
    <3>1. \E o \in 1 .. n : b[o] = b[m]
      BY <2>1
    <3> QED BY <3>1 DEF UniqTo
  <2>5. UniqTo(b, a, n + 1)
    BY <2>3, <2>4 DEF UniqTo
  <2> QED BY <1>4, <2>5
<1> QED BY <1>3, <1>4

\* The loop that leaves out equals.
LEMMA UniqStep == UniqInv /\ Calls!Next => UniqInv'
<1> SUFFICES ASSUME UniqInv, Calls!Next PROVE UniqInv'
  OBVIOUS
<1>1. Calls!Uniq /\ UNCHANGED <<arraysOp, arraysBefore>> /\ arraysRunning
  BY OwnLoop DEF UniqInv
<1>2. CASE arraysI >= arraysLen
  <2>1. arraysRunning' = FALSE /\ UNCHANGED <<arraysArr, arraysI, arraysLen>>
    BY <1>1, <1>2 DEF Calls!Uniq, Calls!Ends
  <2>2. UniqTo(arraysBefore', arraysArr', arraysI')
    BY <1>1, <2>1 DEF UniqInv
  <2> QED BY <1>1, <1>2, <2>1, <2>2 DEF UniqInv
<1>3. CASE ~ (arraysI >= arraysLen)
  <2> DEFINE s == IF Calls!FirstOf(arraysBefore, arraysI + 1)
                  THEN Append(arraysArr, arraysBefore[arraysI + 1]) ELSE arraysArr
  <2>1. /\ arraysArr' = s /\ arraysI' = arraysI + 1 /\ UNCHANGED <<arraysLen, arraysRunning>>
    BY <1>1, <1>3 DEF Calls!Uniq
  <2>2. /\ arraysBefore \in Seq(Values) /\ arraysArr \in Seq(Values) /\ arraysI \in Nat
        /\ arraysI < Len(arraysBefore) /\ arraysLen = Len(arraysBefore)
        /\ UniqTo(arraysBefore, arraysArr, arraysI)
    BY <1>3 DEF UniqInv
  <2>3. s \in Seq(Values) /\ UniqTo(arraysBefore, s, arraysI + 1)
    BY <2>2, UniqOne
  <2> HIDE DEF s
  <2>4. UniqTo(arraysBefore', arraysArr', arraysI')
    BY <1>1, <2>1, <2>3
  <2> QED BY <1>1, <2>1, <2>2, <2>3, <2>4 DEF UniqInv
<1> QED BY <1>2, <1>3
\* The loop that fills.
LEMMA FillStep == FillInv /\ Calls!Next => FillInv'
<1> SUFFICES ASSUME FillInv, Calls!Next PROVE FillInv'
  OBVIOUS
<1>1. Calls!Fill /\ UNCHANGED <<arraysOp, arraysBefore, arraysStart, arraysEnd>> /\ arraysRunning
  BY OwnLoop DEF FillInv
<1>2. /\ arraysBefore \in Seq(Values) /\ DOMAIN arraysBefore = 1 .. Len(arraysBefore) /\ Len(arraysBefore) \in Nat
      /\ arraysStart \in 0 .. Len(arraysBefore) /\ arraysEnd \in 0 .. Len(arraysBefore)
      /\ arraysLen = Len(arraysBefore) /\ arraysI \in Nat /\ arraysStart <= arraysI
      /\ arraysArr = FilledTo(arraysBefore, arraysStart, arraysI)
      /\ arraysEnd # 0 => arraysI = arraysStart \/ arraysI <= arraysEnd
  BY DEF FillInv
<1>3. CASE arraysI >= Calls!FillEnd(arraysEnd, arraysLen)
  <2>1. arraysRunning' = FALSE /\ UNCHANGED <<arraysArr, arraysI, arraysLen>>
    BY <1>1, <1>3 DEF Calls!Fill, Calls!Ends
  <2>2. arraysArr' = FilledTo(arraysBefore', arraysStart', arraysI')
    BY <1>1, <1>2, <2>1
  <2>3. arraysI' >= Calls!FillEnd(arraysEnd', arraysLen')
    BY <1>1, <1>3, <2>1
  <2> QED BY <1>1, <1>2, <2>1, <2>2, <2>3 DEF FillInv
<1>4. CASE ~ (arraysI >= Calls!FillEnd(arraysEnd, arraysLen))
  <2>1. /\ arraysArr' = [arraysArr EXCEPT ![arraysI + 1] = Calls!Filling]
        /\ arraysI' = arraysI + 1 /\ UNCHANGED <<arraysLen, arraysRunning>>
    BY <1>1, <1>4 DEF Calls!Fill
  <2>2. arraysI < Len(arraysBefore) /\ (arraysEnd # 0 => arraysI + 1 <= arraysEnd)
    BY <1>2, <1>4 DEF Calls!FillEnd
  <2>3. [FilledTo(arraysBefore, arraysStart, arraysI) EXCEPT ![arraysI + 1] = Calls!Filling]
            = FilledTo(arraysBefore, arraysStart, arraysI + 1)
    <3>1. \A m \in DOMAIN arraysBefore :
              (IF m = arraysI + 1 THEN Calls!Filling
               ELSE IF arraysStart < m /\ m <= arraysI THEN Calls!Filling ELSE arraysBefore[m])
              = (IF arraysStart < m /\ m <= arraysI + 1 THEN Calls!Filling ELSE arraysBefore[m])
      BY <1>2
    <3> QED BY <3>1 DEF FilledTo
  <2>4. arraysArr' = FilledTo(arraysBefore', arraysStart', arraysI')
    BY <1>1, <1>2, <2>1, <2>3
  <2>5. arraysI' \in Nat /\ arraysStart' <= arraysI' /\ (arraysEnd' # 0 => arraysI' <= arraysEnd')
    BY <1>1, <1>2, <2>1, <2>2
  <2> QED BY <1>1, <1>2, <2>1, <2>4, <2>5, Zenon DEF FillInv
<1> QED BY <1>3, <1>4

\* The step of a range is a whole number, not 0, of at most three.
LEMMA StepOfRange ==
  ASSUME NEW s \in -3 .. 3, NEW from \in -MaxInt .. MaxInt, NEW to \in -MaxInt .. MaxInt
  PROVE  /\ Stride(from, to, s) \in Int /\ Stride(from, to, s) # 0
         /\ -3 <= Stride(from, to, s) /\ Stride(from, to, s) <= 3
         /\ from \in Int /\ -MaxInt <= from /\ from <= MaxInt
         /\ to \in Int /\ -MaxInt <= to /\ to <= MaxInt
<1>1. /\ from \in Int /\ -MaxInt <= from /\ from <= MaxInt
      /\ to \in Int /\ -MaxInt <= to /\ to <= MaxInt
  BY CallsConstants
<1>2. s \in Int /\ -3 <= s /\ s <= 3
  OBVIOUS
<1> QED BY <1>1, <1>2 DEF Stride

\* One number more.
LEMMA RangeOne ==
  ASSUME NEW from \in Int, NEW to \in Int, NEW m \in Int, NEW a, NEW n,
         RangeTo(from, to, m, a, n), Goes(from, to, m, n)
  PROVE  RangeTo(from, to, m, Append(a, n), n + m)
<1> DEFINE L == Len(a)
           s == Append(a, n)
<1>1. a \in Seq(Int) /\ L \in Nat /\ n = from + L * m
  BY DEF RangeTo
<1> HIDE DEF L
<1>2. L * m \in Int /\ (L + 1) * m = L * m + m
  BY <1>1
<1>3. n \in Int
  BY <1>1, <1>2
<1>4. /\ s \in Seq(Int) /\ Len(s) = L + 1 /\ s[L + 1] = n
      /\ \A k \in 1 .. L : s[k] = a[k]
  BY <1>1, <1>3 DEF L
<1> HIDE DEF s
<1>5. ASSUME NEW k \in 1 .. L + 1 PROVE s[k] = from + (k - 1) * m
  <2>1. CASE k = L + 1
    <3>1. k - 1 = L
      BY <1>1, <2>1
    <3> QED BY <1>1, <1>4, <2>1, <3>1
  <2>2. CASE k \in 1 .. L
    BY <1>4, <2>2 DEF RangeTo, L
  <2> QED BY <1>1, <2>1, <2>2
<1>6. n + m = from + (L + 1) * m
  <2> DEFINE lm == L * m
  <2>1. lm \in Int /\ n = from + lm /\ (L + 1) * m = lm + m
    BY <1>1, <1>2
  <2> HIDE DEF lm
  <2> QED BY <2>1
<1>7. (n + m) - m = n
  BY <1>3
<1>8. \A k \in 1 .. Len(s) : s[k] = from + (k - 1) * m
  BY <1>4, <1>5
<1>9. RangeTo(from, to, m, s, n + m)
  BY <1>4, <1>6, <1>7, <1>8 DEF RangeTo
<1> QED BY <1>9 DEF s

\* The loop that writes a range.
LEMMA RangeLoopStep == RangeInv /\ Calls!Next => RangeInv'
<1> SUFFICES ASSUME RangeInv, Calls!Next PROVE RangeInv'
  OBVIOUS
<1>1. Calls!RangeStep /\ UNCHANGED <<arraysOp, arraysStart, arraysEnd, arraysStep>> /\ arraysRunning
  BY OwnLoop DEF RangeInv
<1> DEFINE m == Stride(arraysStart, arraysEnd, arraysStep)
<1>2. Calls!Step = m
  BY DEF Calls!Step, Stride
<1>3. Goes(arraysStart, arraysEnd, m, arraysLen) <=>
          (arraysStart < arraysEnd) = (Calls!Step > 0) /\ Calls!BeforeEnd(arraysLen, Calls!Step)
  BY <1>2 DEF Goes, Calls!BeforeEnd
<1>4. m \in Int /\ arraysStart \in Int /\ arraysEnd \in Int
  BY StepOfRange DEF RangeInv
<1>5. m' = m
  BY <1>1
<1>6. RangeTo(arraysStart, arraysEnd, m, arraysArr, arraysLen)
  BY DEF RangeInv
<1>7. CASE Goes(arraysStart, arraysEnd, m, arraysLen)
  <2>1. /\ arraysArr' = Append(arraysArr, arraysLen) /\ arraysLen' = arraysLen + m
        /\ arraysRunning' = arraysRunning
    BY <1>1, <1>2, <1>3, <1>7 DEF Calls!RangeStep
  <2>2. RangeTo(arraysStart, arraysEnd, m, Append(arraysArr, arraysLen), arraysLen + m)
    <3> HIDE DEF m
    <3> QED BY <1>4, <1>6, <1>7, RangeOne
  <2>3. RangeTo(arraysStart', arraysEnd', m', arraysArr', arraysLen')
    <3> HIDE DEF m
    <3> QED BY <1>1, <1>5, <2>1, <2>2
  <2> QED BY <1>1, <2>1, <2>3 DEF RangeInv
<1>8. CASE ~ Goes(arraysStart, arraysEnd, m, arraysLen)
  <2>1. arraysRunning' = FALSE /\ UNCHANGED <<arraysArr, arraysLen>>
    BY <1>1, <1>2, <1>3, <1>8 DEF Calls!RangeStep, Calls!Ends
  <2>2. /\ RangeTo(arraysStart', arraysEnd', m', arraysArr', arraysLen')
        /\ ~ Goes(arraysStart', arraysEnd', m', arraysLen')
    BY <1>1, <1>5, <1>6, <1>8, <2>1
  <2> QED BY <1>1, <2>1, <2>2 DEF RangeInv
<1> QED BY <1>7, <1>8

\* One element more is looked at.
LEMMA MostOne ==
  ASSUME NEW b \in Seq(Values), NEW n \in Nat, n < Len(b), NEW most, NEW least, MostTo(b, n, most, least)
  PROVE  MostTo(b, n + 1, IF most < b[n + 1] THEN b[n + 1] ELSE most, Calls!Less(least, b[n + 1]))
<1>0. \A m \in 1 .. Len(b) : b[m] \in Values
  OBVIOUS
<1>1. /\ \A m \in 1 .. Len(b) : b[m] \in Int /\ -Calls!Infinity < b[m] /\ b[m] < Calls!Infinity
      /\ Calls!Infinity \in Int
      /\ n + 1 \in 1 .. Len(b) /\ \A m \in 1 .. n + 1 : m \in 1 .. Len(b)
  <2>1. \A m \in 1 .. Len(b) : b[m] \in Int /\ -Calls!Infinity < b[m] /\ b[m] < Calls!Infinity
    BY <1>0, CallsConstants
  <2>2. n + 1 \in 1 .. Len(b) /\ \A m \in 1 .. n + 1 : m \in 1 .. Len(b)
    OBVIOUS
  <2> QED BY <2>1, <2>2, CallsConstants
<1>2. most \in Int /\ least \in Int
  BY <1>1 DEF MostTo
<1> DEFINE v == b[n + 1]
           above == IF most < v THEN v ELSE most
           below == Calls!Less(least, v)
<1>3. v \in Int /\ -Calls!Infinity < v /\ v < Calls!Infinity
  BY <1>1
<1>4. \A m \in 1 .. n + 1 : m \in 1 .. n \/ m = n + 1
  OBVIOUS
<1>5. \A m \in 1 .. n + 1 : below <= b[m] /\ b[m] <= above
  <2> SUFFICES ASSUME NEW m \in 1 .. n + 1 PROVE below <= b[m] /\ b[m] <= above
    OBVIOUS
  <2>1. b[m] \in Int
    BY <1>1
  <2>2. CASE m = n + 1
    BY <1>2, <1>3, <2>2 DEF Calls!Less
  <2>3. CASE m \in 1 .. n
    <3>1. least <= b[m] /\ b[m] <= most
      BY <2>3 DEF MostTo
    <3> QED BY <1>2, <1>3, <2>1, <3>1 DEF Calls!Less
  <2> QED BY <1>4, <2>2, <2>3
<1>6. n + 1 \in 1 .. n + 1 /\ \A m \in 1 .. n : m \in 1 .. n + 1
  OBVIOUS
<1>7. (\E m \in 1 .. n + 1 : above = b[m]) /\ (\E m \in 1 .. n + 1 : below = b[m])
  <2>1. CASE n = 0 /\ most = -Calls!Infinity /\ least = Calls!Infinity
    <3>1. above = v /\ below = v
      BY <1>1, <1>3, <2>1 DEF Calls!Less
    <3> QED BY <1>6, <3>1
  <2>2. CASE (\E m \in 1 .. n : most = b[m]) /\ (\E m \in 1 .. n : least = b[m])
    <3>1. above \in {v, most} /\ below \in {v, least}
      BY DEF Calls!Less
    <3> HIDE DEF above, below
    <3> QED BY <1>6, <2>2, <3>1
  <2> QED BY <2>1, <2>2 DEF MostTo
<1> QED BY <1>5, <1>7 DEF MostTo

\* The loop that looks for the greatest and the least.
LEMMA MostStep == MostInv /\ Calls!Next => MostInv'
<1> SUFFICES ASSUME MostInv, Calls!Next PROVE MostInv'
  OBVIOUS
<1>1. Calls!Most /\ UNCHANGED <<arraysOp, arraysBefore>> /\ arraysRunning
  BY OwnLoop DEF MostInv
<1>2. CASE arraysI >= arraysLen
  <2>1. arraysRunning' = FALSE /\ UNCHANGED <<arraysArr, arraysI, arraysLen, arraysMax, arraysMin>>
    BY <1>1, <1>2 DEF Calls!Most, Calls!Ends
  <2>2. MostTo(arraysBefore', arraysI', arraysMax', arraysMin')
    BY <1>1, <2>1 DEF MostInv
  <2> QED BY <1>1, <1>2, <2>1, <2>2 DEF MostInv
<1>3. CASE ~ (arraysI >= arraysLen)
  <2>1. /\ arraysMax' = (IF arraysMax < arraysArr[arraysI + 1] THEN arraysArr[arraysI + 1] ELSE arraysMax)
        /\ arraysMin' = Calls!Less(arraysMin, arraysArr[arraysI + 1])
        /\ arraysI' = arraysI + 1 /\ UNCHANGED <<arraysArr, arraysLen, arraysRunning>>
    BY <1>1, <1>3 DEF Calls!Most
  <2>2. /\ arraysBefore \in Seq(Values) /\ arraysArr = arraysBefore /\ arraysI \in Nat
        /\ arraysI < Len(arraysBefore) /\ arraysLen = Len(arraysBefore)
        /\ MostTo(arraysBefore, arraysI, arraysMax, arraysMin)
    BY <1>3 DEF MostInv
  <2>3. MostTo(arraysBefore, arraysI + 1, IF arraysMax < arraysBefore[arraysI + 1] THEN arraysBefore[arraysI + 1] ELSE arraysMax,
               Calls!Less(arraysMin, arraysBefore[arraysI + 1]))
    BY <2>2, MostOne
  <2>4. MostTo(arraysBefore', arraysI', arraysMax', arraysMin')
    BY <1>1, <2>1, <2>2, <2>3
  <2> QED BY <1>1, <2>1, <2>2, <2>4 DEF MostInv
<1> QED BY <1>2, <1>3
-----------------------------------------------------------------------------
(* What is true after the calls *)

\* The instance counts as everywhere.
LEMMA CallsCount == \A S : Calls!Cardinality(S) = Cardinality(S)
BY DEF Calls!Cardinality, Cardinality

\* What was erased.
LEMMA ErasedThose == CallInv => Calls!ErasesThose
<1> SUFFICES ASSUME CallInv PROVE Calls!ErasesThose
  OBVIOUS
<1>1. ASSUME ~ arraysRunning, arraysOp \in {"eraseAll", "eraseIfAll"}
      PROVE  /\ Len(arraysArr) = Calls!Cardinality(Calls!KeptTo(Len(arraysBefore)))
             /\ \A n \in Calls!KeptTo(Len(arraysBefore)) :
                    arraysArr[Calls!Cardinality(Calls!KeptTo(n))] = arraysBefore[n]
  <2>1. ErasingInv
    BY <1>1 DEF CallInv, EraseFirstInv, ShuffleInv, UniqInv, FillInv, RangeInv, MostInv
  <2>2. PICK c \in Nat : Erased(arraysBefore, arraysFn, arraysArr, c, arraysI)
    BY <2>1 DEF ErasingInv
  <2>3. /\ arraysBefore \in Seq(Held) /\ arraysArr \in Seq(Held) /\ arraysI \in Nat
        /\ arraysI >= (IF arraysOp = "eraseIfAll" THEN Len(arraysArr) ELSE Len(arraysBefore))
    BY <1>1, <2>1 DEF ErasingInv
  <2>4. Len(arraysArr) <= Len(arraysBefore)
    <3>1. Rank(arraysBefore, arraysFn, c) \in Nat /\ Rank(arraysBefore, arraysFn, c) <= c
      <4>1. RankFacts(arraysBefore, arraysFn, c)
        BY RankNext
      <4> QED BY <4>1 DEF RankFacts
    <3>2. Len(arraysArr) = Rank(arraysBefore, arraysFn, c) + Len(arraysBefore) - c
      BY <2>2 DEF Erased
    <3> QED BY <2>3, <3>1, <3>2
  <2>5. arraysI >= Len(arraysArr)
    BY <2>3, <2>4
  <2>6. /\ Len(arraysArr) = Rank(arraysBefore, arraysFn, Len(arraysBefore))
        /\ \A m \in Kept(arraysBefore, arraysFn, Len(arraysBefore)) :
               arraysArr[Rank(arraysBefore, arraysFn, m)] = arraysBefore[m]
    BY <2>2, <2>3, <2>5, ErasedAll
  <2>7. \A n : /\ Calls!KeptTo(n) = Kept(arraysBefore, arraysFn, n)
               /\ Calls!Cardinality(Calls!KeptTo(n)) = Rank(arraysBefore, arraysFn, n)
    BY CallsCount DEF Calls!KeptTo, Kept, Rank
  <2> QED BY <2>6, <2>7
<1>2. ASSUME ~ arraysRunning, arraysOp = "eraseIf"
      PROVE  \/ arraysArr = arraysBefore /\ Calls!ToSet(arraysBefore) \cap arraysFn = {}
             \/ \E n \in DOMAIN arraysBefore :
                    /\ arraysBefore[n] \in arraysFn /\ arraysArr = Calls!RemoveAt(arraysBefore, n)
                    /\ \A k \in 1 .. n - 1 : arraysBefore[k] \notin arraysFn
  <2>1. EraseFirstInv
    BY <1>2 DEF CallInv, ErasingInv, ShuffleInv, UniqInv, FillInv, RangeInv, MostInv
  <2>2. /\ arraysBefore \in Seq(Held) /\ DOMAIN arraysBefore = 1 .. Len(arraysBefore) /\ Len(arraysBefore) \in Nat
        /\ arraysI \in Nat /\ arraysI <= Len(arraysBefore) /\ arraysLen = Len(arraysBefore)
        /\ \A k \in 1 .. arraysI : arraysBefore[k] \notin arraysFn
    BY <2>1 DEF EraseFirstInv
  <2>3. CASE arraysArr = arraysBefore /\ arraysI >= arraysLen
    <3> DEFINE n == Len(arraysBefore)
    <3>1. n \in Nat /\ arraysI \in Nat /\ arraysI <= n /\ arraysI >= n
      BY <2>2, <2>3
    <3> HIDE DEF n
    <3>2. arraysI = n
      BY <3>1
    <3> QED BY <2>2, <2>3, <3>2 DEF Calls!ToSet, n
  <2>4. CASE /\ arraysI < arraysLen /\ arraysBefore[arraysI + 1] \in arraysFn
             /\ arraysArr = Calls!RemoveAt(arraysBefore, arraysI + 1)
    <3>1. arraysI + 1 \in DOMAIN arraysBefore /\ \A k \in 1 .. (arraysI + 1) - 1 : arraysBefore[k] \notin arraysFn
      BY <2>2, <2>4
    <3> QED BY <2>4, <3>1
  <2> QED BY <1>2, <2>1, <2>3, <2>4 DEF EraseFirstInv
<1> QED BY <1>1, <1>2 DEF Calls!ErasesThose, Calls!Done

\* What was shuffled.
LEMMA ShuffledThose == CallInv => Calls!ShufflePermutes
<1> SUFFICES ASSUME CallInv, arraysOp = "shuffle" PROVE Calls!ShufflePermutes
  BY DEF Calls!ShufflePermutes
<1>1. ShuffleInv
  BY DEF CallInv, ErasingInv, EraseFirstInv, UniqInv, FillInv, RangeInv, MostInv
<1>2. \A v \in Values : Cardinality(Places(arraysArr, v)) = Cardinality(Places(arraysBefore, v))
  BY <1>1 DEF ShuffleInv
<1> QED BY <1>2, CallsCount DEF Calls!ShufflePermutes, Places

\* The least of a set of places that is not empty.
LEMMA LeastPlace ==
  ASSUME NEW S, NEW m \in S, \A k \in S : k \in Int /\ m <= k
  PROVE  Calls!Min(S) = m
<1>1. \A x \in S : (\A y \in S : x =< y) => x = m
  OBVIOUS
<1> QED BY <1>1 DEF Calls!Min

\* What is left of equals.
LEMMA LeftThose == CallInv => Calls!UniqKeepsFirsts
<1> SUFFICES ASSUME CallInv, ~ arraysRunning, arraysOp = "uniq" PROVE Calls!UniqKeepsFirsts
  BY DEF Calls!UniqKeepsFirsts, Calls!Done
<1> DEFINE b == arraysBefore
           a == arraysArr
           N == Len(arraysBefore)
<1>1. UniqInv
  BY DEF CallInv, ErasingInv, EraseFirstInv, ShuffleInv, FillInv, RangeInv, MostInv
<1>2. /\ b \in Seq(Values) /\ a \in Seq(Values) /\ N \in Nat /\ DOMAIN b = 1 .. N
      /\ DOMAIN a = 1 .. Len(a) /\ Len(a) \in Nat
      /\ UniqTo(b, a, N)
  <2>1. arraysI = N /\ b \in Seq(Values) /\ a \in Seq(Values)
    BY <1>1 DEF UniqInv
  <2> QED BY <1>1, <2>1 DEF UniqInv
<1> HIDE DEF b, a, N
<1>3. \A k \in 1 .. Len(a) : \E m \in Firsts(b, N) : a[k] = b[m]
  BY <1>2 DEF UniqTo
<1>4. \A m \in 1 .. N : \E k \in 1 .. Len(a) : a[k] = b[m]
  BY <1>2 DEF UniqTo
<1>5. \A k, l \in 1 .. Len(a) : \A m, o \in Firsts(b, N) : k < l /\ a[k] = b[m] /\ a[l] = b[o] => m < o
  BY <1>2 DEF UniqTo
<1>6. \A m \in Firsts(b, N) : m \in 1 .. N
  BY DEF Firsts
<1>7. ASSUME NEW k \in 1 .. Len(a), NEW l \in 1 .. Len(a), a[k] = a[l] PROVE k = l
  <2>1. PICK m \in Firsts(b, N) : a[k] = b[m]
    BY <1>3
  <2>2. ~ (m < m)
    BY <1>2, <1>6
  <2>3. ~ (k < l)
    BY <1>5, <1>7, <2>1, <2>2
  <2>4. ~ (l < k)
    BY <1>5, <1>7, <2>1, <2>2
  <2> QED BY <1>2, <2>3, <2>4
<1>8. Calls!IsInjective(a)
  BY <1>2, <1>7 DEF Calls!IsInjective
<1>9. Calls!ToSet(a) = Calls!ToSet(b)
  <2>1. \A x \in Calls!ToSet(a) : x \in Calls!ToSet(b)
    BY <1>2, <1>3, <1>6 DEF Calls!ToSet
  <2>2. \A x \in Calls!ToSet(b) : x \in Calls!ToSet(a)
    BY <1>2, <1>4 DEF Calls!ToSet
  <2> QED BY <2>1, <2>2
<1> DEFINE place(v) == Calls!Min({n \in DOMAIN b : b[n] = v})
<1>10. ASSUME NEW m \in Firsts(b, N) PROVE place(b[m]) = m
  <2> DEFINE S == {n \in DOMAIN b : b[n] = b[m]}
  <2>1. m \in S
    BY <1>2, <1>6
  <2>2. \A k \in S : k \in Int /\ m <= k
    BY <1>2, <1>6 DEF Firsts
  <2> HIDE DEF S
  <2>3. Calls!Min(S) = m
    BY <2>1, <2>2, LeastPlace
  <2> QED BY <2>3 DEF S
<1> HIDE DEF place
<1>11. ASSUME NEW k \in DOMAIN a, NEW l \in DOMAIN a, k < l PROVE place(a[k]) < place(a[l])
  <2>1. k \in 1 .. Len(a) /\ l \in 1 .. Len(a)
    BY <1>2
  <2>2. PICK m \in Firsts(b, N) : a[k] = b[m]
    BY <1>3, <2>1
  <2>3. PICK o \in Firsts(b, N) : a[l] = b[o]
    BY <1>3, <2>1
  <2>4. m < o
    BY <1>5, <1>11, <2>1, <2>2, <2>3
  <2> QED BY <1>10, <2>2, <2>3, <2>4
<1> QED BY <1>8, <1>9, <1>11 DEF a, b, place, Calls!UniqKeepsFirsts

\* What was filled.
LEMMA FilledThose == CallInv => Calls!FillsThose
<1> SUFFICES ASSUME CallInv, ~ arraysRunning, arraysOp = "fill", arraysEnd # 0
             PROVE  arraysArr = [n \in DOMAIN arraysBefore |->
                                    IF arraysStart < n /\ n <= arraysEnd THEN Calls!Filling ELSE arraysBefore[n]]
  BY DEF Calls!FillsThose, Calls!Done
<1>1. FillInv
  BY DEF CallInv, ErasingInv, EraseFirstInv, ShuffleInv, UniqInv, RangeInv, MostInv
<1>2. /\ arraysArr = FilledTo(arraysBefore, arraysStart, arraysI)
      /\ arraysI \in Nat /\ arraysStart \in Nat /\ arraysEnd \in Nat
      /\ DOMAIN arraysBefore \subseteq Nat
      /\ arraysI >= arraysEnd /\ (arraysI = arraysStart \/ arraysI <= arraysEnd)
  BY <1>1 DEF FillInv, Calls!FillEnd
<1>3. \A n \in DOMAIN arraysBefore :
          (arraysStart < n /\ n <= arraysI) <=> (arraysStart < n /\ n <= arraysEnd)
  BY <1>2
<1> QED BY <1>2, <1>3 DEF FilledTo

\* What divides by a number of at most three without a remainder is a multiple of it.
LEMMA Multiple ==
  ASSUME NEW d \in Int, NEW m \in Int, m # 0, -3 <= m, m <= 3
  PROVE  d % (IF m > 0 THEN m ELSE -m) = 0 <=> \E q \in Int : d = q * m
<1> DEFINE w == IF m > 0 THEN m ELSE -m
<1>1. w \in 1 .. 3 /\ (w = m \/ w = (-1) * m)
  OBVIOUS
<1>2. ASSUME NEW n \in 1 .. 3 PROVE d % n = 0 <=> \E q \in Int : d = q * n
  <2>1. CASE n = 1
    BY <2>1
  <2>2. CASE n = 2
    BY <2>2
  <2>3. CASE n = 3
    BY <2>3
  <2> QED BY <2>1, <2>2, <2>3
<1>3. (\E q \in Int : d = q * w) <=> (\E q \in Int : d = q * m)
  <2>1. \A q \in Int : (-1) * q \in Int /\ q * ((-1) * m) = ((-1) * q) * m /\ ((-1) * q) * ((-1) * m) = q * m
    OBVIOUS
  <2>2. CASE w = m
    BY <2>2
  <2>3. CASE w = (-1) * m
    <3>1. ASSUME NEW q \in Int, d = q * w PROVE \E r \in Int : d = r * m
      <4>1. d = ((-1) * q) * m /\ (-1) * q \in Int
        BY <2>1, <2>3, <3>1
      <4> QED BY <4>1
    <3>2. ASSUME NEW q \in Int, d = q * m PROVE \E r \in Int : d = r * w
      <4>1. d = ((-1) * q) * w /\ (-1) * q \in Int
        BY <2>1, <2>3, <3>2
      <4> QED BY <4>1
    <3> QED BY <3>1, <3>2
  <2> QED BY <1>1, <2>2, <2>3
<1> HIDE DEF w
<1>4. d % w = 0 <=> \E q \in Int : d = q * w
  BY <1>1, <1>2
<1> QED BY <1>3, <1>4 DEF w
RangedOf(from, to, m, a, v) ==
    (\E k \in 1 .. Len(a) : v = a[k]) <=>
        /\ (from <= v /\ v < to) \/ (to < v /\ v <= from)
        /\ (from < to) = (m > 0)
        /\ \E q \in Int : v - from = q * m

\* In numbers: the multiples of the step between the start and the end are as many as the
\* range has, if the next is not before the end.
LEMMA RangeIsAll ==
  ASSUME NEW from \in Int, NEW to \in Int, NEW m \in Int, m # 0, NEW a,
         RangeTo(from, to, m, a, from + Len(a) * m), ~ Goes(from, to, m, from + Len(a) * m),
         NEW v \in Int
  PROVE  RangedOf(from, to, m, a, v)
<1> DEFINE L == Len(a)
           Between == (from <= v /\ v < to) \/ (to < v /\ v <= from)
<1>1. a \in Seq(Int) /\ L \in Nat /\ \A k \in 1 .. L : a[k] = from + (k - 1) * m
  BY DEF RangeTo
<1>2. L > 0 => (from < to) = (m > 0) /\ (IF m > 0 THEN from + L * m - m < to ELSE from + L * m - m > to)
  BY DEF RangeTo, Goes
<1>3. (from < to) = (m > 0) => (IF m > 0 THEN from + L * m >= to ELSE from + L * m <= to)
  <2>1. from + L * m \in Int
    BY <1>1
  <2> QED BY <2>1 DEF Goes
<1> HIDE DEF L
<1>4. ASSUME NEW k \in 1 .. L, v = from + (k - 1) * m
      PROVE  Between /\ (from < to) = (m > 0) /\ \E q \in Int : v - from = q * m
  <2>1. L > 0 /\ k - 1 \in Int /\ 0 <= k - 1 /\ k <= L
    BY <1>1
  <2>2. (k - 1) * m \in Int /\ (L - 1) * m \in Int /\ from + L * m - m = from + (L - 1) * m
    BY <1>1, <2>1
  <2>3. v - from = (k - 1) * m
    BY <1>4, <2>2
  <2>4. CASE m > 0
    <3>1. 0 <= (k - 1) * m
      BY <2>1, <2>4
    <3>2. (k - 1) * m <= (L - 1) * m
      <4>1. 0 <= (L - k) * m
        BY <1>1, <2>1, <2>4
      <4>2. (L - 1) * m - (k - 1) * m = (L - k) * m
        BY <1>1
      <4> QED BY <2>2, <4>1, <4>2
    <3>3. from + (L - 1) * m < to
      BY <1>2, <2>1, <2>2, <2>4
    <3>4. from <= v /\ v < to
      BY <1>4, <2>2, <3>1, <3>2, <3>3
    <3> QED BY <1>2, <2>1, <2>3, <3>4
  <2>5. CASE ~ (m > 0)
    <3>1. (k - 1) * m <= 0
      <4>1. 0 <= (k - 1) * ((-1) * m)
        BY <2>1, <2>5
      <4>2. (k - 1) * ((-1) * m) = (-1) * ((k - 1) * m)
        BY <2>1
      <4> QED BY <2>2, <4>1, <4>2
    <3>2. (L - 1) * m <= (k - 1) * m
      <4>1. 0 <= (L - k) * ((-1) * m)
        BY <1>1, <2>1, <2>5
      <4>2. (k - 1) * m - (L - 1) * m = (L - k) * ((-1) * m)
        BY <1>1
      <4> QED BY <2>2, <4>1, <4>2
    <3>3. from + (L - 1) * m > to
      BY <1>2, <2>1, <2>2, <2>5
    <3>4. to < v /\ v <= from
      BY <1>4, <2>2, <3>1, <3>2, <3>3
    <3> QED BY <1>2, <2>1, <2>3, <3>4
  <2> QED BY <2>4, <2>5
<1>5. ASSUME Between, (from < to) = (m > 0), NEW q \in Int, v - from = q * m
      PROVE  \E k \in 1 .. L : v = from + (k - 1) * m
  <2>1. q * m \in Int /\ L * m \in Int /\ v = from + q * m
    <3>1. q * m \in Int /\ L * m \in Int
      BY <1>1
    <3> QED BY <1>5, <3>1
  <2>2. 0 <= q /\ q < L
    <3>1. CASE m > 0
      <4>1. 0 <= q * m
        BY <1>5, <2>1, <3>1
      <4>2. q * m < L * m
        BY <1>3, <1>5, <2>1, <3>1
      <4>3. q < 0 => q * m < 0
        BY <3>1
      <4>4. L <= q => L * m <= q * m
        <5>1. L <= q => 0 <= (q - L) * m
          BY <1>1, <3>1
        <5>2. (q - L) * m = q * m - L * m
          BY <1>1
        <5> QED BY <2>1, <5>1, <5>2
      <4> QED BY <1>1, <2>1, <4>1, <4>2, <4>3, <4>4
    <3>2. CASE ~ (m > 0)
      <4>1. q * m <= 0
        BY <1>5, <2>1, <3>2
      <4>2. L * m < q * m
        BY <1>3, <1>5, <2>1, <3>2
      <4>3. q < 0 => q * m > 0
        <5>1. q < 0 => 0 < ((-1) * q) * ((-1) * m)
          BY <3>2
        <5>2. ((-1) * q) * ((-1) * m) = q * m
          OBVIOUS
        <5> QED BY <5>1, <5>2
      <4>4. L <= q => q * m <= L * m
        <5>1. L <= q => 0 <= (q - L) * ((-1) * m)
          BY <1>1, <3>2
        <5>2. (q - L) * ((-1) * m) = L * m - q * m
          BY <1>1
        <5> QED BY <2>1, <5>1, <5>2
      <4> QED BY <1>1, <2>1, <4>1, <4>2, <4>3, <4>4
    <3> QED BY <3>1, <3>2
  <2>3. q + 1 \in 1 .. L /\ (q + 1) - 1 = q
    BY <1>1, <2>2
  <2> QED BY <2>1, <2>3
<1> HIDE DEF Between
<1>6. (\E k \in 1 .. L : v = a[k]) <=> (\E k \in 1 .. L : v = from + (k - 1) * m)
  BY <1>1
<1> QED BY <1>4, <1>5, <1>6 DEF Between, L, RangedOf

\* What a range has.
LEMMA RangedThose == CallInv => Calls!RangeIsThose
<1> SUFFICES ASSUME CallInv, ~ arraysRunning, arraysOp = "range" PROVE Calls!RangeIsThose
  BY DEF Calls!RangeIsThose, Calls!Done
<1> DEFINE m == Stride(arraysStart, arraysEnd, arraysStep)
           a == arraysArr
           from == arraysStart
           to == arraysEnd
           between(v) == (from <= v /\ v < to) \/ (to < v /\ v <= from)
           width == IF m > 0 THEN m ELSE -m
<1>1. RangeInv
  BY DEF CallInv, ErasingInv, EraseFirstInv, ShuffleInv, UniqInv, FillInv, MostInv
<1>2. Calls!Step = m
  BY DEF Calls!Step, Stride
<1>3. /\ m \in Int /\ m # 0 /\ -3 <= m /\ m <= 3
      /\ from \in Int /\ -MaxInt <= from /\ from <= MaxInt
      /\ to \in Int /\ -MaxInt <= to /\ to <= MaxInt
  BY <1>1, StepOfRange DEF RangeInv
<1>4. /\ RangeTo(from, to, m, a, from + Len(a) * m) /\ ~ Goes(from, to, m, from + Len(a) * m)
      /\ a \in Seq(Int) /\ DOMAIN a = 1 .. Len(a)
      /\ \A k \in 1 .. Len(a) : a[k] = from + (k - 1) * m
  <2>1. RangeTo(from, to, m, a, arraysLen) /\ ~ Goes(from, to, m, arraysLen)
    BY <1>1 DEF RangeInv
  <2>2. /\ arraysLen = from + Len(a) * m /\ a \in Seq(Int)
        /\ \A k \in 1 .. Len(a) : a[k] = from + (k - 1) * m
    <3> HIDE DEF m, a, from, to
    <3> QED BY <2>1 DEF RangeTo
  <2> HIDE DEF m, a, from, to
  <2> QED BY <2>1, <2>2
<1> HIDE DEF m, a, from, to
<1>5. ASSUME NEW v \in Int
      PROVE  (\E k \in 1 .. Len(a) : v = a[k]) <=> between(v) /\ (from < to) = (m > 0) /\ (v - from) % width = 0
  <2>1. (\E k \in 1 .. Len(a) : v = a[k]) <=> between(v) /\ (from < to) = (m > 0) /\ \E q \in Int : v - from = q * m
    <3>1. RangedOf(from, to, m, a, v)
      BY <1>3, <1>4, RangeIsAll
    <3> QED BY <3>1 DEF RangedOf
  <2>2. (v - from) % width = 0 <=> \E q \in Int : v - from = q * m
    <3>1. v - from \in Int
      BY <1>3
    <3> QED BY <1>3, <3>1, Multiple
  <2> HIDE DEF between, width
  <2> QED BY <2>1, <2>2
<1>6. \A k \in 1 .. Len(a) : a[k] \in Int
  BY <1>4
<1>7. \A v \in Int : between(v) => v \in -MaxInt .. MaxInt
  BY <1>3, CallsConstants
<1>8. Calls!ToSet(a) = {v \in -MaxInt .. MaxInt : between(v) /\ (from < to) = (m > 0) /\ (v - from) % width = 0}
  <2>1. \A v \in -MaxInt .. MaxInt : v \in Int
    BY CallsConstants
  <2>2. \A v : v \in Calls!ToSet(a) <=> v \in Int /\ \E k \in 1 .. Len(a) : v = a[k]
    BY <1>4, <1>6 DEF Calls!ToSet
  <2> HIDE DEF between, width
  <2>3. \A v : v \in Calls!ToSet(a) <=>
                   v \in -MaxInt .. MaxInt /\ between(v) /\ (from < to) = (m > 0) /\ (v - from) % width = 0
    BY <1>5, <1>7, <2>1, <2>2
  <2> QED BY <2>3
<1>9. \A n \in DOMAIN a : a[n] = from + (n - 1) * m
  BY <1>4
<1> QED BY <1>2, <1>8, <1>9 DEF a, from, to, Calls!RangeIsThose

\* What is most and least.
LEMMA MostOfThose == CallInv => Calls!MostIsExtreme
<1> SUFFICES ASSUME CallInv, ~ arraysRunning, arraysOp = "most", arraysBefore # <<>>
             PROVE  /\ arraysMax = Calls!Max(Calls!ToSet(arraysBefore))
                    /\ arraysMin = Calls!Min(Calls!ToSet(arraysBefore))
  BY DEF Calls!MostIsExtreme, Calls!Done
<1> DEFINE S == Calls!ToSet(arraysBefore)
           N == Len(arraysBefore)
<1>1. MostInv
  BY DEF CallInv, ErasingInv, EraseFirstInv, ShuffleInv, UniqInv, FillInv, RangeInv
<1>2. /\ arraysBefore \in Seq(Values) /\ N \in Nat /\ N # 0 /\ arraysI = N
      /\ DOMAIN arraysBefore = 1 .. N
      /\ \A m \in 1 .. N : arraysBefore[m] \in Int
  <2>1. arraysBefore \in Seq(Values)
    BY <1>1 DEF MostInv
  <2>2. arraysI \in Nat /\ arraysI <= N /\ arraysI >= N /\ N \in Nat
    BY <1>1, <2>1 DEF MostInv
  <2>3. arraysI = N
    <3> HIDE DEF N
    <3> QED BY <2>2
  <2>4. N # 0
    BY <2>1
  <2>5. \A m \in 1 .. N : arraysBefore[m] \in Values
    BY <2>1
  <2>6. \A m \in 1 .. N : arraysBefore[m] \in Int
    BY <2>5, CallsConstants
  <2>7. N \in Nat /\ DOMAIN arraysBefore = 1 .. N
    BY <2>1
  <2> QED BY <2>1, <2>3, <2>4, <2>6, <2>7
<1>3. MostTo(arraysBefore, N, arraysMax, arraysMin)
  BY <1>1, <1>2 DEF MostInv
<1> HIDE DEF N
<1>4. /\ arraysMax \in S /\ \A x \in S : x \in Int /\ x <= arraysMax
      /\ arraysMin \in S /\ \A x \in S : x \in Int /\ arraysMin <= x
  <2>1. S = {arraysBefore[m] : m \in 1 .. N}
    BY <1>2 DEF Calls!ToSet
  <2> HIDE DEF S
  <2> QED BY <1>2, <1>3, <2>1 DEF MostTo
<1> HIDE DEF S
<1>5. arraysMin = Calls!Min(S)
  BY <1>4, LeastPlace
<1>6. arraysMax = Calls!Max(S)
  <2>1. \A x \in S : (\A y \in S : x >= y) => x = arraysMax
    BY <1>4
  <2>2. \A y \in S : arraysMax >= y
    BY <1>4
  <2> QED BY <1>4, <2>1, <2>2 DEF Calls!Max
<1> QED BY <1>5, <1>6 DEF S

\* In every state of a call that is over the array is what the call says (erase, eraseAll,
\* eraseIf, eraseIfAll, shuffle, uniq, fill, range and most of Array.prototype).
THEOREM LoopsAlwaysComputeThose == Spec => []LoopsComputeThose
<1> DEFINE I == part = "arrays" => CallInv
<1>1. Init => I
  BY CallStart DEF Init
<1>2. I /\ [Next]_vars => I'
  <2> SUFFICES ASSUME I, [Next]_vars, part' = "arrays" PROVE CallInv'
    OBVIOUS
  <2>1. part = "arrays" /\ CallInv
    BY DEF Next, vars
  <2>2. CASE UNCHANGED arraysVars
    BY <2>1, <2>2 DEF arraysVars, CallInv, ErasingInv, EraseFirstInv, ShuffleInv, UniqInv, FillInv, RangeInv, MostInv
  <2>3. CASE Calls!Next
    BY <2>1, <2>3, ErasingStep, EraseFirstStep, ShuffleStep, UniqStep, FillStep, RangeLoopStep, MostStep DEF CallInv
  <2> QED BY <2>1, <2>2, <2>3 DEF Next, vars
<1>3. I => LoopsComputeThose
  BY ErasedThose, ShuffledThose, LeftThose, RangedThose, FilledThose, MostOfThose DEF LoopsComputeThose
<1> QED BY <1>1, <1>2, <1>3, PTL DEF Spec

-----------------------------------------------------------------------------
(* Shapes that collide *)

\* Both shapes are of whole numbers within the bounds.
ShapeTypes ==
    /\ rect \in Shapes!Rects
    /\ circle \in [x : Shapes!Pos, y : Shapes!Pos, radius : Shapes!Sizes]

\* Coordinates, sizes and radii are whole numbers.
LEMMA ShapesAreWhole ==
  /\ MaxPos \in Nat /\ MaxSize \in Nat /\ MaxSize > 0
  /\ \A n \in Shapes!Pos : n \in Int /\ -MaxPos <= n /\ n <= MaxPos
  /\ \A n \in Shapes!Sizes : n \in Int /\ 0 <= n /\ n <= MaxSize
BY ShapesAssumption DEF Shapes!GeometryAssumption, Shapes!Pos, Shapes!Sizes

\* The shapes of the start are of that type.
LEMMA ShapesStart == Init => ShapeTypes
<1> SUFFICES ASSUME Init PROVE ShapeTypes
  OBVIOUS
<1>1. 0 \in Shapes!Pos /\ 0 \in Shapes!Sizes /\ 1 \in Shapes!Sizes
  BY ShapesAreWhole DEF Shapes!Pos, Shapes!Sizes
<1> QED BY <1>1 DEF Init, Shapes!Init, Shapes!Rect, Shapes!Rects, ShapeTypes

\* Whatever is done to the shapes leaves them of that type.
LEMMA ShapesStep == ShapeTypes /\ [Next]_vars => ShapeTypes'
<1> SUFFICES ASSUME ShapeTypes, [Next]_vars PROVE ShapeTypes'
  OBVIOUS
<1>1. CASE UNCHANGED geometryVars
  BY <1>1 DEF geometryVars, ShapeTypes, Shapes!Rects, Shapes!Pos, Shapes!Sizes
<1>2. CASE Shapes!Next
  <2>1. CASE \E v \in Shapes!Pos : Shapes!SetLeft(v) \/ Shapes!SetTop(v) \/ Shapes!SetRight(v) \/ Shapes!SetBottom(v)
    BY <2>1 DEF ShapeTypes, Shapes!SetLeft, Shapes!SetTop, Shapes!SetRight, Shapes!SetBottom, Shapes!SetRect,
                Shapes!Rects, Shapes!Pos, Shapes!Sizes
  <2>2. CASE \E t, r, b, l \in {-1, 1} : Shapes!Padding(t, r, b, l)
    BY <2>2 DEF ShapeTypes, Shapes!Padding, Shapes!SetRect, Shapes!Rects, Shapes!Pos, Shapes!Sizes
  <2>3. CASE \E dx, dy \in {-1, 0, 1} : Shapes!MoveBy(dx, dy)
    BY <2>3 DEF ShapeTypes, Shapes!MoveBy, Shapes!SetRect, Shapes!Rects, Shapes!Pos, Shapes!Sizes
  <2>4. CASE \E v \in Shapes!Vectors, r \in Shapes!Sizes : Shapes!SetCircle(v, r)
    BY <2>4 DEF ShapeTypes, Shapes!SetCircle, Shapes!Vectors, Shapes!Rects, Shapes!Pos, Shapes!Sizes
  <2> QED BY <1>2, <2>1, <2>2, <2>3, <2>4 DEF Shapes!Next
<1> QED BY <1>1, <1>2 DEF Next, vars

\* Setting an edge moves that edge, and the other three stay.
LEMMA EdgeMoves ==
  ASSUME ShapeTypes, NEW v \in Shapes!Pos,
         Shapes!SetLeft(v) \/ Shapes!SetTop(v) \/ Shapes!SetRight(v) \/ Shapes!SetBottom(v)
  PROVE  /\ IF asked'[1] = "left" THEN rect'.x = asked'[2] ELSE rect'.x = rect.x
         /\ IF asked'[1] = "right" THEN Shapes!Right(rect)' = asked'[2] ELSE Shapes!Right(rect)' = Shapes!Right(rect)
         /\ IF asked'[1] = "top" THEN rect'.y = asked'[2] ELSE rect'.y = rect.y
         /\ IF asked'[1] = "bottom" THEN Shapes!Bottom(rect)' = asked'[2] ELSE Shapes!Bottom(rect)' = Shapes!Bottom(rect)
<1>1. /\ v \in Int /\ rect.x \in Int /\ rect.y \in Int /\ rect.width \in Int /\ rect.height \in Int
      /\ rect = [x |-> rect.x, y |-> rect.y, width |-> rect.width, height |-> rect.height]
  BY ShapesAreWhole DEF ShapeTypes, Shapes!Rects
<1>2. CASE Shapes!SetLeft(v)
  <2>1. /\ asked' = <<"left", v>>
        /\ rect' = [x |-> v, y |-> rect.y, width |-> rect.width - (v - rect.x), height |-> rect.height]
    BY <1>1, <1>2 DEF Shapes!SetLeft, Shapes!SetRect, Shapes!WithLeft
  <2> QED BY <1>1, <2>1 DEF Shapes!Right, Shapes!Bottom
<1>3. CASE Shapes!SetTop(v)
  <2>1. /\ asked' = <<"top", v>>
        /\ rect' = [x |-> rect.x, y |-> v, width |-> rect.width, height |-> rect.height - (v - rect.y)]
    BY <1>1, <1>3 DEF Shapes!SetTop, Shapes!SetRect, Shapes!WithTop
  <2> QED BY <1>1, <2>1 DEF Shapes!Right, Shapes!Bottom
<1>4. CASE Shapes!SetRight(v)
  <2>1. /\ asked' = <<"right", v>>
        /\ rect' = [x |-> rect.x, y |-> rect.y, width |-> rect.width + (v - Shapes!Right(rect)), height |-> rect.height]
    BY <1>1, <1>4 DEF Shapes!SetRight, Shapes!SetRect, Shapes!WithRight
  <2> QED BY <1>1, <2>1 DEF Shapes!Right, Shapes!Bottom
<1>5. CASE Shapes!SetBottom(v)
  <2>1. /\ asked' = <<"bottom", v>>
        /\ rect' = [x |-> rect.x, y |-> rect.y, width |-> rect.width, height |-> rect.height + (v - Shapes!Bottom(rect))]
    BY <1>1, <1>5 DEF Shapes!SetBottom, Shapes!SetRect, Shapes!WithBottom
  <2> QED BY <1>1, <2>1 DEF Shapes!Right, Shapes!Bottom
<1> QED BY <1>2, <1>3, <1>4, <1>5

\* So no step of the room, of an array or of the shapes moves an edge that was not set.
LEMMA EdgesStayStep ==
  ASSUME ShapeTypes, [Next]_vars
  PROVE  [asked' # asked =>
            LET moved(edge, was, is) == IF asked'[1] = edge THEN is = asked'[2] ELSE is = was
            IN  asked'[1] \in {"left", "right", "top", "bottom"} =>
                    /\ moved("left", rect.x, rect'.x)
                    /\ moved("right", Shapes!Right(rect), Shapes!Right(rect'))
                    /\ moved("top", rect.y, rect'.y)
                    /\ moved("bottom", Shapes!Bottom(rect), Shapes!Bottom(rect'))]_Shapes!vars
<1>1. CASE UNCHANGED geometryVars
  BY <1>1 DEF geometryVars, Shapes!vars
<1>2. CASE Shapes!Next
  <2>1. CASE \E v \in Shapes!Pos : Shapes!SetLeft(v) \/ Shapes!SetTop(v) \/ Shapes!SetRight(v) \/ Shapes!SetBottom(v)
    BY <2>1, EdgeMoves
  <2>2. CASE \E t, r, b, l \in {-1, 1} : Shapes!Padding(t, r, b, l)
    <3>1. asked' = <<"padding", 0>>
      BY <2>2 DEF Shapes!Padding, Shapes!SetRect
    <3> QED BY <3>1
  <2>3. CASE \E dx, dy \in {-1, 0, 1} : Shapes!MoveBy(dx, dy)
    <3>1. asked' = <<"none", 0>>
      BY <2>3 DEF Shapes!MoveBy, Shapes!SetRect
    <3> QED BY <3>1
  <2>4. CASE \E v \in Shapes!Vectors, r \in Shapes!Sizes : Shapes!SetCircle(v, r)
    BY <2>4 DEF Shapes!SetCircle
  <2> QED BY <1>2, <2>1, <2>2, <2>3, <2>4 DEF Shapes!Next
<1> QED BY <1>1, <1>2 DEF Next, vars

\* Two rectangles that overlap share the cell at the later of their left edges and the
\* later of their top edges; a cell that two share is one where they overlap.
LEMMA RectsShare == ShapeTypes => Shapes!RectsShareArea
<1> SUFFICES ASSUME ShapeTypes, rect.width > 0, rect.height > 0,
                    NEW s \in Shapes!Rects, s.width > 0, s.height > 0
             PROVE  Shapes!TestRectRect(rect, s) <=> Shapes!Cells(rect) \cap Shapes!Cells(s) # {}
  BY DEF Shapes!RectsShareArea
<1> DEFINE Side == -MaxPos .. MaxPos + MaxSize
           Later(m, n) == IF m < n THEN n ELSE m
           v == [x |-> Later(rect.x, s.x), y |-> Later(rect.y, s.y)]
<1>1. /\ \A r \in {rect, s} : /\ r.x \in Int /\ r.y \in Int /\ r.width \in Int /\ r.height \in Int
                              /\ -MaxPos <= r.x /\ r.x <= MaxPos /\ -MaxPos <= r.y /\ r.y <= MaxPos
      /\ MaxPos \in Nat /\ MaxSize \in Nat
  BY ShapesAreWhole DEF ShapeTypes, Shapes!Rects
<1>2. \A r \in {rect, s} : \A c :
        c \in Shapes!Cells(r) <=> /\ c \in [x : Side, y : Side]
                                  /\ r.x <= c.x /\ c.x < r.x + r.width
                                  /\ r.y <= c.y /\ c.y < r.y + r.height
  BY DEF Shapes!Cells, Shapes!Right, Shapes!Bottom
<1>3. Shapes!TestRectRect(rect, s) <=> /\ rect.x < s.x + s.width /\ rect.x + rect.width > s.x
                                       /\ rect.y < s.y + s.height /\ rect.y + rect.height > s.y
  BY DEF Shapes!TestRectRect, Shapes!Right, Shapes!Bottom
<1>4. ASSUME Shapes!TestRectRect(rect, s) PROVE Shapes!Cells(rect) \cap Shapes!Cells(s) # {}
  <2>1. v.x = Later(rect.x, s.x) /\ v.y = Later(rect.y, s.y)
    OBVIOUS
  <2>2. v.x \in Side /\ v.y \in Side
    BY <1>1, <2>1
  <2>3. v \in [x : Side, y : Side]
    BY <2>1, <2>2
  <2>4. \A r \in {rect, s} : r.x <= v.x /\ v.x < r.x + r.width /\ r.y <= v.y /\ v.y < r.y + r.height
    BY <1>1, <1>3, <1>4, <2>1
  <2>5. v \in Shapes!Cells(rect) /\ v \in Shapes!Cells(s)
    <3> HIDE DEF v, Side
    <3> QED BY <1>2, <2>3, <2>4
  <2> QED BY <2>5
<1>5. ASSUME NEW c \in Shapes!Cells(rect) \cap Shapes!Cells(s) PROVE Shapes!TestRectRect(rect, s)
  <2>1. c.x \in Int /\ c.y \in Int
    BY <1>1, <1>2
  <2>2. \A r \in {rect, s} : r.x <= c.x /\ c.x < r.x + r.width /\ r.y <= c.y /\ c.y < r.y + r.height
    BY <1>2
  <2> QED BY <1>1, <1>3, <2>1, <2>2
<1> QED BY <1>4, <1>5

\* A square is within that of a radius exactly if the number is within the radius.
LEMMA SquareWithin ==
  ASSUME NEW a \in Int, NEW r \in Int, 0 <= r
  PROVE  a * a <= r * r <=> -r <= a /\ a <= r
<1>1. CASE -r <= a /\ a <= r
  <2>1. 0 <= r - a /\ 0 <= r + a
    BY <1>1
  <2>2. 0 <= (r - a) * (r + a)
    BY <2>1
  <2> QED BY <1>1, <2>2
<1>2. CASE a > r
  <2>1. 0 < (a - r) * (a + r)
    BY <1>2
  <2> QED BY <1>2, <2>1
<1>3. CASE a < -r
  <2>1. 0 < ((-r) - a) * (r - a)
    BY <1>3
  <2> QED BY <1>3, <2>1
<1> QED BY <1>1, <1>2, <1>3

\* The nearest point of an interval is no farther than either of its ends, and it is the
\* number itself inside, and an end outside.
LEMMA NearestIsNear ==
  ASSUME NEW v \in Int, NEW low \in Int, NEW high \in Int, low <= high
  PROVE  LET n == Shapes!Nearest(v, low, high)
         IN  /\ n \in Int /\ low <= n /\ n <= high
             /\ low <= v /\ v <= high => n = v
             /\ v < low => n = low
             /\ high < v => n = high
             /\ \A e \in {low, high} : (v - n) * (v - n) <= (v - e) * (v - e)
<1> DEFINE n == Shapes!Nearest(v, low, high)
<1>1. /\ n \in Int /\ low <= n /\ n <= high
      /\ low <= v /\ v <= high => n = v
      /\ v < low => n = low
      /\ high < v => n = high
  BY DEF Shapes!Nearest
<1>2. \A e \in {low, high} : (v - n) * (v - n) <= (v - e) * (v - e)
  <2> SUFFICES ASSUME NEW e \in {low, high} PROVE (v - n) * (v - n) <= (v - e) * (v - e)
    OBVIOUS
  <2> DEFINE d == v - e
  <2>1. d \in Int /\ n \in Int
    BY <1>1
  <2>2. CASE low <= v /\ v <= high
    <3>1. (v - n) * (v - n) = 0
      BY <1>1, <2>2
    <3>2. 0 <= d * d
      BY <2>1
    <3> QED BY <3>1, <3>2
  <2>3. CASE v < low
    <3>1. 0 <= low - v /\ low - v <= e - v
      BY <2>3
    <3>2. low - v \in Int /\ e - v \in Int
      OBVIOUS
    <3>3. (low - v) * (low - v) <= (e - v) * (e - v)
      BY <3>1, <3>2, SquareWithin
    <3> QED BY <1>1, <2>3, <3>3
  <2>4. CASE high < v
    <3>1. 0 <= v - high /\ v - high <= v - e
      BY <2>4
    <3>2. v - high \in Int /\ v - e \in Int
      OBVIOUS
    <3>3. (v - high) * (v - high) <= (v - e) * (v - e)
      BY <3>1, <3>2, SquareWithin
    <3> QED BY <1>1, <2>4, <3>3
  <2> QED BY <2>2, <2>3, <2>4
<1> QED BY <1>1, <1>2
\* Within the radius of a point that is no farther along either axis.
LEMMA NearerIsWithin ==
  ASSUME NEW a \in Int, NEW b \in Int, NEW d \in Int, NEW e \in Int, NEW r \in Int,
         a * a <= d * d, b * b <= e * e, d * d + e * e <= r * r
  PROVE  a * a + b * b <= r * r
OBVIOUS

\* What is within the radius is within it along each axis.
LEMMA WithinAlongBoth ==
  ASSUME NEW a \in Int, NEW b \in Int, NEW r \in Int, 0 <= r, a * a + b * b <= r * r
  PROVE  -r <= a /\ a <= r /\ -r <= b /\ b <= r
<1>1. 0 <= a * a /\ 0 <= b * b
  OBVIOUS
<1>2. a * a <= r * r /\ b * b <= r * r
  BY <1>1
<1> QED BY <1>2, SquareWithin

\* The test of a circle against a rectangle is that of the rectangle's nearest point.
LEMMA CircleRect == ShapeTypes => Shapes!CircleMeetsRect
<1> SUFFICES ASSUME ShapeTypes PROVE Shapes!CircleMeetsRect
  OBVIOUS
<1> DEFINE R == circle.radius
           cx == circle.x
           cy == circle.y
           x1 == rect.x
           y1 == rect.y
           x2 == rect.x + rect.width
           y2 == rect.y + rect.height
           nx == Shapes!Nearest(cx, x1, x2)
           ny == Shapes!Nearest(cy, y1, y2)
           Far(x, y) == (cx - x) * (cx - x) + (cy - y) * (cy - y)
           Across == x1 - R <= cx /\ cx <= x2 + R
           Along == y1 - R <= cy /\ cy <= y2 + R
           Test == /\ Across /\ Along
                   /\ \/ y1 <= cy /\ cy <= y2
                      \/ x1 <= cx /\ cx <= x2
                      \/ \E x \in {x1, x2}, y \in {y1, y2} : Far(x, y) <= R * R
<1>1. /\ R \in Int /\ 0 <= R /\ cx \in Int /\ cy \in Int
      /\ x1 \in Int /\ y1 \in Int /\ rect.width \in Int /\ rect.height \in Int
      /\ x2 \in Int /\ y2 \in Int /\ x1 <= x2 /\ y1 <= y2
  BY ShapesAreWhole DEF ShapeTypes, Shapes!Rects
<1>2. \A x, y : Shapes!InCircle(circle, Shapes!Vector(x, y)) <=> Far(x, y) <= R * R
  BY DEF Shapes!InCircle, Shapes!DistanceSquared, Shapes!LengthSquared, Shapes!Sub, Shapes!Vector
<1>3. Shapes!TestCircleRect(circle, rect) <=> Test
  <2>1. \A x, y, w, h : Shapes!InRect(Shapes!Rect(x, y, w, h), circle) <=>
                            x <= cx /\ cx <= x + w /\ y <= cy /\ cy <= y + h
    BY DEF Shapes!InRect, Shapes!Rect, Shapes!Right, Shapes!Bottom
  <2>2. Shapes!Right(rect) = x2 /\ Shapes!Bottom(rect) = y2
    BY DEF Shapes!Right, Shapes!Bottom
  <2>3. Shapes!TestCircleRect(circle, rect) <=>
            /\ /\ x1 - R <= cx /\ cx <= x1 - R + (rect.width + R * 2)
               /\ y1 - R <= cy /\ cy <= y1 - R + (rect.height + R * 2)
            /\ \/ x1 - R <= cx /\ cx <= x1 - R + (rect.width + R * 2) /\ y1 <= cy /\ cy <= y1 + rect.height
               \/ x1 <= cx /\ cx <= x1 + rect.width /\ y1 - R <= cy /\ cy <= y1 - R + (rect.height + R * 2)
               \/ \E x \in {x1, x2}, y \in {y1, y2} : Far(x, y) <= R * R
    <3> HIDE DEF Far
    <3> QED BY <1>2, <2>1, <2>2 DEF Shapes!TestCircleRect
  <2>4. /\ x1 - R + (rect.width + R * 2) = x2 + R
        /\ y1 - R + (rect.height + R * 2) = y2 + R
    BY <1>1
  <2> QED
    <3> HIDE DEF Far
    <3> QED BY <2>3, <2>4
<1>4. Shapes!CircleMeetsRect <=> (Test <=> Far(nx, ny) <= R * R)
  <2>1. Shapes!Right(rect) = x2 /\ Shapes!Bottom(rect) = y2
    BY DEF Shapes!Right, Shapes!Bottom
  <2> HIDE DEF Far, Test
  <2> QED BY <1>2, <1>3, <2>1 DEF Shapes!CircleMeetsRect
<1> HIDE DEF R, cx, cy, x1, y1, x2, y2
<1>5. /\ nx \in Int /\ x1 <= nx /\ nx <= x2
      /\ x1 <= cx /\ cx <= x2 => nx = cx
      /\ cx < x1 => nx = x1
      /\ x2 < cx => nx = x2
      /\ \A e \in {x1, x2} : (cx - nx) * (cx - nx) <= (cx - e) * (cx - e)
  BY <1>1, NearestIsNear
<1>6. /\ ny \in Int /\ y1 <= ny /\ ny <= y2
      /\ y1 <= cy /\ cy <= y2 => ny = cy
      /\ cy < y1 => ny = y1
      /\ y2 < cy => ny = y2
      /\ \A e \in {y1, y2} : (cy - ny) * (cy - ny) <= (cy - e) * (cy - e)
  BY <1>1, NearestIsNear
<1> HIDE DEF nx, ny
<1>7. ASSUME Test PROVE Far(nx, ny) <= R * R
  <2>1. -R <= cx - nx /\ cx - nx <= R /\ -R <= cy - ny /\ cy - ny <= R
    BY <1>1, <1>5, <1>6, <1>7
  <2>2. /\ cx - nx \in Int /\ cy - ny \in Int
        /\ (cx - nx) * (cx - nx) <= R * R /\ (cy - ny) * (cy - ny) <= R * R
    BY <1>1, <1>5, <1>6, <2>1, SquareWithin
  <2>3. CASE y1 <= cy /\ cy <= y2
    <3>1. cy - ny = 0
      BY <1>1, <1>6, <2>3
    <3> QED BY <2>2, <3>1
  <2>4. CASE x1 <= cx /\ cx <= x2
    <3>1. cx - nx = 0
      BY <1>1, <1>5, <2>4
    <3> QED BY <2>2, <3>1
  <2>5. ASSUME NEW x \in {x1, x2}, NEW y \in {y1, y2}, Far(x, y) <= R * R PROVE Far(nx, ny) <= R * R
    <3>1. /\ (cx - nx) * (cx - nx) <= (cx - x) * (cx - x)
          /\ (cy - ny) * (cy - ny) <= (cy - y) * (cy - y)
          /\ cx - x \in Int /\ cy - y \in Int
      BY <1>1, <1>5, <1>6
    <3> QED BY <1>1, <2>2, <2>5, <3>1, NearerIsWithin
  <2> QED
    <3> HIDE DEF Far
    <3> QED BY <1>7, <2>3, <2>4, <2>5
<1>8. ASSUME Far(nx, ny) <= R * R PROVE Test
  <2>1. cx - nx \in Int /\ cy - ny \in Int
    BY <1>1, <1>5, <1>6
  <2>2. -R <= cx - nx /\ cx - nx <= R /\ -R <= cy - ny /\ cy - ny <= R
    BY <1>1, <1>8, <2>1, WithinAlongBoth
  <2>3. Across /\ Along
    BY <1>1, <1>5, <1>6, <2>2
  <2>4. CASE ~ (y1 <= cy /\ cy <= y2) /\ ~ (x1 <= cx /\ cx <= x2)
    <3>1. nx \in {x1, x2} /\ ny \in {y1, y2}
      BY <1>1, <1>5, <1>6, <2>4
    <3> HIDE DEF Far, Across, Along
    <3> QED BY <1>8, <2>3, <3>1
  <2> QED
    <3> HIDE DEF Far, Across, Along
    <3> QED BY <2>3, <2>4
<1> QED BY <1>4, <1>7, <1>8

\* In numbers: for an end at (e, f) from the centre and a line along (a, b), of squared
\* length l, with the dot product n of the two and their cross product k, the squared
\* distance at n/l of the way is k * k / l.
LEMMA FootOfPerpendicular ==
  ASSUME NEW a \in Int, NEW b \in Int, NEW e \in Int, NEW f \in Int
  PROVE  LET l == a * a + b * b
             n == a * e + b * f
             k == a * f - b * e
         IN  /\ l * (e * e + f * f) = k * k + n * n
             /\ (a - e) * (a - e) + (b - f) * (b - f) = e * e + f * f - 2 * n + l
             /\ (n * a - l * e) * (n * a - l * e) + (n * b - l * f) * (n * b - l * f) = l * (k * k)
             /\ 0 <= l /\ 0 <= k * k
             /\ l = 0 <=> a = 0 /\ b = 0
<1>1. (a * a + b * b) * (e * e + f * f) = (a * f - b * e) * (a * f - b * e) + (a * e + b * f) * (a * e + b * f)
  OBVIOUS
<1>2. (a - e) * (a - e) + (b - f) * (b - f) = e * e + f * f - 2 * (a * e + b * f) + (a * a + b * b)
  OBVIOUS
<1>3. (a * a + b * b) \in Int /\ (a * e + b * f) \in Int /\ (a * f - b * e) \in Int
  OBVIOUS
<1>4. \A n, l \in Int : (n * a - l * e) * (n * a - l * e) + (n * b - l * f) * (n * b - l * f)
                      = n * n * (a * a + b * b) - 2 * n * l * (a * e + b * f) + l * l * (e * e + f * f)
  OBVIOUS
<1>5. 0 <= a * a /\ 0 <= b * b /\ 0 <= (a * f - b * e) * (a * f - b * e)
  <2>1. \A m \in Int : 0 <= m * m
    OBVIOUS
  <2> QED BY <1>3, <2>1
<1>6. a * a + b * b = 0 <=> a = 0 /\ b = 0
  <2>1. \A m \in Int : m * m = 0 => m = 0
    OBVIOUS
  <2> QED BY <1>5, <2>1
<1>7. \A n, l, k, q \in Int : l * q = k * k + n * n => n * n * l - 2 * n * l * n + l * l * q = l * (k * k)
  <2> SUFFICES ASSUME NEW n \in Int, NEW l \in Int, NEW k \in Int, NEW q \in Int, l * q = k * k + n * n
               PROVE  n * n * l - 2 * n * l * n + l * l * q = l * (k * k)
    OBVIOUS
  <2>1. l * l * q = l * (k * k + n * n)
    OBVIOUS
  <2> QED BY <2>1
<1> DEFINE l == a * a + b * b
           n == a * e + b * f
           k == a * f - b * e
           q == e * e + f * f
<1>8. (n * a - l * e) * (n * a - l * e) + (n * b - l * f) * (n * b - l * f) = l * (k * k)
  <2>1. (n * a - l * e) * (n * a - l * e) + (n * b - l * f) * (n * b - l * f)
            = n * n * l - 2 * n * l * n + l * l * q
    BY <1>3, <1>4
  <2>2. l * q = k * k + n * n /\ q \in Int
    BY <1>1
  <2>3. n \in Int /\ l \in Int /\ k \in Int
    BY <1>3
  <2> HIDE DEF n, l, k, q
  <2> QED BY <1>7, <2>1, <2>2, <2>3
<1> QED BY <1>1, <1>2, <1>5, <1>6, <1>8

\* In numbers: what is within the radius of the line, by where the nearest point is, with
\* q and p the squared distances of the two ends.
LEMMA NearestOnLine ==
  ASSUME NEW l \in Int, NEW n \in Int, NEW k \in Int, NEW q \in Int, NEW p \in Int, NEW r \in Int,
         0 < l, 0 <= k, l * q = k + n * n, p = q - 2 * n + l
  PROVE  LET test == \/ q <= r \/ p <= r
                     \/ k <= r * l /\ n * (n - l) <= 0
         IN  /\ n < 0 => (test <=> q <= r)
             /\ l < n => (test <=> p <= r)
             /\ 0 <= n /\ n <= l => (test <=> k <= r * l)
<1>1. CASE n < 0
  <2>1. 0 < (-n) * (l - n)
    BY <1>1
  <2>2. n * (n - l) = (-n) * (l - n)
    OBVIOUS
  <2>3. q < p
    BY <1>1
  <2> QED BY <1>1, <2>1, <2>2, <2>3
<1>2. CASE l < n
  <2>1. 0 < n * (n - l)
    BY <1>2
  <2>2. p < q
    BY <1>2
  <2> QED BY <1>2, <2>1, <2>2
<1>3. CASE 0 <= n /\ n <= l
  <2>1. 0 <= n * (l - n)
    BY <1>3
  <2>2. n * (n - l) = -(n * (l - n))
    OBVIOUS
  <2>3. n * (n - l) <= 0
    BY <2>1, <2>2
  <2>4. l * p = k + (l - n) * (l - n)
    <3>1. l * p = l * q - 2 * l * n + l * l
      OBVIOUS
    <3> QED BY <3>1
  <2>5. 0 <= n * n /\ 0 <= (l - n) * (l - n)
    <3>1. \A m \in Int : 0 <= m * m
      OBVIOUS
    <3> QED BY <3>1
  <2>6. \A m \in Int : m <= r => l * m <= r * l
    OBVIOUS
  <2>7. q <= r => k <= r * l
    BY <2>5, <2>6
  <2>8. p <= r => k <= r * l
    BY <2>4, <2>5, <2>6
  <2> QED BY <1>3, <2>3, <2>7, <2>8
<1> QED BY <1>1, <1>2, <1>3
\* The test of a circle against a line is that of the line's nearest point.
LEMMA CircleLine == ShapeTypes => Shapes!CircleMeetsLine
<1> DEFINE Corners == {Shapes!Vector(x, y) : x \in {rect.x, Shapes!Right(rect)}, y \in {rect.y, Shapes!Bottom(rect)}}
<1> SUFFICES ASSUME ShapeTypes, NEW p1 \in Corners, NEW p2 \in Corners
             PROVE  LET l == Shapes!LengthSquared(Shapes!Sub(p2, p1))
                        t == Shapes!Nearest(Shapes!Nearer(p1, p2), 0, l)
                        d == Shapes!Vector(l * (p1.x - circle.x) + t * (p2.x - p1.x),
                                           l * (p1.y - circle.y) + t * (p2.y - p1.y))
                    IN  Shapes!TestCircleLine(circle, p1, p2) <=>
                            IF l = 0 THEN Shapes!InCircle(circle, p1)
                            ELSE Shapes!LengthSquared(d) <= l * l * circle.radius * circle.radius
  BY DEF Shapes!CircleMeetsLine
<1> DEFINE a == p2.x - p1.x
           b == p2.y - p1.y
           e == circle.x - p1.x
           f == circle.y - p1.y
           l == a * a + b * b
           n == a * e + b * f
           k == a * f - b * e
           q == e * e + f * f
           p == (a - e) * (a - e) + (b - f) * (b - f)
           r == circle.radius * circle.radius
           t == Shapes!Nearest(n, 0, l)
           u == t * a - l * e
           w == t * b - l * f
<1>1. /\ circle.x \in Int /\ circle.y \in Int /\ circle.radius \in Int
      /\ p1.x \in Int /\ p1.y \in Int /\ p2.x \in Int /\ p2.y \in Int
      /\ p1 = [x |-> p1.x, y |-> p1.y] /\ p2 = [x |-> p2.x, y |-> p2.y]
  <2>1. /\ rect.x \in Int /\ rect.y \in Int
        /\ Shapes!Right(rect) \in Int /\ Shapes!Bottom(rect) \in Int
    BY ShapesAreWhole DEF ShapeTypes, Shapes!Rects, Shapes!Right, Shapes!Bottom
  <2>2. circle.x \in Int /\ circle.y \in Int /\ circle.radius \in Int
    BY ShapesAreWhole DEF ShapeTypes
  <2> QED BY <2>1, <2>2 DEF Shapes!Vector
<1>2. a \in Int /\ b \in Int /\ e \in Int /\ f \in Int /\ r \in Int
  BY <1>1
<1>3. /\ Shapes!LengthSquared(Shapes!Sub(p2, p1)) = l
      /\ Shapes!Nearer(p1, p2) = n
  BY DEF Shapes!LengthSquared, Shapes!Sub, Shapes!Vector, Shapes!Nearer, Shapes!Dot
<1>4. Shapes!InCircle(circle, p1) <=> q <= r
  BY DEF Shapes!InCircle, Shapes!DistanceSquared, Shapes!LengthSquared, Shapes!Sub, Shapes!Vector
<1>5. Shapes!InCircle(circle, p2) <=> p <= r
  <2>1. /\ circle.x - p2.x = e - a /\ circle.y - p2.y = f - b
    BY <1>1
  <2>2. (e - a) * (e - a) + (f - b) * (f - b) = p
    <3> HIDE DEF a, b, e, f
    <3> QED BY <1>2
  <2>3. Shapes!InCircle(circle, p2) <=>
            (circle.x - p2.x) * (circle.x - p2.x) + (circle.y - p2.y) * (circle.y - p2.y) <= r
    BY DEF Shapes!InCircle, Shapes!DistanceSquared, Shapes!LengthSquared, Shapes!Sub, Shapes!Vector
  <2> HIDE DEF a, b, e, f, p, r
  <2> QED BY <2>1, <2>2, <2>3
<1>6. /\ Shapes!Cross(Shapes!Sub(p1, p2), Shapes!Sub(p1, circle)) = k
      /\ Shapes!Dot(Shapes!Sub(p1, circle), Shapes!Sub(p1, p2)) = n
      /\ Shapes!Dot(Shapes!Sub(p2, circle), Shapes!Sub(p1, p2)) = n - l
      /\ Shapes!LengthSquared(Shapes!Sub(p1, p2)) = l
  <2>1. /\ p1.x - p2.x = (-1) * a /\ p1.y - p2.y = (-1) * b
        /\ p1.x - circle.x = (-1) * e /\ p1.y - circle.y = (-1) * f
        /\ p2.x - circle.x = a - e /\ p2.y - circle.y = b - f
    BY <1>1
  <2>2. /\ ((-1) * a) * ((-1) * f) - ((-1) * b) * ((-1) * e) = k
        /\ ((-1) * e) * ((-1) * a) + ((-1) * f) * ((-1) * b) = n
        /\ (a - e) * ((-1) * a) + (b - f) * ((-1) * b) = n - l
        /\ ((-1) * a) * ((-1) * a) + ((-1) * b) * ((-1) * b) = l
    <3> HIDE DEF a, b, e, f
    <3> QED BY <1>2
  <2>3. /\ Shapes!Sub(p1, p2) = [x |-> p1.x - p2.x, y |-> p1.y - p2.y]
        /\ Shapes!Sub(p1, circle) = [x |-> p1.x - circle.x, y |-> p1.y - circle.y]
        /\ Shapes!Sub(p2, circle) = [x |-> p2.x - circle.x, y |-> p2.y - circle.y]
    BY DEF Shapes!Sub, Shapes!Vector
  <2> HIDE DEF a, b, e, f, k, n, l
  <2>4. /\ Shapes!Sub(p1, p2) = [x |-> (-1) * a, y |-> (-1) * b]
        /\ Shapes!Sub(p1, circle) = [x |-> (-1) * e, y |-> (-1) * f]
        /\ Shapes!Sub(p2, circle) = [x |-> a - e, y |-> b - f]
    BY <2>1, <2>3
  <2> QED BY <2>2, <2>4 DEF Shapes!Cross, Shapes!Dot, Shapes!LengthSquared
<1>7. p1 = p2 <=> a = 0 /\ b = 0
  BY <1>1
<1>8. Shapes!TestCircleLine(circle, p1, p2) <=>
          \/ q <= r \/ p <= r
          \/ /\ ~ (a = 0 /\ b = 0)
             /\ k * k <= r * l /\ n * (n - l) <= 0
  <2> HIDE DEF a, b, k, n, l, q, p
  <2> QED BY <1>4, <1>5, <1>6, <1>7 DEF Shapes!TestCircleLine, Shapes!Between
<1>9. Shapes!LengthSquared(Shapes!Vector(l * (p1.x - circle.x) + t * (p2.x - p1.x),
                                         l * (p1.y - circle.y) + t * (p2.y - p1.y))) = u * u + w * w
  <2>1. t \in Int /\ l \in Int
    <3>1. l \in Int /\ n \in Int
      <4> HIDE DEF a, b, e, f
      <4> QED BY <1>2
    <3> HIDE DEF l, n
    <3> QED BY <3>1 DEF Shapes!Nearest
  <2>2. p1.x - circle.x = (-1) * e /\ p1.y - circle.y = (-1) * f
    BY <1>1
  <2> HIDE DEF t, l
  <2>3. /\ l * (p1.x - circle.x) + t * (p2.x - p1.x) = u
        /\ l * (p1.y - circle.y) + t * (p2.y - p1.y) = w
    <3>1. l * ((-1) * e) + t * a = u /\ l * ((-1) * f) + t * b = w
      <4> HIDE DEF a, b, e, f
      <4> QED BY <1>2, <2>1
    <3> QED BY <2>2, <3>1
  <2> QED BY <2>3 DEF Shapes!LengthSquared, Shapes!Vector
<1> SUFFICES Shapes!TestCircleLine(circle, p1, p2) <=>
                 IF l = 0 THEN q <= r ELSE u * u + w * w <= l * l * circle.radius * circle.radius
  BY <1>3, <1>4, <1>9
<1>10. /\ l * q = k * k + n * n
       /\ p = q - 2 * n + l
       /\ (n * a - l * e) * (n * a - l * e) + (n * b - l * f) * (n * b - l * f) = l * (k * k)
       /\ 0 <= l /\ 0 <= k * k
       /\ l = 0 <=> a = 0 /\ b = 0
  <2> HIDE DEF a, b, e, f
  <2> QED BY <1>2, FootOfPerpendicular
<1>11. l \in Int /\ n \in Int /\ k * k \in Int /\ q \in Int /\ p \in Int
  <2> HIDE DEF a, b, e, f
  <2> QED BY <1>2
<1>12. CASE l = 0
  <2>1. a = 0 /\ b = 0
    BY <1>10, <1>12
  <2>2. p = q
    <3> HIDE DEF a, b
    <3> QED BY <1>2, <2>1
  <2> HIDE DEF a, b, k, n, l, q, p, u, w
  <2> QED BY <1>8, <1>12, <2>1, <2>2
<1>13. CASE l # 0
  <2>1. 0 < l
    <3> HIDE DEF l
    <3> QED BY <1>10, <1>11, <1>13
  <2>2. l * l * circle.radius * circle.radius = l * l * r
    <3> HIDE DEF l
    <3> QED BY <1>1, <1>11
  <2>3. Shapes!TestCircleLine(circle, p1, p2) <=> (q <= r \/ p <= r \/ (k * k <= r * l /\ n * (n - l) <= 0))
    <3> HIDE DEF a, b, k, n, l, q, p, r
    <3> QED BY <1>8, <1>10, <1>13
  <2> DEFINE kk == k * k
             Test == q <= r \/ p <= r \/ (kk <= r * l /\ n * (n - l) <= 0)
  <2>4. /\ n < 0 => (Test <=> q <= r)
        /\ l < n => (Test <=> p <= r)
        /\ 0 <= n /\ n <= l => (Test <=> kk <= r * l)
    <3>1. kk \in Int /\ 0 <= kk /\ l * q = kk + n * n /\ r \in Int
      BY <1>2, <1>10, <1>11
    <3>2. p = q - 2 * n + l
      BY <1>10
    <3> HIDE DEF kk, n, l, q, p, r
    <3> QED BY <1>11, <2>1, <3>1, <3>2, NearestOnLine
  <2>5. \A m \in Int : m <= r <=> l * l * m <= l * l * r
    <3> SUFFICES ASSUME NEW m \in Int PROVE m <= r <=> l * l * m <= l * l * r
      OBVIOUS
    <3>1. r \in Int
      BY <1>2
    <3> HIDE DEF l, r
    <3> DEFINE ll == l * l
    <3>2. ll \in Int /\ 0 < ll
      BY <1>11, <2>1
    <3> HIDE DEF ll
    <3>3. m <= r => ll * m <= ll * r
      BY <3>1, <3>2
    <3>4. r < m => ll * r < ll * m
      BY <3>1, <3>2
    <3>5. ll * m \in Int /\ ll * r \in Int
      BY <3>1, <3>2
    <3>6. m <= r <=> ll * m <= ll * r
      <4> DEFINE lm == ll * m
                 lr == ll * r
      <4> SUFFICES m <= r <=> lm <= lr
        OBVIOUS
      <4>1. lm \in Int /\ lr \in Int /\ (m <= r => lm <= lr) /\ (r < m => lr < lm)
        BY <3>3, <3>4, <3>5
      <4> HIDE DEF lm, lr
      <4> QED BY <3>1, <4>1
    <3> QED BY <3>6 DEF ll
  <2>6. CASE n < 0
    <3>1. t = 0
      <4> HIDE DEF n, l
      <4> QED BY <1>11, <2>1, <2>6 DEF Shapes!Nearest
    <3>2. u * u + w * w = l * l * q
      <4>1. u = (-1) * (l * e) /\ w = (-1) * (l * f)
        <5> HIDE DEF t, l, a, b, e, f
        <5> QED BY <1>2, <1>11, <3>1
      <4> HIDE DEF u, w, l, e, f
      <4> QED BY <1>2, <1>11, <4>1
    <3> HIDE DEF u, w, l, n, k, q, p, r
    <3> QED BY <1>11, <1>13, <2>2, <2>3, <2>4, <2>5, <2>6, <3>2
  <2>7. CASE l < n
    <3>1. t = l
      <4> HIDE DEF n, l
      <4> QED BY <1>11, <2>1, <2>7 DEF Shapes!Nearest
    <3>2. u * u + w * w = l * l * p
      <4>1. u = l * (a - e) /\ w = l * (b - f)
        <5> HIDE DEF t, l, a, b, e, f
        <5> QED BY <1>2, <1>11, <3>1
      <4> HIDE DEF u, w, l, a, b, e, f
      <4> QED BY <1>2, <1>11, <4>1
    <3> HIDE DEF u, w, l, n, k, q, p, r
    <3> QED BY <1>11, <1>13, <2>2, <2>3, <2>4, <2>5, <2>7, <3>2
  <2>8. CASE 0 <= n /\ n <= l
    <3>1. t = n
      <4> HIDE DEF n, l
      <4> QED BY <1>11, <2>1, <2>8 DEF Shapes!Nearest
    <3>2. u * u + w * w = l * kk
      <4>1. u = n * a - l * e /\ w = n * b - l * f
        <5> HIDE DEF t, l, n, a, b, e, f
        <5> QED BY <3>1
      <4> HIDE DEF u, w, l, n, a, b, e, f, k
      <4> QED BY <1>10, <4>1
    <3>3. kk <= r * l <=> l * kk <= l * l * r
      <4>1. r \in Int /\ kk \in Int
        BY <1>2, <1>11
      <4> HIDE DEF l, r, kk
      <4>2. kk <= r * l => l * kk <= l * (r * l)
        <5>1. r * l \in Int
          BY <1>11, <4>1
        <5> DEFINE rl == r * l
        <5> HIDE DEF rl
        <5>2. kk <= rl => l * kk <= l * rl
          BY <1>11, <2>1, <4>1, <5>1 DEF rl
        <5> QED BY <5>2 DEF rl
      <4>3. r * l < kk => l * (r * l) < l * kk
        <5>1. r * l \in Int
          BY <1>11, <4>1
        <5> DEFINE rl == r * l
        <5>2. rl \in Int
          BY <5>1
        <5> HIDE DEF rl
        <5>3. rl < kk => l * rl < l * kk
          BY <1>11, <2>1, <4>1, <5>2
        <5> QED BY <5>3 DEF rl
      <4>4. l * (r * l) = l * l * r
        BY <1>11, <4>1
      <4> QED BY <1>11, <4>1, <4>2, <4>3, <4>4
    <3> HIDE DEF u, w, l, n, kk, q, p, r
    <3> QED BY <1>11, <1>13, <2>2, <2>3, <2>4, <2>8, <3>2, <3>3 DEF kk
  <2> QED
    <3> HIDE DEF n, l
    <3> QED BY <1>11, <2>6, <2>7, <2>8
<1> QED BY <1>12, <1>13

\* In every state of a behaviour about shapes they collide exactly if they share a point,
\* or an area, and every edge set leaves the other three (Collision.testRectRect,
\* testCircleRect and testCircleLine, Rect's accessors of left, top, right and bottom).
THEOREM ShapesAlwaysCollide == Spec => ShapesCollide
<1>1. Init => ShapeTypes
  BY ShapesStart
<1>2. ShapeTypes /\ [Next]_vars => ShapeTypes'
  BY ShapesStep
<1>3. ShapeTypes => (part = "geometry" => Shapes!RectsShareArea /\ Shapes!CircleMeetsRect /\ Shapes!CircleMeetsLine)
  BY RectsShare, CircleRect, CircleLine
<1>4. ShapeTypes /\ [Next]_vars =>
        [asked' # asked =>
            LET moved(edge, was, is) == IF asked'[1] = edge THEN is = asked'[2] ELSE is = was
            IN  asked'[1] \in {"left", "right", "top", "bottom"} =>
                    /\ moved("left", rect.x, rect'.x)
                    /\ moved("right", Shapes!Right(rect), Shapes!Right(rect'))
                    /\ moved("top", rect.y, rect'.y)
                    /\ moved("bottom", Shapes!Bottom(rect), Shapes!Bottom(rect'))]_Shapes!vars
  BY EdgesStayStep
<1>5. Spec => []ShapeTypes
  BY <1>1, <1>2, PTL DEF Spec
<1>6. Spec => [](part = "geometry" => Shapes!RectsShareArea /\ Shapes!CircleMeetsRect /\ Shapes!CircleMeetsLine)
  BY <1>3, <1>5, PTL
<1>7. Spec => Shapes!EdgesStay
  BY <1>4, <1>5, PTL DEF Spec, Shapes!EdgesStay
<1> QED BY <1>6, <1>7 DEF ShapesCollide
=============================================================================
