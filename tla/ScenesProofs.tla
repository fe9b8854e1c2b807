------------------------------ MODULE ScenesProofs ------------------------------
(***************************************************************************)
(* The stack of scenes keeps what the application relies on, whatever the  *)
(* scenes, pauses and the debug panel do to it, and shows one scene after  *)
(* the other (SceneFlow).                                                  *)
(***************************************************************************)
EXTENDS Scenes, FiniteSetTheorems, SequenceTheorems, WellFoundedInduction, TLAPS

SceneRecord == [kind : Kinds, label : Label \cup {None}, next : Label \cup {None}]
CallRecord == [op : {"enter", "index", "resume", "next"}, id : Id \cup {0},
               index : DOMAIN List \cup {0}, prev : SceneRecord]

\* Every scene is on the stack once, and only what is there is a scene; the loading scene
\* and the manager are at its root.
StackInv ==
    /\ scene \in [Id -> SceneRecord] /\ stack \in Seq(Id) /\ Depth <= MaxDepth
    /\ \A j, k \in 1 .. Depth : stack[j] = stack[k] => j = k
    /\ \A i \in Id : Is(i, "none") <=> \A k \in 1 .. Depth : stack[k] # i
    /\ \A k \in 1 .. Depth : Is(stack[k], "manager") \/ Is(stack[k], "loading") => k = 1
    /\ app = OnStack

RootInv ==
    /\ astray \in BOOLEAN /\ sceneIndex \in DOMAIN List
    /\ ~ astray => stack # <<>> /\ (Is(stack[1], "loading") \/ Is(stack[1], "manager"))

\* Of the calls under way only the first one is not a setting of the index, and it is about
\* the scene on top.
IndexCalls(rest) ==
    rest \in Seq(CallRecord) /\ \A k \in 1 .. Len(rest) : rest[k].op = "index" /\ rest[k].index \in DOMAIN List
TodoInv ==
    /\ todo \in Seq(CallRecord)
    /\ \/ IndexCalls(todo)
       \/ /\ todo # <<>> /\ Head(todo) \in CallRecord /\ IndexCalls(Tail(todo))
          /\ Head(todo).op \in {"enter", "resume", "next"}
          /\ stack # <<>> /\ Head(todo).id = Current
          /\ Head(todo).op = "next" => Is(Current, "manager")

\* Suspended are those below the top, and the top until it is told to resume.
Resuming == todo # <<>> /\ Head(todo).op = "resume"
CoveredInv ==
    /\ suspended \subseteq Id
    /\ \A i \in Id : i \in suspended <=> \E k \in 1 .. Depth : stack[k] = i /\ (k < Depth \/ Resuming)

ScenesInv == StackInv /\ RootInv /\ TodoInv /\ CoveredInv

-----------------------------------------------------------------------------
(* The scenes of a stack *)

\* There are as many scenes on the stack as it is deep.
LEMMA StackIsCounted ==
  ASSUME StackInv
  PROVE  /\ Depth \in Nat /\ DOMAIN stack = 1 .. Depth
         /\ OnStack \subseteq Id /\ IsFiniteSet(OnStack) /\ Cardinality(OnStack) = Depth
         /\ \A i \in Id : i \in OnStack <=> \E k \in 1 .. Depth : stack[k] = i
<1>1. Depth \in Nat /\ DOMAIN stack = 1 .. Depth /\ stack \in [1 .. Depth -> Id]
  BY LenProperties DEF StackInv, Depth
<1>2. OnStack \subseteq Id /\ \A i \in Id : i \in OnStack <=> \E k \in 1 .. Depth : stack[k] = i
  BY <1>1 DEF OnStack
<1>3. stack \in Bijection(1 .. Depth, OnStack)
  <2>1. stack \in [1 .. Depth -> OnStack]
    BY <1>1 DEF OnStack
  <2>2. stack \in Injection(1 .. Depth, OnStack)
    BY <2>1 DEF StackInv, Injection, IsInjective
  <2>3. stack \in Surjection(1 .. Depth, OnStack)
    BY <1>1, <2>1 DEF OnStack, Surjection
  <2> QED BY <2>2, <2>3 DEF Bijection
<1>4. ExistsBijection(1 .. Depth, OnStack)
  BY <1>3 DEF ExistsBijection
<1>5. Cardinality(OnStack) = Depth
  BY <1>1, <1>4, FS_CountingElements
<1>6. IsFiniteSet(OnStack)
  BY <1>1, <1>4, FS_NatBijection
<1> QED BY <1>1, <1>2, <1>5, <1>6

\* A bound that leaves room for one more: there is a free scene.
LEMMA FreshIsFree ==
  ASSUME ScenesAssumption, StackInv
  PROVE  Fresh \in Id /\ Is(Fresh, "none") /\ \A k \in 1 .. Depth : stack[k] # Fresh
<1> DEFINE Free == {i \in Id : Is(i, "none")}
<1>1. MaxDepth + 1 \in Nat /\ Id = 1 .. MaxDepth + 1 /\ Id \subseteq Nat
  BY DEF ScenesAssumption, Id
<1>2. IsFiniteSet(Id) /\ Cardinality(Id) = MaxDepth + 1
  BY <1>1, FS_Interval DEF ScenesAssumption
<1>3. Free # {}
  <2> SUFFICES ASSUME Free = {} PROVE FALSE
    OBVIOUS
  <2>1. Id \subseteq OnStack
    BY StackIsCounted DEF StackInv
  <2>2. OnStack \subseteq Id /\ Cardinality(OnStack) = Depth /\ Depth <= MaxDepth /\ Depth \in Nat
    BY StackIsCounted DEF StackInv
  <2>3. OnStack = Id
    BY <2>1, <2>2
  <2> QED BY <1>2, <2>2, <2>3 DEF ScenesAssumption
<1>4. Free \subseteq Nat
  BY <1>1
<1>5. PICK i \in Free : \A j \in Free : ~ (<<j, i>> \in OpToRel(<, Nat))
  BY <1>3, <1>4, WFMin, NatLessThanWellFounded
<1>6. \A j \in Free : i <= j
  <2> HIDE DEF Free
  <2>1. \A j \in Free : ~ (j < i)
    BY <1>4, <1>5 DEF OpToRel
  <2> QED BY <1>4, <2>1
<1>7. Fresh \in Id /\ Is(Fresh, "none")
  BY <1>6 DEF Fresh
<1> QED BY <1>7 DEF StackInv

\* A call before calls that set the index.
LEMMA CallFirst ==
  ASSUME NEW c, NEW rest, IndexCalls(rest)
  PROVE  /\ <<c>> \o rest # <<>> /\ Head(<<c>> \o rest) = c /\ Tail(<<c>> \o rest) = rest
         /\ c \in CallRecord => <<c>> \o rest \in Seq(CallRecord)
         /\ c \in CallRecord /\ c.op = "index" /\ c.index \in DOMAIN List => IndexCalls(<<c>> \o rest)
<1> DEFINE S == CallRecord \cup {c}
<1>1. <<c>> \in Seq(S) /\ rest \in Seq(S) /\ rest \in Seq(CallRecord) /\ Len(<<c>>) = 1 /\ <<c>>[1] = c
  BY SeqMonotonic DEF IndexCalls
<1>2. /\ <<c>> \o rest \in Seq(S) /\ Len(<<c>> \o rest) = 1 + Len(rest) /\ Len(rest) \in Nat
      /\ \A i \in 1 .. 1 + Len(rest) : (<<c>> \o rest)[i] = IF i <= 1 THEN <<c>>[i] ELSE rest[i - 1]
  <2> HIDE DEF S
  <2> QED BY <1>1, ConcatProperties, LenProperties
<1>3. <<c>> \o rest # <<>>
  BY <1>2
<1>4. Head(<<c>> \o rest) = c
  BY <1>1, <1>2
<1>5. Tail(<<c>> \o rest) = rest
  <2>1. /\ Tail(<<c>> \o rest) \in Seq(S) /\ Len(Tail(<<c>> \o rest)) = Len(rest)
        /\ \A i \in 1 .. Len(rest) : Tail(<<c>> \o rest)[i] = (<<c>> \o rest)[i + 1]
    <3> HIDE DEF S
    <3> QED BY <1>2, <1>3, HeadTailProperties
  <2>2. ASSUME NEW i \in 1 .. Len(rest) PROVE (<<c>> \o rest)[i + 1] = rest[i]
    BY <1>2
  <2> HIDE DEF S
  <2> QED BY <1>1, <2>1, <2>2, SeqEqual
<1>6. ASSUME c \in CallRecord, c.op = "index", c.index \in DOMAIN List
      PROVE  IndexCalls(<<c>> \o rest)
  <2>1. <<c>> \in Seq(CallRecord) /\ <<c>> \o rest \in Seq(CallRecord)
    BY <1>1, <1>6, ConcatProperties
  <2>2. \A k \in 1 .. Len(<<c>> \o rest) :
           (<<c>> \o rest)[k].op = "index" /\ (<<c>> \o rest)[k].index \in DOMAIN List
    <3> SUFFICES ASSUME NEW k \in 1 .. Len(<<c>> \o rest)
                 PROVE  (<<c>> \o rest)[k].op = "index" /\ (<<c>> \o rest)[k].index \in DOMAIN List
      OBVIOUS
    <3>1. CASE k <= 1
      BY <1>1, <1>2, <1>6, <3>1
    <3>2. CASE ~ (k <= 1)
      <4>1. (<<c>> \o rest)[k] = rest[k - 1] /\ k - 1 \in 1 .. Len(rest)
        BY <1>2, <3>2
      <4> QED BY <4>1 DEF IndexCalls
    <3> QED BY <3>1, <3>2
  <2> QED BY <2>1, <2>2 DEF IndexCalls
<1>7. ASSUME c \in CallRecord PROVE <<c>> \o rest \in Seq(CallRecord)
  <2>1. <<c>> \in Seq(CallRecord)
    BY <1>7
  <2> QED BY <1>1, <2>1, ConcatProperties
<1> QED BY <1>3, <1>4, <1>5, <1>6, <1>7

\* What is left after the first call.
LEMMA CallDone ==
  ASSUME TodoInv, todo # <<>>
  PROVE  IndexCalls(Tail(todo))
<1>1. CASE IndexCalls(todo)
  <2>1. /\ todo \in Seq(CallRecord) /\ Tail(todo) \in Seq(CallRecord) /\ Len(todo) \in Nat
        /\ Len(Tail(todo)) = Len(todo) - 1
        /\ \A k \in 1 .. Len(Tail(todo)) : Tail(todo)[k] = todo[k + 1]
    BY <1>1, HeadTailProperties, LenProperties DEF IndexCalls
  <2>2. ASSUME NEW k \in 1 .. Len(Tail(todo)) PROVE k + 1 \in 1 .. Len(todo)
    BY <2>1
  <2> QED BY <1>1, <2>1, <2>2 DEF IndexCalls
<1>2. CASE ~ IndexCalls(todo)
  BY <1>2 DEF TodoInv
<1> QED BY <1>1, <1>2

LEMMA NothingToDo == IndexCalls(<<>>)
<1>1. <<>> \in Seq(CallRecord) /\ Len(<<>>) = 0
  BY EmptySeq
<1> QED BY <1>1 DEF IndexCalls

LEMMA Alone ==
  ASSUME NEW c PROVE <<c>> \o <<>> = <<c>> /\ <<c>> # <<>> /\ Head(<<c>>) = c /\ Tail(<<c>>) = <<>>
<1>1. <<c>> \in Seq({c})
  OBVIOUS
<1>2. <<c>> \o <<>> = <<c>>
  BY <1>1, ConcatEmptySeq
<1> QED BY <1>2, NothingToDo, CallFirst

-----------------------------------------------------------------------------
(* What the calls of the application do to the stack *)

\* A pushed scene is on top of all that was there.
LEMMA Pushed ==
  ASSUME ScenesAssumption, StackInv, RootInv, CoveredInv, stack # <<>>, Depth < MaxDepth, ~ Resuming,
         NEW s \in SceneRecord, s.kind \in {"content", "pause"},
         NEW rest, IndexCalls(rest), PushScene(s, rest), UNCHANGED <<sceneIndex, astray>>
  PROVE  /\ StackInv' /\ RootInv' /\ CoveredInv' /\ TodoInv'
         /\ Depth' = Depth + 1 /\ Depth \in Nat \ {0} /\ Depth' \in Nat /\ stack' # <<>>
         /\ Current' = Fresh /\ scene'[Fresh] = s /\ Fresh \notin {0}
         /\ \A k \in 1 .. Depth : stack'[k] = stack[k] /\ scene'[stack[k]] = scene[stack[k]]
         /\ todo' = <<Enter(Fresh)>> \o rest /\ todo' # <<>> /\ Head(todo') = Enter(Fresh) /\ Tail(todo') = rest
<1> DEFINE f == Fresh
           n == Depth
<1>1. f \in Id /\ Is(f, "none") /\ \A k \in 1 .. n : stack[k] # f
  BY FreshIsFree
<1>2. /\ n \in Nat /\ DOMAIN stack = 1 .. n /\ stack \in Seq(Id) /\ n # 0
      /\ \A k \in 1 .. n : stack[k] \in Id
  BY StackIsCounted, ElementOfSeq, EmptySeq DEF StackInv, Depth
<1>3. /\ scene' = [scene EXCEPT ![f] = s] /\ app' = app \cup {f} /\ stack' = Append(stack, f)
      /\ suspended' = suspended \cup {Current} /\ todo' = <<Enter(f)>> \o rest
  BY DEF PushScene
<1> HIDE DEF f
<1>4. /\ stack' \in Seq(Id) /\ Depth' = n + 1 /\ stack'[n + 1] = f /\ stack' # <<>>
      /\ \A k \in 1 .. n : stack'[k] = stack[k]
  BY <1>1, <1>2, <1>3, AppendProperties DEF Depth
<1>5. scene \in [Id -> SceneRecord]
  BY DEF StackInv
<1>6. /\ scene' \in [Id -> SceneRecord] /\ scene'[f] = s
      /\ \A i \in Id : i # f => scene'[i] = scene[i]
  BY <1>1, <1>3, <1>5
<1>7. \A k \in 1 .. n : scene'[stack[k]] = scene[stack[k]]
  BY <1>1, <1>2, <1>6
<1> HIDE DEF n
<1>8. 1 .. n + 1 = (1 .. n) \cup {n + 1} /\ n + 1 \notin 1 .. n /\ 1 \in 1 .. n /\ n + 1 # 1
  BY <1>2
<1>9. Depth' <= MaxDepth
  BY <1>2, <1>4 DEF ScenesAssumption, n
<1>10. \A j, k \in 1 .. n + 1 : stack'[j] = stack'[k] => j = k
  BY <1>1, <1>4, <1>8 DEF StackInv, n
<1>11. ASSUME NEW i \in Id PROVE Is(i, "none")' <=> \A k \in 1 .. n + 1 : stack'[k] # i
  <2>1. Is(i, "none") <=> \A k \in 1 .. n : stack[k] # i
    BY DEF StackInv, n
  <2>2. CASE i = f
    BY <1>4, <1>6, <1>8, <2>2 DEF Is
  <2>3. CASE i # f
    <3>1. Is(i, "none")' <=> Is(i, "none")
      BY <1>6, <2>3 DEF Is
    <3> QED BY <1>4, <1>8, <2>1, <2>3, <3>1
  <2> QED BY <2>2, <2>3
<1>12. ASSUME NEW k \in 1 .. n + 1, Is(stack[k], "manager")' \/ Is(stack[k], "loading")' PROVE k = 1
  <2>1. CASE k = n + 1
    BY <1>4, <1>6, <1>12, <2>1 DEF Is
  <2>2. CASE k # n + 1
    <3>1. k \in 1 .. n /\ scene'[stack'[k]] = scene[stack[k]]
      BY <1>4, <1>7, <1>8, <2>2
    <3> QED BY <1>12, <3>1 DEF Is, StackInv, n
  <2> QED BY <2>1, <2>2
<1>13. app' = OnStack'
  <2>1. DOMAIN stack' = 1 .. n + 1
    BY <1>4, LenProperties DEF Depth
  <2>2. app = {stack[k] : k \in 1 .. n}
    BY <1>2 DEF StackInv, OnStack
  <2> QED BY <1>3, <1>4, <1>8, <2>1, <2>2 DEF OnStack
<1>14. StackInv'
  <2>1. \A j, k \in (1 .. Depth)' : (stack[j])' = (stack[k])' => j = k
    BY <1>4, <1>10
  <2>2. \A i \in Id : Is(i, "none")' <=> \A k \in (1 .. Depth)' : (stack[k])' # i
    BY <1>4, <1>11
  <2>3. \A k \in (1 .. Depth)' : Is(stack[k], "manager")' \/ Is(stack[k], "loading")' => k = 1
    BY <1>4, <1>12
  <2> QED BY <1>4, <1>6, <1>9, <1>13, <2>1, <2>2, <2>3 DEF StackInv
<1>15. RootInv'
  <2>1. stack'[1] = stack[1] /\ scene'[stack[1]] = scene[stack[1]]
    BY <1>4, <1>7, <1>8
  <2> QED BY <1>4, <2>1 DEF RootInv, Is
<1>16. todo' # <<>> /\ Head(todo') = Enter(f) /\ Tail(todo') = rest
  BY <1>3, CallFirst
<1>17. Current' = f
  BY <1>4 DEF Current
<1>18. TodoInv'
  <2>1. Enter(f) \in CallRecord /\ Enter(f).op = "enter" /\ Enter(f).id = f
    BY <1>1 DEF Enter, Call, CallRecord, Blank, SceneRecord, Kinds
  <2>2. todo' \in Seq(CallRecord)
    BY <1>3, <2>1, CallFirst
  <2> QED BY <1>4, <1>16, <1>17, <2>1, <2>2 DEF TodoInv, IndexCalls
<1>19. CoveredInv'
  <2>1. ~ Resuming'
    BY <1>16 DEF Resuming, Enter, Call
  <2>2. Current = stack[n] /\ n \in 1 .. n
    BY <1>2 DEF Current, n
  <2>3. \A i \in Id : i \in suspended <=> \E k \in 1 .. n : stack[k] = i /\ k < n
    BY DEF CoveredInv, n
  <2>4. suspended' \subseteq Id
    BY <1>2, <1>3, <2>2 DEF CoveredInv
  <2>5. ASSUME NEW i \in Id
        PROVE  i \in suspended' <=> \E k \in 1 .. n + 1 : stack'[k] = i /\ k < n + 1
    <3>1. i \in suspended' <=> i \in suspended \/ i = stack[n]
      BY <1>3, <2>2
    <3>2. i \in suspended' <=> \E k \in 1 .. n : stack[k] = i
      <4>1. ASSUME NEW k \in 1 .. n PROVE k < n \/ k = n
        BY <1>2
      <4> QED BY <2>2, <2>3, <3>1, <4>1
    <3>3. \A k \in 1 .. n + 1 : k < n + 1 <=> k \in 1 .. n
      BY <1>2
    <3> QED BY <1>4, <1>8, <3>2, <3>3
  <2> QED BY <1>4, <2>1, <2>4, <2>5 DEF CoveredInv
<1> QED BY <1>1, <1>2, <1>3, <1>4, <1>6, <1>7, <1>14, <1>15, <1>16, <1>17, <1>18, <1>19 DEF f, n, Id

\* Popped is the scene on top; the one below is told to resume.
LEMMA Popped ==
  ASSUME ScenesAssumption, StackInv, CoveredInv, stack # <<>>, ~ Resuming,
         NEW table \in [Id -> SceneRecord], \A i \in Id : table[i].kind = scene[i].kind,
         NEW rest, IndexCalls(rest), PopScene(table, rest), UNCHANGED <<sceneIndex, astray>>,
         RootInv, ~ astray => Depth # 1
  PROVE  /\ StackInv' /\ RootInv' /\ CoveredInv' /\ TodoInv'
         /\ Depth' = Depth - 1 /\ Depth \in Nat \ {0} /\ Depth' \in Nat
         /\ \A k \in 1 .. Depth - 1 : stack'[k] = stack[k] /\ scene'[stack[k]] = table[stack[k]]
         /\ IF Depth = 1 THEN stack' = <<>> /\ todo' = <<>>
            ELSE /\ stack' # <<>> /\ Current' = stack[Depth - 1] /\ todo' # <<>> /\ Tail(todo') = rest
                 /\ Head(todo') = Call("resume", stack[Depth - 1], 0, table[Current])
<1> DEFINE n == Depth
           c == Current
<1>1. /\ n \in Nat /\ DOMAIN stack = 1 .. n /\ stack \in Seq(Id) /\ n # 0
      /\ \A k \in 1 .. n : stack[k] \in Id
  BY StackIsCounted, ElementOfSeq, EmptySeq DEF StackInv, Depth
<1>2. /\ stack' = SubSeq(stack, 1, n - 1) /\ app' = app \ {c}
      /\ scene' = [table EXCEPT ![c] = Blank("none")] /\ suspended' = suspended
      /\ todo' = IF n = 1 THEN <<>> ELSE <<Call("resume", stack[n - 1], 0, table[c])>> \o rest
  BY DEF PopScene, TellBelow
<1>3. c = stack[n] /\ c \in Id /\ \A j, k \in 1 .. n : stack[j] = stack[k] => j = k
  BY <1>1 DEF Current, StackInv
<1> HIDE DEF n, c
<1>4. /\ stack' \in Seq(Id) /\ Depth' = n - 1
      /\ \A k \in 1 .. n - 1 : stack'[k] = stack[k]
  <2>1. \A k \in 1 .. n - 1 : stack[k] \in Id
    BY <1>1
  <2>2. /\ SubSeq(stack, 1, n - 1) \in Seq(Id)
        /\ Len(SubSeq(stack, 1, n - 1)) = IF 1 <= n - 1 THEN (n - 1) - 1 + 1 ELSE 0
        /\ \A k \in 1 .. (n - 1) - 1 + 1 : SubSeq(stack, 1, n - 1)[k] = stack[1 + k - 1]
    BY <1>1, <2>1, SubSeqProperties
  <2>3. Len(SubSeq(stack, 1, n - 1)) = n - 1
    BY <1>1, <2>2
  <2>4. ASSUME NEW k \in 1 .. n - 1 PROVE SubSeq(stack, 1, n - 1)[k] = stack[k]
    <3>1. k \in 1 .. (n - 1) - 1 + 1 /\ 1 + k - 1 = k
      BY <1>1
    <3> QED BY <2>2, <3>1
  <2> QED BY <1>2, <2>2, <2>3, <2>4 DEF Depth
<1>5. 1 .. n = (1 .. n - 1) \cup {n} /\ n \notin 1 .. n - 1 /\ n - 1 \in Nat
  BY <1>1
<1>6. \A k \in 1 .. n - 1 : stack[k] \in Id /\ stack[k] # c
  BY <1>1, <1>3, <1>5
<1>7. Blank("none") \in SceneRecord /\ Blank("none").kind = "none"
  BY DEF Blank, SceneRecord, Kinds
<1>8. /\ scene' \in [Id -> SceneRecord] /\ scene'[c] = Blank("none")
      /\ \A i \in Id : i # c => scene'[i] = table[i]
  BY <1>2, <1>3, <1>7
<1>9. ASSUME NEW i \in Id PROVE Is(i, "none")' <=> \A k \in 1 .. n - 1 : stack'[k] # i
  <2>1. Is(i, "none") <=> \A k \in 1 .. n : stack[k] # i
    BY DEF StackInv, n
  <2>2. CASE i = c
    BY <1>4, <1>6, <1>7, <1>8, <2>2 DEF Is
  <2>3. CASE i # c
    <3>1. Is(i, "none")' <=> Is(i, "none")
      BY <1>8, <2>3 DEF Is
    <3> QED BY <1>3, <1>4, <1>5, <2>1, <2>3, <3>1
  <2> QED BY <2>2, <2>3
<1>10. ASSUME NEW k \in 1 .. n - 1
       PROVE  /\ scene'[stack[k]] = table[stack[k]]
              /\ Is(stack[k], "manager")' \/ Is(stack[k], "loading")' => k = 1
  <2>1. scene'[stack[k]] = table[stack[k]]
    BY <1>6, <1>8
  <2>2. scene'[stack'[k]].kind = scene[stack[k]].kind
    BY <1>4, <1>6, <2>1
  <2> QED BY <1>5, <2>1, <2>2 DEF Is, StackInv, n
<1>11. app' = OnStack'
  <2>1. DOMAIN stack' = 1 .. n - 1
    BY <1>4, LenProperties DEF Depth
  <2>2. app = {stack[k] : k \in 1 .. n}
    BY <1>1 DEF StackInv, OnStack
  <2>3. app \ {c} = {stack[k] : k \in 1 .. n - 1}
    BY <1>3, <1>5, <1>6, <2>2
  <2>4. OnStack' = {stack[k] : k \in 1 .. n - 1}
    BY <1>4, <2>1 DEF OnStack
  <2> QED BY <1>2, <2>3, <2>4
<1>12. StackInv'
  <2>1. \A j, k \in (1 .. Depth)' : (stack[j])' = (stack[k])' => j = k
    BY <1>3, <1>4, <1>5
  <2>2. \A i \in Id : Is(i, "none")' <=> \A k \in (1 .. Depth)' : (stack[k])' # i
    BY <1>4, <1>9
  <2>3. \A k \in (1 .. Depth)' : Is(stack[k], "manager")' \/ Is(stack[k], "loading")' => k = 1
    BY <1>4, <1>10
  <2>4. Depth' <= MaxDepth
    <3>1. n <= MaxDepth /\ MaxDepth \in Nat
      BY DEF StackInv, ScenesAssumption, n
    <3> QED BY <1>1, <1>4, <3>1
  <2> QED BY <1>4, <1>8, <1>11, <2>1, <2>2, <2>3, <2>4 DEF StackInv
<1>13. n = 1 => stack' = <<>>
  BY <1>4, EmptySeq DEF Depth
<1>14. n # 1 => stack' # <<>> /\ Current' = stack[n - 1] /\ n - 1 \in 1 .. n - 1
  <2>1. ASSUME n # 1 PROVE stack' # <<>> /\ n - 1 \in 1 .. n - 1
    BY <1>1, <1>4, <2>1, EmptySeq DEF Depth
  <2> QED BY <1>4, <2>1 DEF Current
<1>15. RootInv'
  <2>1. CASE n = 1
    BY <2>1 DEF RootInv, n
  <2>2. CASE n # 1
    <3>1. 1 \in 1 .. n - 1 /\ stack'[1] = stack[1] /\ stack[1] \in Id
      BY <1>1, <1>4, <1>5, <2>2
    <3>2. scene'[stack'[1]].kind = scene[stack[1]].kind
      BY <1>10, <3>1
    <3> QED BY <1>14, <2>2, <3>2 DEF RootInv, Is
  <2> QED BY <2>1, <2>2
<1>16. n # 1 => /\ todo' # <<>> /\ Tail(todo') = rest
                /\ Head(todo') = Call("resume", stack[n - 1], 0, table[c])
  BY <1>2, CallFirst
<1>17. TodoInv'
  <2>1. CASE n = 1
    <3>1. todo' = <<>>
      BY <1>2, <2>1
    <3>2. IndexCalls(todo')
      BY <3>1, NothingToDo
    <3> QED BY <3>2 DEF TodoInv, IndexCalls
  <2>2. CASE n # 1
    <3> DEFINE r == Call("resume", stack[n - 1], 0, table[c])
    <3>1. r \in CallRecord /\ r.op = "resume" /\ r.id = stack[n - 1]
      BY <1>3, <1>6, <1>14, <2>2 DEF Call, CallRecord
    <3> HIDE DEF r
    <3>2. todo' \in Seq(CallRecord)
      BY <1>2, <2>2, <3>1, CallFirst DEF r
    <3> QED BY <1>14, <1>16, <2>2, <3>1, <3>2 DEF TodoInv, IndexCalls, r
  <2> QED BY <2>1, <2>2
<1>18. CoveredInv'
  <2>1. Resuming' <=> n # 1
    BY <1>2, <1>16 DEF Resuming, Call
  <2>2. \A i \in Id : i \in suspended <=> \E k \in 1 .. n : stack[k] = i /\ k < n
    BY DEF CoveredInv, n
  <2>3. \A k \in 1 .. n : k < n <=> k \in 1 .. n - 1
    BY <1>1
  <2>4. ASSUME NEW i \in Id
        PROVE  i \in suspended' <=> \E k \in 1 .. n - 1 : stack'[k] = i
    BY <1>2, <1>4, <1>5, <2>2, <2>3
  <2>5. \A k \in 1 .. n - 1 : k < n - 1 \/ n # 1
    BY <1>1
  <2> QED BY <1>2, <1>4, <2>1, <2>4, <2>5 DEF CoveredInv
<1> QED BY <1>1, <1>2, <1>4, <1>5, <1>10, <1>12, <1>13, <1>14, <1>15, <1>16, <1>17, <1>18 DEF n, c

\* A scene that replaces the one on top takes its place.
LEMMA Replaced ==
  ASSUME ScenesAssumption, StackInv, CoveredInv, stack # <<>>, ~ Resuming,
         NEW s \in SceneRecord, s.kind \in {"content", "manager"}, s.kind = "manager" => Depth = 1,
         NEW rest, IndexCalls(rest), ReplaceScene(s, rest), UNCHANGED sceneIndex,
         RootInv, astray' \in BOOLEAN, astray => astray',
         ~ astray' => Depth # 1 \/ s.kind = "manager"
  PROVE  /\ StackInv' /\ RootInv' /\ CoveredInv' /\ TodoInv'
         /\ Depth' = Depth /\ Depth \in Nat \ {0} /\ stack' # <<>>
         /\ Current' = Fresh /\ scene'[Fresh] = s
         /\ \A k \in 1 .. Depth - 1 : stack'[k] = stack[k] /\ scene'[stack[k]] = scene[stack[k]]
         /\ todo' = <<Enter(Fresh)>> \o rest /\ todo' # <<>> /\ Head(todo') = Enter(Fresh) /\ Tail(todo') = rest
<1> DEFINE f == Fresh
           n == Depth
           c == Current
<1>1. f \in Id /\ Is(f, "none") /\ \A k \in 1 .. n : stack[k] # f
  BY FreshIsFree
<1>2. /\ n \in Nat /\ DOMAIN stack = 1 .. n /\ stack \in Seq(Id) /\ n # 0
      /\ \A k \in 1 .. n : stack[k] \in Id
  BY StackIsCounted, ElementOfSeq, EmptySeq DEF StackInv, Depth
<1>3. /\ scene' = [scene EXCEPT ![f] = s, ![c] = Blank("none")] /\ app' = (app \ {c}) \cup {f}
      /\ stack' = [stack EXCEPT ![n] = f] /\ suspended' = suspended
      /\ todo' = <<Enter(f)>> \o rest
  BY DEF ReplaceScene, LosesApp
<1>4. c = stack[n] /\ c \in Id /\ c # f /\ \A j, k \in 1 .. n : stack[j] = stack[k] => j = k
  BY <1>1, <1>2 DEF Current, StackInv
<1> HIDE DEF f, n, c
<1>5. /\ stack' \in Seq(Id) /\ Depth' = n /\ stack'[n] = f /\ stack' # <<>>
      /\ \A k \in 1 .. n - 1 : stack'[k] = stack[k]
  <2>1. n \in 1 .. Len(stack) /\ Len(stack) = n
    BY <1>2 DEF n, Depth
  <2>2. /\ stack' \in Seq(Id) /\ Len(stack') = n
        /\ \A k \in 1 .. n : stack'[k] = IF k = n THEN f ELSE stack[k]
    BY <1>1, <1>2, <1>3, <2>1, ExceptSeq
  <2> QED BY <1>2, <2>2, EmptySeq DEF Depth
<1>6. Blank("none") \in SceneRecord /\ Blank("none").kind = "none"
  BY DEF Blank, SceneRecord, Kinds
<1>7. /\ scene' \in [Id -> SceneRecord] /\ scene'[f] = s /\ scene'[c] = Blank("none")
      /\ \A i \in Id : i # f /\ i # c => scene'[i] = scene[i]
  <2>1. scene \in [Id -> SceneRecord]
    BY DEF StackInv
  <2> QED BY <1>1, <1>3, <1>4, <1>6, <2>1
<1>8. 1 .. n = (1 .. n - 1) \cup {n} /\ n \notin 1 .. n - 1
  BY <1>2
<1>9. \A k \in 1 .. n - 1 : stack[k] \in Id /\ stack[k] # c /\ stack[k] # f /\ scene'[stack[k]] = scene[stack[k]]
  BY <1>1, <1>2, <1>4, <1>7, <1>8
<1>10. \A j, k \in 1 .. n : stack'[j] = stack'[k] => j = k
  BY <1>4, <1>5, <1>8, <1>9
<1>11. ASSUME NEW i \in Id PROVE Is(i, "none")' <=> \A k \in 1 .. n : stack'[k] # i
  <2>1. Is(i, "none") <=> \A k \in 1 .. n : stack[k] # i
    BY DEF StackInv, n
  <2>2. CASE i = f
    BY <1>5, <1>7, <1>8, <2>2 DEF Is
  <2>3. CASE i = c
    BY <1>4, <1>5, <1>6, <1>7, <1>8, <1>9, <2>3 DEF Is
  <2>4. CASE i # f /\ i # c
    <3>1. Is(i, "none")' <=> Is(i, "none")
      BY <1>7, <2>4 DEF Is
    <3> QED BY <1>4, <1>5, <1>8, <2>1, <2>4, <3>1
  <2> QED BY <2>2, <2>3, <2>4
<1>12. ASSUME NEW k \in 1 .. n, Is(stack[k], "manager")' \/ Is(stack[k], "loading")' PROVE k = 1
  <2>1. CASE k = n
    <3>1. s.kind = "manager"
      BY <1>5, <1>7, <1>12, <2>1 DEF Is
    <3> QED BY <2>1, <3>1 DEF n
  <2>2. CASE k # n
    <3>1. k \in 1 .. n - 1 /\ scene'[stack'[k]] = scene[stack[k]]
      BY <1>5, <1>8, <1>9, <2>2
    <3> QED BY <1>12, <3>1 DEF Is, StackInv, n
  <2> QED BY <2>1, <2>2
<1>13. app' = OnStack'
  <2>1. DOMAIN stack' = 1 .. n
    BY <1>5, LenProperties DEF Depth
  <2>2. app = {stack[k] : k \in 1 .. n}
    BY <1>2 DEF StackInv, OnStack
  <2>3. app \ {c} = {stack[k] : k \in 1 .. n - 1}
    BY <1>4, <1>8, <1>9, <2>2
  <2>4. OnStack' = {stack'[k] : k \in 1 .. n - 1} \cup {f}
    BY <1>5, <1>8, <2>1 DEF OnStack
  <2> QED BY <1>3, <1>5, <2>3, <2>4
<1>14. StackInv'
  <2>1. \A j, k \in (1 .. Depth)' : (stack[j])' = (stack[k])' => j = k
    BY <1>5, <1>10
  <2>2. \A i \in Id : Is(i, "none")' <=> \A k \in (1 .. Depth)' : (stack[k])' # i
    BY <1>5, <1>11
  <2>3. \A k \in (1 .. Depth)' : Is(stack[k], "manager")' \/ Is(stack[k], "loading")' => k = 1
    BY <1>5, <1>12
  <2>4. Depth' <= MaxDepth
    BY <1>5 DEF StackInv, n
  <2> QED BY <1>5, <1>7, <1>13, <2>1, <2>2, <2>3, <2>4 DEF StackInv
<1>15. RootInv'
  <2>1. CASE astray'
    BY <2>1 DEF RootInv
  <2>2. CASE ~ astray' /\ n # 1
    <3>1. 1 \in 1 .. n - 1
      BY <1>2, <2>2
    <3>2. stack'[1] = stack[1] /\ scene'[stack[1]] = scene[stack[1]]
      BY <1>5, <1>9, <3>1
    <3> QED BY <1>5, <2>2, <3>2 DEF RootInv, Is
  <2>3. CASE ~ astray' /\ n = 1
    <3>1. stack'[1] = f /\ s.kind = "manager"
      BY <1>5, <2>3 DEF n
    <3> QED BY <1>5, <1>7, <3>1 DEF RootInv, Is
  <2> QED BY <2>1, <2>2, <2>3
<1>16. todo' # <<>> /\ Head(todo') = Enter(f) /\ Tail(todo') = rest
  BY <1>3, CallFirst
<1>17. Current' = f
  BY <1>5 DEF Current
<1>18. TodoInv'
  <2>1. Enter(f) \in CallRecord /\ Enter(f).op = "enter" /\ Enter(f).id = f
    BY <1>1 DEF Enter, Call, CallRecord, Blank, SceneRecord, Kinds
  <2>2. todo' \in Seq(CallRecord)
    BY <1>3, <2>1, CallFirst
  <2> QED BY <1>5, <1>16, <1>17, <2>1, <2>2 DEF TodoInv, IndexCalls
<1>19. CoveredInv'
  <2>1. ~ Resuming'
    BY <1>16 DEF Resuming, Enter, Call
  <2>2. \A i \in Id : i \in suspended <=> \E k \in 1 .. n : stack[k] = i /\ k < n
    BY DEF CoveredInv, n
  <2>3. \A k \in 1 .. n : k < n <=> k \in 1 .. n - 1
    BY <1>2
  <2>4. ASSUME NEW i \in Id
        PROVE  i \in suspended' <=> \E k \in 1 .. n : stack'[k] = i /\ k < n
    BY <1>3, <1>5, <1>8, <2>2, <2>3
  <2>5. suspended' \subseteq Id
    BY <1>3 DEF CoveredInv
  <2> QED BY <1>5, <2>1, <2>4, <2>5 DEF CoveredInv
<1> QED BY <1>2, <1>3, <1>5, <1>7, <1>9, <1>14, <1>15, <1>16, <1>17, <1>18, <1>19 DEF f, n

-----------------------------------------------------------------------------
(* The actions *)

\* The scenes of the list are named, and may name their next.
LEMMA Listed ==
  ASSUME ScenesAssumption
  PROVE  /\ Len(List) \in Nat \ {0} /\ DOMAIN List = 1 .. Len(List)
         /\ \A k \in DOMAIN List : List[k] \in [label : Label, next : Label \cup {None}]
<1> DEFINE R == [label : Label, next : Label \cup {None}]
<1>1. List \in Seq(R) /\ List # <<>>
  BY DEF ScenesAssumption
<1> HIDE DEF R
<1>2. Len(List) \in Nat /\ Len(List) # 0 /\ DOMAIN List = 1 .. Len(List)
  BY <1>1, LenProperties, EmptySeq
<1>3. \A k \in 1 .. Len(List) : List[k] \in R
  BY <1>1, ElementOfSeq
<1> QED BY <1>2, <1>3 DEF R

\* The first of calls that set the index.
LEMMA IndexFirst ==
  ASSUME NEW rest, IndexCalls(rest), rest # <<>>
  PROVE  Head(rest).op = "index" /\ Head(rest).index \in DOMAIN List
<1>1. Len(rest) \in Nat /\ Len(rest) # 0 /\ rest \in Seq(CallRecord)
  BY EmptySeq, LenProperties DEF IndexCalls
<1>2. 1 \in 1 .. Len(rest) /\ Head(rest) = rest[1]
  BY <1>1
<1> QED BY <1>2 DEF IndexCalls

\* The scene of a label is as the list says.
LEMMA ContentIs ==
  ASSUME ScenesAssumption, NEW l \in Label
  PROVE  /\ IndexOf(l) \in DOMAIN List /\ List[IndexOf(l)].label = l
         /\ Content(l) \in SceneRecord /\ Content(l).kind = "content" /\ Content(l).label = l
         /\ Content(l).next = List[IndexOf(l)].next /\ Content(l).next \in Label \cup {None}
         /\ SetIndex(LabelToIndex(l)) \in CallRecord
         /\ SetIndex(LabelToIndex(l)).op = "index" /\ SetIndex(LabelToIndex(l)).index = IndexOf(l)
<1>1. PICK k \in DOMAIN List : List[k].label = l
  BY DEF Label
<1>2. IndexOf(l) \in DOMAIN List /\ List[IndexOf(l)].label = l
  BY <1>1 DEF IndexOf
<1>3. List[IndexOf(l)] \in [label : Label, next : Label \cup {None}]
  BY <1>2, Listed
<1>4. Content(l) = [kind |-> "content", label |-> l, next |-> List[IndexOf(l)].next]
  BY DEF Content
<1>5. List[IndexOf(l)].next \in Label \cup {None}
  BY <1>3
<1>6. /\ Content(l) \in SceneRecord /\ Content(l).kind = "content" /\ Content(l).label = l
      /\ Content(l).next = List[IndexOf(l)].next
  BY <1>4, <1>5 DEF SceneRecord, Kinds
<1>7. SetIndex(LabelToIndex(l)) = [op |-> "index", id |-> 0, index |-> IndexOf(l), prev |-> Blank("none")]
  BY DEF SetIndex, Call, LabelToIndex
<1>8. Blank("none") \in SceneRecord
  BY DEF Blank, SceneRecord, Kinds
<1> QED BY <1>2, <1>5, <1>6, <1>7, <1>8 DEF CallRecord

LEMMA OneIndex ==
  ASSUME ScenesAssumption, NEW l \in Label PROVE IndexCalls(<<SetIndex(LabelToIndex(l))>>)
<1> DEFINE c == SetIndex(LabelToIndex(l))
<1>1. c \in CallRecord /\ c.op = "index" /\ c.index \in DOMAIN List
  BY ContentIs
<1> HIDE DEF c
<1>2. IndexCalls(<<c>> \o <<>>)
  BY <1>1, NothingToDo, CallFirst
<1> QED BY <1>2, Alone DEF c

\* A call that does not set the index is about the scene on top.
LEMMA AtHead ==
  ASSUME TodoInv, todo # <<>>, Head(todo).op # "index"
  PROVE  /\ stack # <<>> /\ Head(todo).id = Current /\ Head(todo) \in CallRecord
         /\ IndexCalls(Tail(todo))
         /\ Head(todo).op = "next" => Is(Current, "manager")
<1>1. ~ IndexCalls(todo)
  <2> SUFFICES ASSUME IndexCalls(todo) PROVE FALSE
    OBVIOUS
  <2> QED BY IndexFirst
<1> QED BY <1>1 DEF TodoInv

\* Nothing but the calls under way goes on.
LEMMA RestOnly ==
  ASSUME ScenesInv, ~ Resuming, IndexCalls(todo'), sceneIndex' \in DOMAIN List,
         UNCHANGED <<scene, app, suspended, stack, astray>>
  PROVE  ScenesInv'
<1>1. ~ Resuming'
  <2> SUFFICES ASSUME todo' # <<>> PROVE Head(todo').op = "index"
    BY DEF Resuming
  <2> QED BY IndexFirst
<1>2. StackInv'
  BY DEF ScenesInv, StackInv, Is, OnStack, Depth
<1>3. RootInv'
  BY DEF ScenesInv, RootInv, Is
<1>4. TodoInv'
  BY DEF TodoInv, IndexCalls
<1>5. CoveredInv'
  BY <1>1 DEF ScenesInv, CoveredInv, Depth
<1> QED BY <1>2, <1>3, <1>4, <1>5 DEF ScenesInv

\* Scene.exit: at the root is no scene that exits, so something is left below.
LEMMA ExitStep ==
  ASSUME ScenesAssumption, ScenesInv, ~ Resuming, NEW i \in Id, NEW l \in Label \cup {None},
         ~ Is(i, "loading"), ~ Is(i, "manager"),
         NEW rest, IndexCalls(rest), Exit(i, l, rest), UNCHANGED <<sceneIndex, astray>>
  PROVE  ScenesInv'
<1>1. CASE ~ MayExit(i)
  <2>1. UNCHANGED <<scene, app, suspended, stack>> /\ todo' = rest
    BY <1>1 DEF Exit
  <2>2. sceneIndex' \in DOMAIN List
    BY DEF ScenesInv, RootInv
  <2> QED BY <2>1, <2>2, RestOnly
<1>2. CASE MayExit(i)
  <2> DEFINE table == IF l = None THEN scene ELSE [scene EXCEPT ![i].next = l]
  <2>1. PopScene(table, rest)
    BY <1>2 DEF Exit
  <2>2. scene \in [Id -> SceneRecord]
    BY DEF ScenesInv, StackInv
  <2>3. table \in [Id -> SceneRecord] /\ \A j \in Id : table[j].kind = scene[j].kind
    BY <2>2 DEF SceneRecord
  <2>4. PICK k \in 1 .. Depth : stack[k] = i
    BY <1>2, StackIsCounted DEF MayExit, ScenesInv, StackInv
  <2>5. stack # <<>> /\ Depth \in Nat
    <3>1. Depth \in Nat /\ 0 \notin 1 .. 0 /\ Len(<<>>) = 0
      BY StackIsCounted DEF ScenesInv
    <3> QED BY <2>4, <3>1 DEF Depth
  <2>6. ~ astray => Depth # 1
    BY <2>4 DEF ScenesInv, RootInv
  <2> HIDE DEF table
  <2> QED BY <2>1, <2>3, <2>5, <2>6, Popped DEF ScenesInv
<1> QED BY <1>1, <1>2

\* The manager pushes a scene of the list.
LEMMA GotoStep ==
  ASSUME ScenesAssumption, ScenesInv, ~ Resuming, stack # <<>>, Is(Current, "manager"),
         NEW l \in Label, NEW rest, IndexCalls(rest), GotoScene(l, rest),
         UNCHANGED <<sceneIndex, astray>>
  PROVE  /\ ScenesInv'
         /\ Depth = 1 /\ Depth' = 2 /\ stack'[1] = stack[1] /\ stack'[2] = Fresh
         /\ scene'[stack[1]] = scene[stack[1]] /\ scene'[Fresh] = Content(l)
         /\ todo' = <<Enter(Fresh)>> \o (<<SetIndex(LabelToIndex(l))>> \o rest)
<1> DEFINE calls == <<SetIndex(LabelToIndex(l))>> \o rest
<1>1. Depth \in Nat /\ Depth # 0
  BY StackIsCounted, EmptySeq DEF ScenesInv, StackInv, Depth
<1>2. Depth = 1
  <2>1. Depth \in 1 .. Depth /\ Current = stack[Depth]
    BY <1>1 DEF Current
  <2> QED BY <2>1 DEF ScenesInv, StackInv
<1>3. Depth < MaxDepth
  BY <1>2 DEF ScenesAssumption
<1>4. IndexCalls(calls)
  BY ContentIs, CallFirst
<1>5. PushScene(Content(l), calls)
  BY DEF GotoScene
<1>6. Content(l) \in SceneRecord /\ Content(l).kind \in {"content", "pause"}
  BY ContentIs
<1> HIDE DEF calls
<1>7. /\ StackInv' /\ RootInv' /\ CoveredInv' /\ TodoInv'
      /\ Depth' = Depth + 1 /\ Current' = Fresh /\ scene'[Fresh] = Content(l)
      /\ \A k \in 1 .. Depth : stack'[k] = stack[k] /\ scene'[stack[k]] = scene[stack[k]]
      /\ todo' = <<Enter(Fresh)>> \o calls
  BY <1>3, <1>4, <1>5, <1>6, Pushed DEF ScenesInv
<1>8. 1 \in 1 .. Depth /\ Depth' = 2
  BY <1>2, <1>7
<1>9. stack'[2] = Fresh
  BY <1>7, <1>8 DEF Current
<1> QED BY <1>2, <1>7, <1>8, <1>9 DEF ScenesInv, calls

LEMMA ScenesStart == ASSUME ScenesAssumption, Init PROVE ScenesInv
<1>1. /\ Id = 1 .. MaxDepth + 1 /\ MaxDepth \in Nat /\ 1 \in Id /\ 2 <= MaxDepth
  BY DEF ScenesAssumption, Id
<1>2. /\ Blank("loading") \in SceneRecord /\ Blank("none") \in SceneRecord
      /\ Blank("loading").kind = "loading" /\ Blank("none").kind = "none"
  BY DEF Blank, SceneRecord, Kinds
<1>3. /\ stack = <<1>> /\ Depth = 1 /\ stack \in Seq(Id) /\ stack[1] = 1 /\ stack # <<>>
      /\ OnStack = {1} /\ Current = 1
  BY <1>1 DEF Init, Depth, OnStack, Current
<1>4. /\ scene \in [Id -> SceneRecord] /\ scene[1] = Blank("loading")
      /\ \A i \in Id : i # 1 => scene[i] = Blank("none")
  BY <1>1, <1>2 DEF Init
<1>5. StackInv
  BY <1>1, <1>2, <1>3, <1>4 DEF Init, StackInv, Is
<1>6. 1 \in DOMAIN List
  BY LenProperties, EmptySeq DEF ScenesAssumption
<1>7. RootInv
  BY <1>2, <1>3, <1>4, <1>6 DEF Init, RootInv, Is
<1>8. TodoInv
  BY NothingToDo DEF Init, TodoInv, IndexCalls
<1>9. CoveredInv
  BY <1>3 DEF Init, CoveredInv, Resuming
<1> QED BY <1>5, <1>7, <1>8, <1>9 DEF ScenesInv

LEMMA ScenesStep == ASSUME ScenesAssumption, ScenesInv, [Next]_vars PROVE ScenesInv'
<1>0. /\ StackInv /\ RootInv /\ TodoInv /\ CoveredInv /\ IndexCalls(<<>>)
      /\ sceneIndex \in DOMAIN List /\ scene \in [Id -> SceneRecord] /\ None \notin Eager
  BY NothingToDo DEF ScenesInv, RootInv, StackInv, ScenesAssumption
<1>a. ASSUME Idle PROVE ~ Resuming /\ stack # <<>> /\ todo = <<>> /\ Current \in Id /\ Depth \in Nat \ {0}
  <2>1. Depth \in Nat /\ Depth # 0 /\ stack # <<>>
    BY <1>0, <1>a, StackIsCounted, EmptySeq DEF Idle, Depth, StackInv
  <2>2. Current \in Id
    <3>1. Depth \in 1 .. Len(stack) /\ stack \in Seq(Id)
      BY <1>0, <2>1 DEF Depth, StackInv
    <3> QED BY <3>1, ElementOfSeq DEF Current
  <2> QED BY <1>a, <2>1, <2>2 DEF Idle, Resuming
<1>1. CASE EnterManager
  <2>1. /\ todo # <<>> /\ Head(todo).op = "enter" /\ Is(Head(todo).id, "manager")
        /\ GotoScene(StartLabel, Tail(todo)) /\ UNCHANGED <<sceneIndex, astray>>
    BY <1>1 DEF EnterManager, Step
  <2>2. stack # <<>> /\ Is(Current, "manager") /\ IndexCalls(Tail(todo)) /\ ~ Resuming
    BY <1>0, <2>1, AtHead DEF Resuming
  <2>3. StartLabel \in Label
    BY DEF ScenesAssumption
  <2> QED BY <2>1, <2>2, <2>3, GotoStep
<1>2. CASE EnterScene
  <2> DEFINE i == Head(todo).id
  <2>1. /\ todo # <<>> /\ Head(todo).op = "enter" /\ (Is(i, "content") \/ Is(i, "pause"))
        /\ IF scene[i].label \in Eager THEN Exit(i, None, Tail(todo))
           ELSE UNCHANGED <<scene, app, suspended, stack>> /\ todo' = Tail(todo)
        /\ UNCHANGED <<sceneIndex, astray>>
    BY <1>2 DEF EnterScene, Step
  <2>2. stack # <<>> /\ i = Current /\ IndexCalls(Tail(todo)) /\ ~ Resuming
    BY <1>0, <2>1, AtHead DEF Resuming
  <2>3. i \in Id
    <3>1. Depth \in Nat /\ Depth # 0
      BY <1>0, <2>2, StackIsCounted, EmptySeq DEF Depth, StackInv
    <3>2. Depth \in 1 .. Len(stack) /\ stack \in Seq(Id)
      BY <1>0, <3>1 DEF Depth, StackInv
    <3> QED BY <2>2, <3>2, ElementOfSeq DEF Current
  <2>4. ~ Is(i, "loading") /\ ~ Is(i, "manager")
    BY <2>1 DEF Is
  <2> HIDE DEF i
  <2>5. CASE scene[i].label \in Eager
    BY <2>1, <2>2, <2>3, <2>4, <2>5, ExitStep
  <2>6. CASE scene[i].label \notin Eager
    BY <1>0, <2>1, <2>2, <2>6, RestOnly
  <2> QED BY <2>5, <2>6
<1>3. CASE SetsIndex
  <2>1. /\ todo # <<>> /\ Head(todo).op = "index" /\ todo' = Tail(todo) /\ sceneIndex' = Head(todo).index
        /\ UNCHANGED <<scene, app, suspended, stack, astray>>
    BY <1>3 DEF SetsIndex
  <2>2. IndexCalls(todo)
    BY <1>0, <2>1 DEF TodoInv
  <2>3. Head(todo).index \in DOMAIN List
    BY <2>1, <2>2, IndexFirst
  <2>4. IndexCalls(Tail(todo)) /\ ~ Resuming
    BY <1>0, <2>1, CallDone DEF Resuming
  <2> QED BY <2>1, <2>3, <2>4, RestOnly
<1>4. CASE ResumeManager
  <2> DEFINE c == Call("next", Head(todo).id, 0, Head(todo).prev)
  <2>1. /\ todo # <<>> /\ Head(todo).op = "resume" /\ Is(Head(todo).id, "manager")
        /\ suspended' = suspended \ {Head(todo).id} /\ todo' = <<c>> \o Tail(todo)
        /\ UNCHANGED <<scene, app, stack, sceneIndex, astray>>
    BY <1>4 DEF ResumeManager, Step
  <2>2. /\ stack # <<>> /\ Head(todo).id = Current /\ Is(Current, "manager")
        /\ IndexCalls(Tail(todo)) /\ Head(todo) \in CallRecord /\ Resuming
    BY <1>0, <2>1, AtHead DEF Resuming
  <2>3. c \in CallRecord /\ c.op = "next" /\ c.id = Current
    BY <2>2 DEF CallRecord, Call
  <2> HIDE DEF c
  <2>4. todo' # <<>> /\ Head(todo') = c /\ Tail(todo') = Tail(todo)
    BY <2>1, <2>2, CallFirst
  <2>5. Current' = Current /\ Depth' = Depth /\ OnStack' = OnStack
    BY <2>1 DEF Current, Depth, OnStack
  <2>6. TodoInv'
    <3>1. todo' \in Seq(CallRecord)
      BY <2>1, <2>2, <2>3, CallFirst
    <3> QED BY <2>1, <2>2, <2>3, <2>4, <2>5, <3>1 DEF TodoInv, IndexCalls, Is
  <2>7. CoveredInv'
    <3>1. ~ Resuming'
      BY <2>3, <2>4 DEF Resuming
    <3>2. Depth \in Nat /\ Depth # 0 /\ Current = stack[Depth]
      BY <1>0, <2>2, StackIsCounted, EmptySeq DEF Depth, StackInv, Current
    <3>3. \A j, k \in 1 .. Depth : stack[j] = stack[k] => j = k
      BY <1>0 DEF StackInv
    <3>4. suspended' = suspended \ {stack[Depth]} /\ suspended \subseteq Id
      BY <1>0, <2>1, <2>2, <3>2 DEF CoveredInv
    <3>5. \A i \in Id : i \in suspended <=> \E k \in 1 .. Depth : stack[k] = i
      BY <1>0, <2>2 DEF CoveredInv
    <3>6. ASSUME NEW i \in Id
          PROVE  i \in suspended' <=> \E k \in 1 .. Depth : stack[k] = i /\ k < Depth
      <4>1. \A k \in 1 .. Depth : k < Depth <=> k # Depth
        BY <3>2
      <4>2. Depth \in 1 .. Depth
        BY <3>2
      <4> QED BY <3>3, <3>4, <3>5, <4>1, <4>2
    <3> QED BY <2>1, <2>5, <3>1, <3>4, <3>6 DEF CoveredInv
  <2>8. StackInv' /\ RootInv'
    BY <1>0, <2>1, <2>5 DEF StackInv, RootInv, Is, Depth, OnStack
  <2> QED BY <2>6, <2>7, <2>8 DEF ScenesInv
<1>5. CASE NextScene
  <2>1. /\ todo # <<>> /\ Head(todo).op = "next" /\ Is(Head(todo).id, "manager")
        /\ OnNext(Head(todo).prev, Tail(todo)) /\ UNCHANGED <<sceneIndex, astray>>
    BY <1>5 DEF NextScene, Step
  <2>2. /\ stack # <<>> /\ Is(Current, "manager") /\ IndexCalls(Tail(todo)) /\ ~ Resuming
        /\ Head(todo) \in CallRecord
    BY <1>0, <2>1, AtHead DEF Resuming
  <2>3. Head(todo).prev.next \in Label \cup {None}
    BY <2>2 DEF CallRecord, SceneRecord
  <2>4. \A k \in DOMAIN List : List[k].label \in Label /\ List[k].next \in Label \cup {None}
    BY Listed
  <2>5. ASSUME NEW n \in Int, n = sceneIndex + 1, n <= Len(List) PROVE n \in DOMAIN List
    BY <1>0, <2>5, LenProperties DEF ScenesAssumption
  <2>6. sceneIndex \in Int
    BY <1>0, LenProperties DEF ScenesAssumption
  <2>7. \/ \E l \in Label : GotoScene(l, Tail(todo))
        \/ UNCHANGED <<scene, app, suspended, stack>> /\ todo' = Tail(todo)
    <3> DEFINE prev == Head(todo).prev
               given == List[sceneIndex].next
               n == Following(sceneIndex)
               Stays == UNCHANGED <<scene, app, suspended, stack>> /\ todo' = Tail(todo)
    <3>1. given \in Label \cup {None} /\ prev.next \in Label \cup {None}
      BY <1>0, <2>3, <2>4
    <3>2. n <= Len(List) => List[n].label \in Label
      BY <2>4, <2>5, <2>6 DEF Following
    <3>3. CASE prev.next # None
      BY <2>1, <3>1, <3>3 DEF OnNext
    <3>4. CASE prev.next = None /\ given # None
      BY <2>1, <3>1, <3>4 DEF OnNext
    <3>5. CASE prev.next = None /\ given = None /\ n <= Len(List)
      BY <2>1, <3>2, <3>5 DEF OnNext
    <3>6. CASE prev.next = None /\ given = None /\ ~ (n <= Len(List))
      BY <2>1, <3>6 DEF OnNext
    <3> QED BY <3>3, <3>4, <3>5, <3>6
  <2>8. CASE \E l \in Label : GotoScene(l, Tail(todo))
    BY <2>1, <2>2, <2>8, GotoStep
  <2>9. CASE UNCHANGED <<scene, app, suspended, stack>> /\ todo' = Tail(todo)
    BY <1>0, <2>1, <2>2, <2>9, RestOnly
  <2> QED BY <2>7, <2>8, <2>9
<1>6. CASE ResumeScene
  <2>1. /\ todo # <<>> /\ Head(todo).op = "resume"
        /\ suspended' = suspended \ {Head(todo).id} /\ todo' = Tail(todo)
        /\ UNCHANGED <<scene, app, stack, sceneIndex, astray>>
    BY <1>6 DEF ResumeScene, Step
  <2>2. stack # <<>> /\ Head(todo).id = Current /\ IndexCalls(Tail(todo)) /\ Resuming
    BY <1>0, <2>1, AtHead DEF Resuming
  <2>3. ~ Resuming'
    <3> SUFFICES ASSUME Tail(todo) # <<>> PROVE Head(Tail(todo)).op = "index"
      BY <2>1 DEF Resuming
    <3> QED BY <2>2, IndexFirst
  <2>4. CoveredInv'
    <3>1. Depth \in Nat /\ Depth # 0 /\ Current = stack[Depth] /\ Depth' = Depth
      BY <1>0, <2>1, <2>2, StackIsCounted, EmptySeq DEF Depth, StackInv, Current
    <3>2. \A j, k \in 1 .. Depth : stack[j] = stack[k] => j = k
      BY <1>0 DEF StackInv
    <3>3. suspended' = suspended \ {stack[Depth]} /\ suspended \subseteq Id
      BY <1>0, <2>1, <2>2, <3>1 DEF CoveredInv
    <3>4. \A i \in Id : i \in suspended <=> \E k \in 1 .. Depth : stack[k] = i
      BY <1>0, <2>2 DEF CoveredInv
    <3>5. ASSUME NEW i \in Id
          PROVE  i \in suspended' <=> \E k \in 1 .. Depth : stack[k] = i /\ k < Depth
      <4>1. (\A k \in 1 .. Depth : k < Depth <=> k # Depth) /\ Depth \in 1 .. Depth
        BY <3>1
      <4> QED BY <3>2, <3>3, <3>4, <4>1
    <3> QED BY <2>1, <2>3, <3>1, <3>3, <3>5 DEF CoveredInv
  <2>5. StackInv' /\ RootInv'
    BY <1>0, <2>1 DEF StackInv, RootInv, Is, Depth, OnStack
  <2>6. TodoInv'
    BY <2>1, <2>2 DEF TodoInv, IndexCalls
  <2> QED BY <2>4, <2>5, <2>6 DEF ScenesInv
<1>7. CASE Loaded
  <2>1. /\ Idle /\ Is(Current, "loading") /\ ReplaceScene(Blank("manager"), <<>>)
        /\ UNCHANGED <<sceneIndex, astray>>
    BY <1>7 DEF Loaded
  <2>2. Depth = 1
    <3>1. Depth \in 1 .. Depth /\ Current = stack[Depth]
      BY <1>a, <2>1 DEF Current
    <3> QED BY <1>0, <2>1, <3>1 DEF StackInv
  <2>3. Blank("manager") \in SceneRecord /\ Blank("manager").kind = "manager"
    BY DEF Blank, SceneRecord, Kinds
  <2>4. astray' \in BOOLEAN /\ (astray => astray')
    BY <1>0, <2>1 DEF RootInv
  <2> QED BY <1>0, <1>a, <2>1, <2>2, <2>3, <2>4, Replaced DEF ScenesInv
<1>8. CASE TouchPause
  <2>1. Idle /\ Is(Current, "pause") /\ Exit(Current, None, <<>>) /\ UNCHANGED <<sceneIndex, astray>>
    BY <1>8 DEF TouchPause
  <2>2. ~ Is(Current, "loading") /\ ~ Is(Current, "manager")
    BY <2>1 DEF Is
  <2> QED BY <1>0, <1>a, <2>1, <2>2, ExitStep
<1>9. CASE Blur
  <2>1. Idle /\ Depth < MaxDepth /\ PushScene(Blank("pause"), <<>>) /\ UNCHANGED <<sceneIndex, astray>>
    BY <1>9 DEF Blur
  <2>2. Blank("pause") \in SceneRecord /\ Blank("pause").kind \in {"content", "pause"}
    BY DEF Blank, SceneRecord, Kinds
  <2> QED BY <1>0, <1>a, <2>1, <2>2, Pushed DEF ScenesInv
<1>10. CASE \E i \in Id, l \in Label \cup {None} : SceneExits(i, l)
  <2>1. PICK i \in Id, l \in Label \cup {None} : SceneExits(i, l)
    BY <1>10
  <2>2. Idle /\ (Is(i, "content") \/ Is(i, "none")) /\ Exit(i, l, <<>>) /\ UNCHANGED <<sceneIndex, astray>>
    BY <2>1 DEF SceneExits
  <2>3. ~ Is(i, "loading") /\ ~ Is(i, "manager")
    BY <2>2 DEF Is
  <2> QED BY <1>0, <1>a, <2>2, <2>3, ExitStep
<1>11. CASE \E l \in Label : PanelReplaces(l)
  <2>1. PICK l \in Label : PanelReplaces(l)
    BY <1>11
  <2>2. /\ Idle /\ ReplaceScene(Content(l), <<SetIndex(LabelToIndex(l))>>) /\ UNCHANGED sceneIndex
        /\ astray' = (astray \/ ~ (Depth = 2 /\ Is(Current, "content")))
    BY <2>1 DEF PanelReplaces
  <2>3. IndexCalls(<<SetIndex(LabelToIndex(l))>>)
    BY OneIndex
  <2>4. Content(l) \in SceneRecord /\ Content(l).kind = "content"
    BY ContentIs
  <2>5. astray' \in BOOLEAN /\ (astray => astray') /\ (~ astray' => Depth # 1)
    <3>1. astray \in BOOLEAN
      BY <1>0 DEF RootInv
    <3>2. Depth = 2 => Depth # 1
      OBVIOUS
    <3> QED BY <2>2, <3>1, <3>2
  <2> QED BY <1>0, <1>a, <2>2, <2>3, <2>4, <2>5, Replaced DEF ScenesInv
<1>12. CASE UNCHANGED vars
  <2>1. UNCHANGED <<scene, app, suspended, stack, sceneIndex, todo, astray>>
    BY <1>12 DEF vars
  <2> QED BY <1>0, <2>1 DEF ScenesInv, StackInv, RootInv, TodoInv, CoveredInv, IndexCalls, Resuming,
                         Is, Depth, OnStack, Current
<1> QED BY <1>1, <1>2, <1>3, <1>4, <1>5, <1>6, <1>7, <1>8, <1>9, <1>10, <1>11, <1>12 DEF Next

\* The next frame has a scene to update, the scenes of the stack have their app and no other
\* has, and paused are exactly those with another on top, whatever exits, pauses and is
\* replaced: also for scenes that exit as soon as they enter (phina.js:7343, 8148).
THEOREM StackCorrect ==
  ASSUME ScenesAssumption PROVE Spec => [](TypeOK /\ AppBound /\ SuspendedIsCovered)
<1>1. ScenesInv => TypeOK /\ AppBound /\ SuspendedIsCovered
  <2> SUFFICES ASSUME ScenesInv PROVE TypeOK /\ AppBound /\ SuspendedIsCovered
    OBVIOUS
  <2>1. /\ StackInv /\ RootInv /\ CoveredInv
        /\ Depth \in Nat /\ DOMAIN stack = 1 .. Depth /\ stack \in Seq(Id)
        /\ OnStack \subseteq Id /\ Cardinality(OnStack) = Depth
        /\ \A i \in Id : i \in OnStack <=> \E k \in 1 .. Depth : stack[k] = i
    BY StackIsCounted DEF ScenesInv, StackInv
  <2>2. \A k \in 1 .. Depth : stack[k] \in Id
    BY <2>1, ElementOfSeq DEF Depth
  <2>3. TypeOK
    BY <2>1, <2>2 DEF TypeOK, StackInv, RootInv, CoveredInv, SceneRecord
  <2>4. AppBound
    <3>1. app = OnStack /\ \A i \in Id : Is(i, "none") <=> \A k \in 1 .. Depth : stack[k] # i
      BY <2>1 DEF StackInv
    <3> QED BY <2>1, <3>1 DEF AppBound
  <2>5. ASSUME Idle PROVE suspended = OnStack \ {Current}
    <3>1. Depth # 0 /\ Current = stack[Depth]
      BY <2>1, <2>5, EmptySeq DEF Idle, Depth, Current
    <3>2. \A i \in Id : i \in suspended <=> \E k \in 1 .. Depth : stack[k] = i /\ k < Depth
      BY <2>1, <2>5 DEF CoveredInv, Idle, Resuming
    <3>3. \A j, k \in 1 .. Depth : stack[j] = stack[k] => j = k
      BY <2>1 DEF StackInv
    <3>4. Depth \in 1 .. Depth /\ \A k \in 1 .. Depth : k < Depth <=> k # Depth
      BY <2>1, <3>1
    <3>5. suspended \subseteq Id
      BY <2>1 DEF CoveredInv
    <3>6. ASSUME NEW i \in Id PROVE i \in suspended <=> i \in OnStack /\ i # Current
      BY <2>1, <3>1, <3>2, <3>3, <3>4
    <3> QED BY <2>1, <3>5, <3>6
  <2> QED BY <2>3, <2>4, <2>5 DEF SuspendedIsCovered
<1>2. Init => ScenesInv
  BY ScenesStart
<1>3. ScenesInv /\ [Next]_vars => ScenesInv'
  BY ScenesStep
<1> QED BY <1>1, <1>2, <1>3, PTL DEF Spec

-----------------------------------------------------------------------------
(* The scenes the player sees *)

\* What a scene wishes to be next is none only if the list says none.
Named(r) == r.label \in Label /\ (r.next = None => List[IndexOf(r.label)].next = None)

\* The modes of a game, as long as the panel has replaced no other scene than the manager's:
\* while assets load, while the manager is about to enter, while it has a scene above it,
\* while that one is about to be followed, and after the last.
One == todo # <<>> /\ Tail(todo) = <<>>
NoContent == \A k \in 1 .. Depth : ~ Is(stack[k], "content")
Loading == Is(stack[1], "loading") /\ NoContent /\ (todo = <<>> \/ One)
Entering == Is(stack[1], "manager") /\ Depth = 1 /\ One /\ Head(todo) = Enter(stack[1])
Calm(n) == sceneIndex = n /\ (todo = <<>> \/ (One /\ Head(todo).op # "index"))
Indexing(n) ==
    /\ Depth = 2
    /\ \/ One /\ Head(todo) = SetIndex(n)
       \/ todo # <<>> /\ Head(todo) = Enter(stack[2]) /\ Tail(todo) = <<SetIndex(n)>>
Showing ==
    /\ Is(stack[1], "manager") /\ Depth >= 2 /\ Is(stack[2], "content") /\ Named(scene[stack[2]])
    /\ \A k \in 1 .. Depth : Is(stack[k], "content") => k = 2
    /\ Calm(IndexOf(scene[stack[2]].label)) \/ Indexing(IndexOf(scene[stack[2]].label))
Leaving ==
    /\ Is(stack[1], "manager") /\ Depth = 1 /\ One /\ Head(todo).op \in {"resume", "next"}
    /\ Head(todo).prev.kind = "content" /\ Named(Head(todo).prev)
    /\ sceneIndex = IndexOf(Head(todo).prev.label)
Finished ==
    /\ Is(stack[1], "manager") /\ NoContent /\ List[sceneIndex].next = None /\ sceneIndex = Len(List)
    /\ \/ todo = <<>>
       \/ One /\ Head(todo).op = "enter" /\ Depth # 1
       \/ /\ One /\ Head(todo).op \in {"resume", "next"}
          /\ Head(todo).prev.kind # "content" /\ Head(todo).prev.next = None
PausesWishNothing == \A i \in Id : Is(i, "pause") => scene[i].next = None
FlowInv == ~ astray => PausesWishNothing /\ (Loading \/ Entering \/ Showing \/ Leaving \/ Finished)

\* The only call under way.
LEMMA OneCall ==
  ASSUME TodoInv, One
  PROVE  /\ todo \in Seq(CallRecord) /\ Len(todo) = 1 /\ DOMAIN todo = {1} /\ todo[1] = Head(todo)
         /\ {todo[k] : k \in DOMAIN todo} = {Head(todo)}
<1>1. todo \in Seq(CallRecord) /\ todo # <<>>
  BY DEF TodoInv, One
<1>2. Len(todo) \in Nat /\ DOMAIN todo = 1 .. Len(todo) /\ Head(todo) = todo[1]
      /\ Len(Tail(todo)) = Len(todo) - 1
  BY <1>1, HeadTailProperties, LenProperties
<1>3. Len(todo) = 1
  BY <1>2 DEF One
<1> QED BY <1>1, <1>2, <1>3

\* What the player sees in each mode.
LEMMA ShownIs ==
  ASSUME ScenesAssumption, ScenesInv
  PROVE  /\ Showing => Shown = scene[stack[2]]
         /\ Leaving => Shown = Head(todo).prev
         /\ Loading \/ Entering => Shown = Screen("loading")
         /\ Finished => Shown = Screen("finished")
<1>1. /\ StackInv /\ TodoInv /\ Depth \in Nat /\ DOMAIN stack = 1 .. Depth /\ OnStack \subseteq Id
      /\ \A k \in 1 .. Depth : stack[k] \in OnStack
      /\ \A i \in OnStack : \E k \in 1 .. Depth : stack[k] = i
  BY StackIsCounted DEF ScenesInv, OnStack
<1>2. ASSUME Showing PROVE Shown = scene[stack[2]]
  <2>1. 2 \in 1 .. Depth /\ Is(stack[2], "content")
    BY <1>1, <1>2 DEF Showing
  <2>2. \A i \in OnStack : Is(i, "content") => i = stack[2]
    BY <1>1, <1>2 DEF Showing
  <2>3. (CHOOSE i \in OnStack : Is(i, "content")) = stack[2]
    BY <1>1, <2>1, <2>2
  <2>4. \E i \in OnStack : Is(i, "content")
    BY <1>1, <2>1
  <2> QED BY <2>3, <2>4 DEF Shown
<1>3. ASSUME NoContent \/ (Depth = 1 /\ ~ Is(stack[1], "content"))
      PROVE  ~ \E i \in OnStack : Is(i, "content")
  BY <1>1, <1>3 DEF NoContent
<1>4. ASSUME Leaving PROVE Shown = Head(todo).prev
  <2>1. {todo[k] : k \in DOMAIN todo} = {Head(todo)} /\ Head(todo).op # "index" /\ todo # <<>>
    BY <1>1, <1>4, OneCall DEF Leaving, One
  <2>2. Head(todo).id = Current /\ Current = stack[1]
    BY <1>1, <1>4, <2>1, AtHead DEF Leaving, Current
  <2>3. Left = {Head(todo)}
    BY <1>4, <2>1, <2>2 DEF Left, Leaving
  <2>4. (CHOOSE f \in Left : TRUE) = Head(todo)
    BY <2>3
  <2>5. ~ Is(stack[1], "content")
    BY <1>4 DEF Leaving, Is
  <2>6. ~ (\E i \in OnStack : Is(i, "content"))
    BY <1>3, <1>4, <2>5 DEF Leaving
  <2> QED BY <2>3, <2>4, <2>6 DEF Shown
<1>5. ASSUME Loading PROVE Shown = Screen("loading")
  <2>1. ~ \E i \in OnStack : Is(i, "content")
    BY <1>3, <1>5 DEF Loading
  <2>2. Left = {}
    <3>1. CASE todo = <<>>
      BY <3>1 DEF Left
    <3>2. CASE One /\ Head(todo).op # "index"
      <4>1. {todo[k] : k \in DOMAIN todo} = {Head(todo)} /\ Head(todo).id = Current
        BY <1>1, <3>2, OneCall, AtHead DEF One
      <4>2. stack # <<>> /\ Depth \in 1 .. Depth /\ Current = stack[Depth]
        <5>1. stack # <<>>
          BY <1>1, <3>2, AtHead DEF One
        <5> QED BY <1>1, <5>1, EmptySeq DEF Current, Depth, StackInv
      <4>3. ~ Is(Current, "manager")
        <5> SUFFICES ASSUME Is(Current, "manager") PROVE FALSE
          OBVIOUS
        <5>1. Depth = 1
          BY <1>1, <4>2 DEF StackInv
        <5> QED BY <1>5, <4>2, <5>1 DEF Loading, Is
      <4> QED BY <4>1, <4>3 DEF Left
    <3>3. CASE One /\ Head(todo).op = "index"
      <4>1. {todo[k] : k \in DOMAIN todo} = {Head(todo)}
        BY <1>1, <3>3, OneCall
      <4> QED BY <3>3, <4>1 DEF Left
    <3> QED BY <1>5, <3>1, <3>2, <3>3 DEF Loading
  <2> QED BY <1>5, <2>1, <2>2 DEF Shown, Loading
<1>6. ASSUME Entering PROVE Shown = Screen("loading")
  <2>1. {todo[k] : k \in DOMAIN todo} = {Head(todo)} /\ Head(todo).op = "enter"
    BY <1>1, <1>6, OneCall DEF Entering, Enter, Call
  <2>2. Left = {}
    BY <2>1 DEF Left
  <2>3. ~ \E i \in OnStack : Is(i, "content")
    BY <1>3, <1>6 DEF Entering, Is
  <2>4. \E k \in DOMAIN todo : todo[k] = Enter(stack[1])
    BY <1>6, <2>1 DEF Entering
  <2> QED BY <2>2, <2>3, <2>4 DEF Shown
<1>7. ASSUME Finished PROVE Shown = Screen("finished")
  <2>1. ~ (\E i \in OnStack : Is(i, "content")) /\ ~ Is(stack[1], "loading")
    BY <1>3, <1>7 DEF Finished, Is
  <2>2. Left = {} /\ ~ \E k \in DOMAIN todo : todo[k] = Enter(stack[1])
    <3>1. CASE todo = <<>>
      BY <3>1 DEF Left
    <3>2. CASE One /\ Head(todo).op = "enter" /\ Depth # 1
      <4>1. {todo[k] : k \in DOMAIN todo} = {Head(todo)} /\ Head(todo).id = Current
        BY <1>1, <3>2, OneCall, AtHead DEF One
      <4>2. stack # <<>>
        BY <1>1, <3>2, AtHead DEF One
      <4>3. Current # stack[1]
        <5>1. Depth \in 1 .. Depth /\ 1 \in 1 .. Depth
          BY <1>1, <4>2, EmptySeq DEF Depth, StackInv
        <5> QED BY <1>1, <3>2, <5>1 DEF StackInv, Current
      <4>4. Enter(stack[1]).id = stack[1]
        BY DEF Enter, Call
      <4> QED BY <3>2, <4>1, <4>3, <4>4 DEF Left
    <3>3. CASE One /\ Head(todo).op \in {"resume", "next"} /\ Head(todo).prev.kind # "content"
      <4>1. {todo[k] : k \in DOMAIN todo} = {Head(todo)}
        BY <1>1, <3>3, OneCall
      <4>2. Enter(stack[1]).op = "enter"
        BY DEF Enter, Call
      <4> QED BY <3>3, <4>1, <4>2 DEF Left
    <3> QED BY <1>7, <3>1, <3>2, <3>3 DEF Finished
  <2> QED BY <2>1, <2>2 DEF Shown
<1> QED BY <1>2, <1>4, <1>5, <1>6, <1>7

LEMMA ShownIsAfter ==
  ASSUME ScenesAssumption, ScenesInv'
  PROVE  /\ Showing' => Shown' = scene'[stack'[2]]
         /\ Leaving' => Shown' = Head(todo').prev
         /\ Loading' \/ Entering' => Shown' = Screen("loading")
         /\ Finished' => Shown' = Screen("finished")
<1>1. (ScenesAssumption /\ ScenesInv =>
          /\ Showing => Shown = scene[stack[2]]
          /\ Leaving => Shown = Head(todo).prev
          /\ Loading \/ Entering => Shown = Screen("loading")
          /\ Finished => Shown = Screen("finished"))'
  BY ShownIs, PTL
<1> QED BY <1>1 DEF ScenesAssumption

\* At first the assets load.
LEMMA FlowStart == ASSUME ScenesAssumption, Init PROVE FlowInv /\ Loading
<1>1. /\ 1 \in Id /\ stack = <<1>> /\ Depth = 1 /\ scene[1] = Blank("loading") /\ todo = <<>>
      /\ \A i \in Id : scene[i] = Blank("loading") \/ scene[i] = Blank("none")
  BY DEF Init, Id, ScenesAssumption, Depth
<1>2. Loading
  BY <1>1 DEF Loading, NoContent, Is, Blank
<1>3. PausesWishNothing
  BY <1>1 DEF PausesWishNothing, Is, Blank
<1> QED BY <1>2, <1>3 DEF FlowInv

\* A call that changes neither the stack nor its scenes keeps the mode.
LEMMA FlowRest ==
  ASSUME ScenesAssumption, ScenesInv, ScenesInv', FlowInv, ~ astray, todo # <<>>, todo' = Tail(todo),
         UNCHANGED <<scene, stack, astray>>,
         IF Head(todo).op = "index" THEN sceneIndex' = Head(todo).index
         ELSE sceneIndex' = sceneIndex /\ ~ Is(Head(todo).id, "manager")
  PROVE  FlowInv' /\ Shown' = Shown
<1>1. /\ PausesWishNothing' /\ Depth' = Depth /\ NoContent' = NoContent
      /\ \A i, kind : Is(i, kind)' <=> Is(i, kind)
  BY DEF FlowInv, PausesWishNothing, Is, Depth, NoContent
<1>2. Head(todo).op # "index" => Head(todo).id = Current /\ stack # <<>> /\ Depth \in Nat /\ Depth # 0
  BY AtHead, StackIsCounted, EmptySeq DEF ScenesInv, StackInv, Depth
<1>3. ~ Entering
  BY <1>2 DEF Entering, Enter, Call, Current
<1>4. ~ Leaving
  BY <1>2 DEF Leaving, Current
<1>5. CASE Loading
  <2>1. Loading'
    BY <1>1, <1>5 DEF Loading, One
  <2> QED BY <1>1, <1>5, <2>1, ShownIs, ShownIsAfter DEF FlowInv
<1>6. CASE Finished
  <2>1. One /\ Head(todo).op # "index"
    BY <1>6 DEF Finished
  <2>2. Finished'
    BY <1>1, <1>6, <2>1 DEF Finished, One
  <2> QED BY <1>1, <1>6, <2>2, ShownIs, ShownIsAfter DEF FlowInv
<1>7. CASE Showing
  <2> DEFINE n == IndexOf(scene[stack[2]].label)
  <2>1. Calm(n) \/ Indexing(n)
    BY <1>7 DEF Showing
  <2>2. Calm(n)' \/ Indexing(n)'
    <3>0. n' = n
      BY DEF IndexOf
    <3> HIDE DEF n
    <3>1. CASE Calm(n)
      BY <3>0, <3>1 DEF Calm, One
    <3>2. CASE Indexing(n) /\ One /\ Head(todo) = SetIndex(n)
      <4>1. todo' = <<>> /\ Head(todo).op = "index" /\ Head(todo).index = n
        BY <3>2 DEF One, SetIndex, Call
      <4> QED BY <3>0, <4>1 DEF Calm
    <3>3. CASE Indexing(n) /\ Head(todo) = Enter(stack[2]) /\ Tail(todo) = <<SetIndex(n)>>
      <4>1. todo' = <<SetIndex(n)>> /\ todo' # <<>> /\ Tail(todo') = <<>> /\ Head(todo') = SetIndex(n)
        BY <3>3, Alone
      <4>2. SetIndex(n)' = SetIndex(n)
        BY <3>0 DEF SetIndex, Call, Blank
      <4> QED BY <1>1, <3>3, <4>1, <4>2 DEF Indexing, One
    <3> QED BY <2>1, <3>1, <3>2, <3>3 DEF Indexing
  <2>3. Showing'
    BY <1>1, <1>7, <2>2 DEF Showing, Named, Calm, Indexing
  <2>4. scene'[stack'[2]] = scene[stack[2]]
    OBVIOUS
  <2> QED BY <1>1, <1>7, <2>3, <2>4, ShownIs, ShownIsAfter DEF FlowInv
<1> QED BY <1>3, <1>4, <1>5, <1>6, <1>7 DEF FlowInv

\* A scene of the list is pushed.
LEMMA FlowGoto ==
  ASSUME ScenesAssumption, ScenesInv, FlowInv, ~ astray, ~ Resuming, stack # <<>>,
         Is(Current, "manager"), NEW l \in Label, GotoScene(l, <<>>), UNCHANGED <<sceneIndex, astray>>
  PROVE  FlowInv' /\ Shown' = Content(l)
<1> DEFINE n == IndexOf(l)
<1>1. /\ ScenesInv' /\ Depth = 1 /\ Depth' = 2 /\ stack'[1] = stack[1] /\ stack'[2] = Fresh
      /\ scene'[stack[1]] = scene[stack[1]] /\ scene'[Fresh] = Content(l)
      /\ todo' = <<Enter(Fresh)>> \o (<<SetIndex(n)>> \o <<>>)
  BY NothingToDo, GotoStep DEF LabelToIndex
<1>2. IndexCalls(<<SetIndex(n)>>)
  BY OneIndex DEF LabelToIndex
<1>3. todo' # <<>> /\ Head(todo') = Enter(Fresh) /\ Tail(todo') = <<SetIndex(n)>>
  BY <1>1, <1>2, Alone, CallFirst
<1>4. /\ Content(l).kind = "content" /\ Content(l).label = l /\ Content(l).next = List[n].next
  BY ContentIs
<1>5. Is(stack[1], "manager")' /\ Is(stack[2], "content")'
  BY <1>1, <1>4 DEF Is, Current
<1>6. Named(scene'[stack'[2]]) /\ IndexOf(scene'[stack'[2]].label) = n
  BY <1>1, <1>4 DEF Named
<1>7. \A k \in 1 .. 2 : Is(stack[k], "content")' => k = 2
  BY <1>5 DEF Is
<1>8. Indexing(IndexOf(scene[stack[2]].label))'
  <2>1. Head(todo') = Enter(stack'[2]) /\ Tail(todo') = <<SetIndex(IndexOf(scene'[stack'[2]].label))>>
    BY <1>1, <1>3, <1>6
  <2> QED BY <1>1, <1>3, <2>1 DEF Indexing, Enter, Call, SetIndex, Blank, IndexOf
<1>9. Showing'
  BY <1>1, <1>5, <1>6, <1>7, <1>8 DEF Showing, Named, IndexOf
<1>10. PausesWishNothing'
  <2>1. scene' = [scene EXCEPT ![Fresh] = Content(l)] /\ scene \in [Id -> SceneRecord]
    BY DEF GotoScene, PushScene, ScenesInv, StackInv
  <2> QED BY <1>4, <2>1 DEF PausesWishNothing, FlowInv, Is
<1>11. Shown' = Content(l)
  BY <1>1, <1>9, ShownIsAfter
<1> QED BY <1>9, <1>10, <1>11 DEF FlowInv

\* A scene is on the stack of an application at rest.
LEMMA AtRest ==
  ASSUME ScenesInv, Idle
  PROVE  /\ ~ Resuming /\ stack # <<>> /\ todo = <<>> /\ ~ One /\ Depth \in Nat \ {0}
         /\ Depth \in 1 .. Depth /\ 1 \in 1 .. Depth /\ Current = stack[Depth]
         /\ \A k \in 1 .. Depth : stack[k] \in Id
<1>1. Depth \in Nat /\ Depth # 0 /\ stack # <<>> /\ \A k \in 1 .. Depth : stack[k] \in Id
  BY StackIsCounted, EmptySeq, ElementOfSeq DEF Idle, Depth, ScenesInv, StackInv
<1> QED BY <1>1 DEF Idle, Resuming, Current, One

\* A pause on top changes nothing below.
LEMMA FlowPush ==
  ASSUME ScenesAssumption, ScenesInv, FlowInv, ~ astray, Idle, Depth < MaxDepth,
         PushScene(Blank("pause"), <<>>), UNCHANGED <<sceneIndex, astray>>
  PROVE  FlowInv' /\ Shown' = Shown
<1>1. /\ ~ Resuming /\ stack # <<>> /\ todo = <<>> /\ ~ One /\ Depth \in Nat \ {0}
  BY AtRest
<1>2. /\ Blank("pause") \in SceneRecord /\ Blank("pause").kind = "pause" /\ Blank("pause").next = None
  BY DEF Blank, SceneRecord, Kinds
<1>3. /\ ScenesInv' /\ Depth' = Depth + 1 /\ Current' = Fresh /\ scene'[Fresh] = Blank("pause")
      /\ \A k \in 1 .. Depth : stack'[k] = stack[k] /\ scene'[stack[k]] = scene[stack[k]]
      /\ todo' # <<>> /\ Head(todo') = Enter(Fresh) /\ Tail(todo') = <<>>
  BY <1>1, <1>2, NothingToDo, Pushed DEF ScenesInv
<1>4. stack'[Depth + 1] = Fresh /\ One' /\ Head(todo').op = "enter" /\ Depth' # 1
  BY <1>1, <1>3 DEF Current, One, Enter, Call
<1>5. \A k \in 1 .. Depth, kind \in Kinds : Is(stack[k], kind)' <=> Is(stack[k], kind)
  BY <1>3 DEF Is
<1>6. scene'[stack'[Depth + 1]].kind # "content"
  BY <1>2, <1>3, <1>4 DEF Is
<1>7. 1 .. Depth' = (1 .. Depth) \cup {Depth + 1} /\ 1 \in 1 .. Depth
  BY <1>1, <1>3
<1>8. \A k \in 1 .. Depth' : Is(stack[k], "content")' => k \in 1 .. Depth /\ Is(stack[k], "content")
  <2> SUFFICES ASSUME NEW k \in 1 .. Depth', Is(stack[k], "content")'
               PROVE  k \in 1 .. Depth /\ Is(stack[k], "content")
    OBVIOUS
  <2>1. k # Depth + 1
    BY <1>6 DEF Is
  <2> QED BY <1>5, <1>7, <2>1 DEF Kinds
<1>9. PausesWishNothing'
  <2>1. scene' = [scene EXCEPT ![Fresh] = Blank("pause")] /\ scene \in [Id -> SceneRecord]
    BY DEF PushScene, ScenesInv, StackInv
  <2> QED BY <1>2, <2>1 DEF PausesWishNothing, FlowInv, Is
<1>10. CASE Loading
  <2>1. Loading'
    BY <1>4, <1>5, <1>7, <1>8, <1>10 DEF Loading, NoContent, Kinds
  <2> QED BY <1>3, <1>9, <1>10, <2>1, ShownIs, ShownIsAfter DEF FlowInv
<1>11. CASE Finished
  <2>1. Finished'
    BY <1>4, <1>5, <1>7, <1>8, <1>11 DEF Finished, NoContent, Kinds
  <2> QED BY <1>3, <1>9, <1>11, <2>1, ShownIs, ShownIsAfter DEF FlowInv
<1>12. CASE Showing
  <2>1. 2 \in 1 .. Depth /\ Depth' >= 2
    BY <1>1, <1>3, <1>12 DEF Showing
  <2>2. stack'[2] = stack[2] /\ scene'[stack'[2]] = scene[stack[2]]
    BY <1>3, <2>1
  <2>3. Calm(IndexOf(scene[stack[2]].label))
    BY <1>1, <1>12 DEF Showing, Indexing
  <2>4. Calm(IndexOf(scene[stack[2]].label))'
    BY <1>4, <2>2, <2>3 DEF Calm, IndexOf
  <2>5. Showing'
    BY <1>5, <1>7, <1>8, <1>12, <2>1, <2>2, <2>4 DEF Showing, Kinds, Named, IndexOf
  <2> QED BY <1>3, <1>9, <1>12, <2>2, <2>5, ShownIs, ShownIsAfter DEF FlowInv
<1> QED BY <1>1, <1>10, <1>11, <1>12 DEF FlowInv, Entering, Leaving

LEMMA FlowSame ==
  ASSUME FlowInv, UNCHANGED <<scene, stack, sceneIndex, todo, astray>>
  PROVE  FlowInv' /\ Shown' = Shown
<1>1. Depth' = Depth /\ (\A i, kind : Is(i, kind)' <=> Is(i, kind)) /\ NoContent' = NoContent
  BY DEF Depth, Is, NoContent
<1>2. FlowInv'
  BY <1>1 DEF FlowInv, PausesWishNothing, Loading, Entering, Showing, Leaving, Finished, Calm, Indexing,
              One, Named
<1>3. Shown' = Shown
  BY DEF Shown, OnStack, Is, Left
<1> QED BY <1>2, <1>3

\* A scene asks for its exit, and for another that should be next.
LEMMA FlowPop ==
  ASSUME ScenesAssumption, ScenesInv, FlowInv, ~ astray, Idle,
         NEW i \in Id, NEW l \in Label \cup {None}, l # None => Is(i, "content"),
         ~ Is(i, "loading"), ~ Is(i, "manager"),
         Exit(i, l, <<>>), UNCHANGED <<sceneIndex, astray>>
  PROVE  /\ FlowInv'
         /\ \/ Shown' = Shown
            \/ Shown.label \in Label /\ l \in Label /\ Shown'.label = Shown.label /\ Shown'.next = l
<1>1. /\ ~ Resuming /\ stack # <<>> /\ todo = <<>> /\ ~ One /\ Depth \in Nat \ {0}
      /\ Depth \in 1 .. Depth /\ 1 \in 1 .. Depth /\ Current = stack[Depth]
      /\ \A k \in 1 .. Depth : stack[k] \in Id
  BY AtRest
<1>2. CASE ~ MayExit(i)
  <2>1. UNCHANGED <<scene, app, suspended, stack>> /\ todo' = todo
    BY <1>1, <1>2 DEF Exit
  <2> QED BY <2>1, FlowSame
<1>3. CASE MayExit(i)
  <2> DEFINE table == IF l = None THEN scene ELSE [scene EXCEPT ![i].next = l]
             c == Current
             n == Depth
  <2>1. PopScene(table, <<>>)
    BY <1>3 DEF Exit
  <2>2. scene \in [Id -> SceneRecord]
    BY DEF ScenesInv, StackInv
  <2>3. /\ table \in [Id -> SceneRecord] /\ \A j \in Id : table[j].kind = scene[j].kind
        /\ l = None => table = scene
        /\ l # None => table[i] = [scene[i] EXCEPT !.next = l]
        /\ \A j \in Id : j # i => table[j] = scene[j]
    BY <2>2 DEF SceneRecord
  <2>4. PICK k \in 1 .. n : stack[k] = i
    BY <1>3, StackIsCounted DEF MayExit, ScenesInv, StackInv
  <2>5. n # 1
    BY <2>4 DEF ScenesInv, RootInv
  <2> HIDE DEF table
  <2>6. /\ ScenesInv' /\ Depth' = n - 1 /\ scene' = [table EXCEPT ![c] = Blank("none")]
        /\ \A j \in 1 .. n - 1 : stack'[j] = stack[j] /\ scene'[stack[j]] = table[stack[j]]
        /\ todo' # <<>> /\ Tail(todo') = <<>> /\ Head(todo') = Call("resume", stack[n - 1], 0, table[c])
    <3>1. PopScene(table, <<>>) => scene' = [table EXCEPT ![c] = Blank("none")]
      BY DEF PopScene
    <3> QED BY <1>1, <2>1, <2>3, <2>5, <3>1, NothingToDo, Popped DEF ScenesInv
  <2>7. One' /\ Head(todo').op = "resume" /\ Head(todo').prev = table[c]
    BY <2>6 DEF One, Call
  <2>8. /\ n \in Nat /\ n - 1 \in Nat /\ 1 \in 1 .. n - 1 /\ 1 .. Depth' = 1 .. n - 1 /\ c = stack[n] /\ c \in Id
        /\ \A j \in 1 .. n - 1 : j \in 1 .. n
    BY <1>1, <2>5, <2>6
  <2>9. \A j \in 1 .. n : ~ Is(stack[j], "none")
    BY <1>1 DEF ScenesInv, StackInv
  <2>10. \A j \in 1 .. n : j # 1 => Is(stack[j], "pause") \/ Is(stack[j], "content")
    <3>1. \A j \in 1 .. n : scene[stack[j]].kind \in Kinds
      BY <1>1, <2>2 DEF SceneRecord
    <3> QED BY <1>1, <2>9, <3>1 DEF ScenesInv, StackInv, Is, Kinds
  <2>11. \A j \in 1 .. n - 1, kind \in Kinds : Is(stack[j], kind)' <=> Is(stack[j], kind)
    BY <1>1, <2>3, <2>6, <2>8 DEF Is
  <2> HIDE DEF n, c
  <2>12. PausesWishNothing'
    <3> SUFFICES ASSUME NEW j \in Id, Is(j, "pause")' PROVE scene'[j].next = None
      BY DEF PausesWishNothing
    <3>1. j # c
      BY <2>3, <2>6, <2>8 DEF Is, Blank
    <3>2. scene'[j] = table[j] /\ table[j].kind = scene[j].kind
      BY <2>3, <2>6, <3>1
    <3>3. Is(j, "pause")
      BY <3>2 DEF Is
    <3>4. table[j] = scene[j]
      BY <2>3, <3>3 DEF Is
    <3> QED BY <3>2, <3>3, <3>4 DEF FlowInv, PausesWishNothing
  <2>13. CASE NoContent
    <3>1. table = scene
      BY <2>3, <2>4, <2>13 DEF NoContent, n
    <3>2. NoContent'
      BY <2>8, <2>11, <1>3, <2>13 DEF NoContent, Kinds, n
    <3>3. CASE Loading
      <4>1. Loading'
        BY <2>7, <2>8, <2>11, <3>2, <3>3 DEF Loading, Kinds
      <4> QED BY <2>6, <2>12, <3>3, <4>1, ShownIs, ShownIsAfter DEF FlowInv
    <3>4. CASE Finished
      <4>1. n \in 1 .. n /\ Is(c, "pause")
        BY <1>1, <2>5, <2>8, <2>10, <2>13 DEF NoContent, n
      <4>2. table[c].kind # "content" /\ table[c].next = None
        BY <2>8, <3>1, <4>1 DEF FlowInv, PausesWishNothing, Is
      <4>3. Finished'
        BY <2>7, <2>8, <2>11, <3>2, <3>4, <4>2 DEF Finished, Kinds
      <4> QED BY <2>6, <2>12, <3>4, <4>3, ShownIs, ShownIsAfter DEF FlowInv
    <3>5. ~ Showing
      BY <2>13 DEF NoContent, Showing
    <3> QED BY <1>1, <3>3, <3>4, <3>5 DEF FlowInv, Entering, Leaving
  <2>14. CASE ~ NoContent
    <3>1. Showing
      BY <1>1, <2>14 DEF FlowInv, Loading, Finished, Entering, Leaving
    <3> DEFINE s == scene[stack[2]]
               t == table[stack[2]]
    <3>2. /\ n >= 2 /\ 2 \in 1 .. n /\ stack[2] \in Id /\ s \in SceneRecord /\ Is(stack[1], "manager")
          /\ s.kind = "content" /\ Named(s) /\ Calm(IndexOf(s.label))
          /\ \A j \in 1 .. n : Is(stack[j], "content") => j = 2
      <4>1. n >= 2 /\ 2 \in 1 .. n
        BY <2>8, <3>1 DEF Showing, n
      <4> QED BY <1>1, <2>2, <3>1, <4>1 DEF Showing, Indexing, Is, n
    <3>3. t = s \/ (l \in Label /\ t = [s EXCEPT !.next = l])
      <4>1. CASE l = None
        BY <2>3, <4>1
      <4>2. CASE l # None
        <5>1. i = stack[2]
          BY <2>4, <3>2, <4>2 DEF n
        <5> QED BY <2>3, <4>2, <5>1
      <4> QED BY <4>1, <4>2
    <3>4. /\ t.kind = "content" /\ Named(t) /\ t.label = s.label
          /\ t = s \/ (l \in Label /\ t.next = l)
      BY <3>2, <3>3 DEF Named, SceneRecord, ScenesAssumption
    <3>5. Shown = s
      BY <3>1, ShownIs
    <3>6. CASE n = 2
      <4>1. c = stack[2] /\ Head(todo').prev = t
        BY <2>7, <2>8, <3>6
      <4>2. Is(stack[1], "manager")' /\ Depth' = 1
        BY <2>6, <2>8, <2>11, <3>2, <3>6 DEF Kinds
      <4>3. sceneIndex' = IndexOf(t.label)
        BY <3>2, <3>4 DEF Calm
      <4> HIDE DEF t, s
      <4>4. Leaving'
        BY <2>7, <3>4, <4>1, <4>2, <4>3 DEF Leaving, Named, IndexOf
      <4>5. Shown' = t
        BY <2>6, <4>1, <4>4, ShownIsAfter
      <4> QED BY <2>12, <3>2, <3>4, <3>5, <4>4, <4>5 DEF FlowInv, Named
    <3>7. CASE n # 2
      <4>1. 2 \in 1 .. n - 1 /\ Depth' >= 2
        BY <2>6, <2>8, <3>2, <3>7
      <4>2. stack'[2] = stack[2] /\ scene'[stack'[2]] = t
        BY <2>6, <4>1
      <4>3. Is(stack[1], "manager")' /\ Is(stack[2], "content")'
        BY <2>8, <2>11, <3>2, <4>1 DEF Kinds, Is
      <4>4. \A j \in 1 .. Depth' : Is(stack[j], "content")' => j = 2
        BY <2>8, <2>11, <3>2 DEF Kinds
      <4>5. sceneIndex' = IndexOf(t.label)
        BY <3>2, <3>4 DEF Calm
      <4> HIDE DEF t, s
      <4>6. Calm(IndexOf(scene[stack[2]].label))'
        BY <2>7, <4>2, <4>5 DEF Calm, IndexOf
      <4>7. Showing'
        BY <3>4, <4>1, <4>2, <4>3, <4>4, <4>6 DEF Showing, Named, IndexOf
      <4>8. Shown' = t
        BY <2>6, <4>2, <4>7, ShownIsAfter
      <4> QED BY <2>12, <3>2, <3>4, <3>5, <4>7, <4>8 DEF FlowInv, Named
    <3> QED BY <3>6, <3>7
  <2> QED BY <2>13, <2>14
<1> QED BY <1>2, <1>3

\* What one step may do to what the player sees.
Follows(l) == Shown'.label = l /\ Shown'.next = List[IndexOf(l)].next
Moves ==
    \/ Shown' = Shown
    \/ \E l \in Label : Shown.label \in Label /\ Shown'.label = Shown.label /\ Shown'.next = l
    \/ Shown = Screen("loading") /\ Follows(StartLabel)
    \/ /\ Shown.label \in Label
       /\ LET n == IndexOf(Shown.label) + 1
          IN  \/ Shown.next # None /\ Follows(Shown.next)
              \/ Shown.next = None /\ n <= Len(List) /\ Follows(List[n].label)
              \/ Shown.next = None /\ n > Len(List) /\ Shown' = Screen("finished")

\* In these modes a call that is under way is the manager's.
LEMMA ManagersCall ==
  ASSUME ScenesAssumption, ScenesInv, FlowInv, ~ astray, todo # <<>>, Head(todo).op \in {"enter", "resume", "next"},
         Is(Head(todo).id, "manager")
  PROVE  /\ Depth = 1 /\ stack # <<>> /\ Current = stack[1] /\ Is(Current, "manager") /\ One
         /\ IF Head(todo).op = "enter" THEN Entering ELSE Leaving \/ Finished
<1>1. stack # <<>> /\ Head(todo).id = Current /\ Depth \in Nat \ {0} /\ Current = stack[Depth]
  BY AtHead, StackIsCounted, EmptySeq DEF ScenesInv, StackInv, Depth, Current
<1>2. Depth = 1 /\ Current = stack[1] /\ Is(stack[1], "manager")
  BY <1>1 DEF ScenesInv, StackInv
<1>3. ~ Loading /\ ~ Showing
  BY <1>2 DEF Loading, Showing, Is
<1>4. Entering => Head(todo).op = "enter"
  BY DEF Entering, Enter, Call
<1>5. One /\ IF Head(todo).op = "enter" THEN Entering ELSE Leaving \/ Finished
  BY <1>2, <1>3, <1>4 DEF FlowInv, Entering, Leaving, Finished
<1> QED BY <1>1, <1>2, <1>5

LEMMA FlowEnter ==
  ASSUME ScenesAssumption, ScenesInv, FlowInv, ~ astray, EnterManager
  PROVE  FlowInv' /\ Moves
<1>1. /\ todo # <<>> /\ Head(todo).op = "enter" /\ Is(Head(todo).id, "manager")
      /\ GotoScene(StartLabel, Tail(todo)) /\ UNCHANGED <<sceneIndex, astray>>
  BY DEF EnterManager, Step
<1>2. stack # <<>> /\ Is(Current, "manager") /\ Tail(todo) = <<>> /\ Entering /\ ~ Resuming
  BY <1>1, ManagersCall DEF One, Resuming
<1>3. StartLabel \in Label
  BY DEF ScenesAssumption
<1>4. FlowInv' /\ Shown' = Content(StartLabel)
  BY <1>1, <1>2, <1>3, FlowGoto
<1>5. Shown = Screen("loading")
  BY <1>2, ShownIs
<1>6. Follows(StartLabel)
  BY <1>3, <1>4, ContentIs DEF Follows
<1> QED BY <1>4, <1>5, <1>6 DEF Moves

LEMMA FlowResume ==
  ASSUME ScenesAssumption, ScenesInv, ScenesInv', FlowInv, ~ astray, ResumeManager
  PROVE  FlowInv' /\ Moves
<1> DEFINE c == Call("next", Head(todo).id, 0, Head(todo).prev)
<1>1. /\ todo # <<>> /\ Head(todo).op = "resume" /\ Is(Head(todo).id, "manager")
      /\ todo' = <<c>> \o Tail(todo) /\ UNCHANGED <<scene, app, stack, sceneIndex, astray>>
  BY DEF ResumeManager, Step
<1>2. Depth = 1 /\ stack # <<>> /\ One /\ (Leaving \/ Finished)
  BY <1>1, ManagersCall
<1>3. todo' = <<c>> /\ One' /\ Head(todo') = c /\ c.op = "next" /\ c.prev = Head(todo).prev
  BY <1>1, <1>2, Alone DEF One, Call
<1> HIDE DEF c
<1>4. /\ PausesWishNothing' /\ Depth' = Depth /\ NoContent' = NoContent
      /\ \A i, kind : Is(i, kind)' <=> Is(i, kind)
  BY <1>1 DEF FlowInv, PausesWishNothing, Is, Depth, NoContent
<1>5. CASE Leaving
  <2>1. Leaving'
    BY <1>1, <1>3, <1>4, <1>5 DEF Leaving, Named, IndexOf
  <2> QED BY <1>3, <1>4, <1>5, <2>1, ShownIs, ShownIsAfter DEF FlowInv, Moves
<1>6. CASE Finished
  <2>1. Finished'
    BY <1>1, <1>2, <1>3, <1>4, <1>6 DEF Finished
  <2> QED BY <1>4, <1>6, <2>1, ShownIs, ShownIsAfter DEF FlowInv, Moves
<1> QED BY <1>2, <1>5, <1>6

LEMMA FlowNext ==
  ASSUME ScenesAssumption, ScenesInv, ScenesInv', FlowInv, ~ astray, NextScene
  PROVE  FlowInv' /\ Moves
<1> DEFINE prev == Head(todo).prev
           n == sceneIndex + 1
           Stays == UNCHANGED <<scene, app, suspended, stack>> /\ todo' = Tail(todo)
<1>1. /\ todo # <<>> /\ Head(todo).op = "next" /\ Is(Head(todo).id, "manager")
      /\ OnNext(prev, Tail(todo)) /\ UNCHANGED <<sceneIndex, astray>>
  BY DEF NextScene, Step
<1>2. /\ Depth = 1 /\ stack # <<>> /\ Is(Current, "manager") /\ One /\ Tail(todo) = <<>> /\ ~ Resuming
      /\ Leaving \/ Finished
  BY <1>1, ManagersCall DEF One, Resuming
<1>3. List[sceneIndex].next = None \/ (Leaving /\ prev.next # None)
  BY <1>2 DEF Leaving, Finished, Named
<1>4. /\ Head(todo) \in CallRecord /\ prev.next \in Label \cup {None}
      /\ sceneIndex \in 1 .. Len(List) /\ Len(List) \in Nat
  <2>1. Head(todo) \in CallRecord
    BY <1>1, AtHead DEF ScenesInv
  <2> QED BY <2>1, Listed DEF CallRecord, SceneRecord, ScenesInv, RootInv
<1>5. n <= Len(List) => List[n].label \in Label
  <2>1. n <= Len(List) => n \in DOMAIN List
    BY <1>4, Listed
  <2> HIDE DEF n
  <2> QED BY <2>1, Listed
<1>6. \/ prev.next # None /\ GotoScene(prev.next, <<>>)
      \/ prev.next = None /\ n <= Len(List) /\ GotoScene(List[n].label, <<>>)
      \/ prev.next = None /\ n > Len(List) /\ Stays
  <2>1. CASE prev.next # None
    BY <1>1, <1>2, <2>1 DEF OnNext
  <2>2. CASE prev.next = None /\ n <= Len(List)
    BY <1>1, <1>2, <1>3, <2>2 DEF OnNext, Following
  <2>3. CASE prev.next = None /\ ~ (n <= Len(List))
    <3>1. Stays
      BY <1>1, <1>2, <1>3, <2>3 DEF OnNext, Following
    <3> QED BY <1>4, <2>3, <3>1
  <2> QED BY <2>1, <2>2, <2>3
<1>7. Leaving => Shown = prev /\ Shown.label \in Label /\ IndexOf(Shown.label) + 1 = n
  BY ShownIs DEF Leaving, Named
<1>8. Finished => prev.next = None /\ n > Len(List)
  BY <1>1, <1>4 DEF Finished
<1> HIDE DEF prev, n
<1>9. CASE prev.next # None /\ GotoScene(prev.next, <<>>)
  <2>1. prev.next \in Label /\ Leaving
    BY <1>2, <1>4, <1>8, <1>9
  <2>2. FlowInv' /\ Shown' = Content(prev.next)
    BY <1>1, <1>2, <1>9, <2>1, FlowGoto
  <2>3. Follows(prev.next)
    BY <2>1, <2>2, ContentIs DEF Follows
  <2> QED BY <1>7, <1>9, <2>1, <2>2, <2>3 DEF Moves
<1>10. CASE prev.next = None /\ n <= Len(List) /\ GotoScene(List[n].label, <<>>)
  <2>1. List[n].label \in Label /\ Leaving
    <3>1. Leaving
      BY <1>2, <1>4, <1>8, <1>10 DEF n
    <3> QED BY <1>5, <1>10, <3>1
  <2>2. FlowInv' /\ Shown' = Content(List[n].label)
    BY <1>1, <1>2, <1>10, <2>1, FlowGoto
  <2>3. Follows(List[n].label)
    BY <2>1, <2>2, ContentIs DEF Follows
  <2> QED BY <1>7, <1>10, <2>1, <2>2, <2>3 DEF Moves
<1>11. CASE prev.next = None /\ n > Len(List) /\ Stays
  <2>1. /\ PausesWishNothing' /\ Depth' = Depth /\ todo' = <<>>
        /\ \A i, kind : Is(i, kind)' <=> Is(i, kind)
    BY <1>2, <1>11 DEF FlowInv, PausesWishNothing, Is, Depth
  <2>2. Is(stack[1], "manager") /\ Depth = 1 /\ List[sceneIndex].next = None /\ sceneIndex = Len(List)
    <3>1. sceneIndex = Len(List)
      BY <1>4, <1>11 DEF n
    <3>2. Is(stack[1], "manager")
      BY <1>2 DEF Leaving, Finished
    <3> QED BY <1>2, <1>3, <1>11, <3>1, <3>2
  <2>3. Finished'
    <3>1. UNCHANGED <<stack, sceneIndex>> /\ Is(stack[1], "manager")' /\ ~ Is(stack[1], "content")'
      BY <1>1, <1>11, <2>1, <2>2 DEF Is
    <3>2. NoContent'
      BY <2>1, <2>2, <3>1 DEF NoContent
    <3> QED BY <2>1, <2>2, <3>1, <3>2 DEF Finished
  <2>4. FlowInv' /\ Shown' = Screen("finished")
    BY <2>1, <2>3, ShownIsAfter DEF FlowInv
  <2>5. Finished => Shown = Screen("finished")
    BY ShownIs
  <2> QED BY <1>2, <1>7, <1>11, <2>4, <2>5 DEF Moves
<1> QED BY <1>6, <1>9, <1>10, <1>11

LEMMA FlowLoaded ==
  ASSUME ScenesAssumption, ScenesInv, FlowInv, ~ astray, Loaded
  PROVE  FlowInv' /\ Moves
<1>1. /\ Idle /\ Is(Current, "loading") /\ ReplaceScene(Blank("manager"), <<>>)
      /\ UNCHANGED <<sceneIndex, astray>>
  BY DEF Loaded
<1>2. /\ ~ Resuming /\ stack # <<>> /\ todo = <<>> /\ ~ One
      /\ Depth \in 1 .. Depth /\ Current = stack[Depth]
  BY <1>1, AtRest
<1>3. Depth = 1 /\ Is(stack[1], "loading")
  BY <1>1, <1>2 DEF ScenesInv, StackInv
<1>4. Loading
  BY <1>2, <1>3 DEF FlowInv, Is, Entering, Showing, Leaving, Finished
<1>5. Blank("manager") \in SceneRecord /\ Blank("manager").kind = "manager"
  BY DEF Blank, SceneRecord, Kinds
<1>6. astray \in BOOLEAN /\ astray' = astray
  BY <1>1 DEF ScenesInv, RootInv
<1>7. /\ ScenesInv' /\ Depth' = 1 /\ Current' = Fresh /\ scene'[Fresh] = Blank("manager")
      /\ todo' # <<>> /\ Head(todo') = Enter(Fresh) /\ Tail(todo') = <<>>
  BY <1>1, <1>2, <1>3, <1>5, <1>6, NothingToDo, Replaced DEF ScenesInv
<1>8. stack'[1] = Fresh
  BY <1>7 DEF Current
<1>9. Entering'
  BY <1>5, <1>7, <1>8 DEF Entering, One, Is, Enter, Call, Blank
<1>10. PausesWishNothing'
  <2>1. scene' = [scene EXCEPT ![Fresh] = Blank("manager"), ![Current] = Blank("none")]
    BY <1>1 DEF ReplaceScene
  <2>2. Blank("manager").next = None /\ Blank("none").next = None /\ scene \in [Id -> SceneRecord]
    BY DEF Blank, ScenesInv, StackInv
  <2> QED BY <2>1, <2>2 DEF PausesWishNothing, FlowInv, Is
<1> QED BY <1>4, <1>7, <1>9, <1>10, ShownIs, ShownIsAfter DEF FlowInv, Moves

\* The panel replaces the scene of the manager.
LEMMA FlowPanel ==
  ASSUME ScenesAssumption, ScenesInv, FlowInv, ~ astray, NEW l \in Label, PanelReplaces(l), ~ astray'
  PROVE  FlowInv'
<1> DEFINE n == IndexOf(l)
<1>1. /\ Idle /\ ReplaceScene(Content(l), <<SetIndex(n)>>) /\ UNCHANGED sceneIndex
      /\ Depth = 2 /\ Is(Current, "content")
  BY DEF PanelReplaces, LabelToIndex
<1>2. /\ ~ Resuming /\ stack # <<>> /\ todo = <<>> /\ ~ One /\ Current = stack[2]
      /\ astray \in BOOLEAN /\ astray' = FALSE
  BY <1>1, AtRest DEF PanelReplaces, ScenesInv, RootInv
<1>3. Showing
  <2>1. ~ NoContent
    BY <1>1, <1>2 DEF NoContent
  <2> QED BY <1>1, <1>2, <2>1 DEF FlowInv, Loading, Entering, Leaving, Finished
<1>4. IndexCalls(<<SetIndex(n)>>)
  BY OneIndex DEF LabelToIndex
<1>5. /\ Content(l) \in SceneRecord /\ Content(l).kind = "content" /\ Content(l).label = l
      /\ Content(l).next = List[n].next
  BY ContentIs
<1>6. /\ Depth' = 2 /\ Current' = Fresh /\ scene'[Fresh] = Content(l)
      /\ \A k \in 1 .. Depth - 1 : stack'[k] = stack[k] /\ scene'[stack[k]] = scene[stack[k]]
      /\ todo' # <<>> /\ Head(todo') = Enter(Fresh) /\ Tail(todo') = <<SetIndex(n)>>
  <2> DEFINE s == Content(l)
             rest == <<SetIndex(n)>>
  <2>1. /\ s \in SceneRecord /\ s.kind = "content" /\ IndexCalls(rest) /\ ReplaceScene(s, rest)
    BY <1>1, <1>4, <1>5
  <2>2. StackInv /\ RootInv /\ CoveredInv /\ astray' \in BOOLEAN
    BY <1>2 DEF ScenesInv
  <2> HIDE DEF s, rest
  <2>3. /\ Depth' = Depth /\ Current' = Fresh /\ scene'[Fresh] = s
        /\ \A k \in 1 .. Depth - 1 : stack'[k] = stack[k] /\ scene'[stack[k]] = scene[stack[k]]
        /\ todo' # <<>> /\ Head(todo') = Enter(Fresh) /\ Tail(todo') = rest
    BY <1>1, <1>2, <2>1, <2>2, Replaced
  <2> QED BY <1>1, <2>3 DEF s, rest
<1>7. /\ stack'[2] = Fresh /\ Is(stack[1], "manager")' /\ Is(stack[2], "content")'
  <2>1. 1 \in 1 .. Depth - 1 /\ stack'[2] = Fresh
    BY <1>1, <1>6 DEF Current
  <2> QED BY <1>3, <1>5, <1>6, <2>1 DEF Showing, Is
<1>8. Named(scene'[stack'[2]]) /\ IndexOf(scene'[stack'[2]].label) = n
  BY <1>5, <1>6, <1>7 DEF Named
<1>9. \A k \in 1 .. 2 : Is(stack[k], "content")' => k = 2
  BY <1>7 DEF Is
<1>10. Indexing(IndexOf(scene[stack[2]].label))'
  <2>1. Head(todo') = Enter(stack'[2]) /\ Tail(todo') = <<SetIndex(IndexOf(scene'[stack'[2]].label))>>
    BY <1>6, <1>7, <1>8
  <2> QED BY <1>6, <2>1 DEF Indexing, Enter, Call, SetIndex, Blank, IndexOf
<1>11. Showing'
  BY <1>6, <1>7, <1>8, <1>9, <1>10 DEF Showing, Named, IndexOf
<1>12. PausesWishNothing'
  <2>1. scene' = [scene EXCEPT ![Fresh] = Content(l), ![Current] = Blank("none")]
    BY <1>1 DEF ReplaceScene
  <2>2. Blank("none").kind = "none" /\ scene \in [Id -> SceneRecord]
    BY DEF Blank, ScenesInv, StackInv
  <2> QED BY <1>5, <2>1, <2>2 DEF PausesWishNothing, FlowInv, Is
<1> QED BY <1>11, <1>12 DEF FlowInv

\* Every step keeps the mode, and shows the player what may come next, the panel's aside.
LEMMA FlowStep ==
  ASSUME ScenesAssumption, Eager = {}, ScenesInv, ScenesInv', FlowInv, [Next]_vars, ~ astray'
  PROVE  FlowInv' /\ (~ Debug => Moves)
<1>1. ~ astray
  BY DEF Next, vars, EnterManager, EnterScene, SetsIndex, ResumeManager, NextScene, ResumeScene, Loaded,
         TouchPause, Blur, SceneExits, PanelReplaces
<1>2. CASE EnterManager
  BY <1>1, <1>2, FlowEnter
<1>3. CASE ResumeManager
  BY <1>1, <1>3, FlowResume
<1>4. CASE NextScene
  BY <1>1, <1>4, FlowNext
<1>5. CASE Loaded
  BY <1>1, <1>5, FlowLoaded
<1>6. CASE EnterScene
  <2>1. /\ todo # <<>> /\ Head(todo).op = "enter" /\ ~ Is(Head(todo).id, "manager")
        /\ todo' = Tail(todo) /\ UNCHANGED <<scene, stack, sceneIndex, astray>>
    BY <1>6 DEF EnterScene, Step, Is
  <2> QED BY <1>1, <2>1, FlowRest DEF Moves
<1>7. CASE SetsIndex
  <2>1. /\ todo # <<>> /\ Head(todo).op = "index" /\ sceneIndex' = Head(todo).index
        /\ todo' = Tail(todo) /\ UNCHANGED <<scene, stack, astray>>
    BY <1>7 DEF SetsIndex
  <2> QED BY <1>1, <2>1, FlowRest DEF Moves
<1>8. CASE ResumeScene
  <2>1. /\ todo # <<>> /\ Head(todo).op = "resume" /\ ~ Is(Head(todo).id, "manager")
        /\ todo' = Tail(todo) /\ UNCHANGED <<scene, stack, sceneIndex, astray>>
    BY <1>8 DEF ResumeScene, Step, Is
  <2> QED BY <1>1, <2>1, FlowRest DEF Moves
<1>9. CASE TouchPause
  <2>1. Idle /\ Is(Current, "pause") /\ Exit(Current, None, <<>>) /\ UNCHANGED <<sceneIndex, astray>>
    BY <1>9 DEF TouchPause
  <2>2. ~ Is(Current, "loading") /\ ~ Is(Current, "manager") /\ Current \in Id
    BY <2>1, AtRest DEF Is
  <2> QED BY <1>1, <2>1, <2>2, FlowPop DEF Moves
<1>10. CASE Blur
  BY <1>1, <1>10, FlowPush DEF Blur, Moves
<1>11. CASE \E i \in Id, l \in Label \cup {None} : SceneExits(i, l)
  <2>1. PICK i \in Id, l \in Label \cup {None} : SceneExits(i, l)
    BY <1>11
  <2>2. /\ Idle /\ (l # None => Is(i, "content")) /\ Exit(i, l, <<>>) /\ UNCHANGED <<sceneIndex, astray>>
        /\ ~ Is(i, "loading") /\ ~ Is(i, "manager")
    BY <2>1 DEF SceneExits, Is
  <2> QED BY <1>1, <2>2, FlowPop DEF Moves
<1>12. CASE \E l \in Label : PanelReplaces(l)
  <2>1. Debug
    BY <1>12 DEF PanelReplaces
  <2> QED BY <1>1, <1>12, <2>1, FlowPanel
<1>13. CASE UNCHANGED vars
  BY <1>13, FlowSame DEF vars, Moves
<1> QED BY <1>2, <1>3, <1>4, <1>5, <1>6, <1>7, <1>8, <1>9, <1>10, <1>11, <1>12, <1>13 DEF Next

\* The manager's index is that of the scene above it, however the panel replaces that scene.
\* Scenes that exit as they enter are left out: then the index of the first is set last
\* (phina.js:12068).
THEOREM IndexCorrect ==
  ASSUME ScenesAssumption, Eager = {} PROVE Spec => []IndexIsShown
<1>1. ScenesInv /\ FlowInv => IndexIsShown
  <2> SUFFICES ASSUME ScenesInv, FlowInv, Idle, ~ astray, NEW k \in DOMAIN stack, k > 1, Is(stack[k], "content")
               PROVE  List[sceneIndex].label = scene[stack[k]].label
    BY DEF IndexIsShown
  <2>1. k \in 1 .. Depth /\ todo = <<>> /\ ~ One
    BY AtRest, StackIsCounted DEF ScenesInv
  <2>2. Showing
    BY <2>1 DEF FlowInv, Loading, Entering, Leaving, Finished, NoContent
  <2>3. k = 2 /\ sceneIndex = IndexOf(scene[stack[2]].label) /\ scene[stack[2]].label \in Label
    BY <2>1, <2>2 DEF Showing, Calm, Indexing, Named
  <2> QED BY <2>3, ContentIs
<1>2. Init => ScenesInv /\ FlowInv
  BY ScenesStart, FlowStart
<1>3. ScenesInv /\ FlowInv /\ [Next]_vars => ScenesInv' /\ FlowInv'
  <2> SUFFICES ASSUME ScenesInv, FlowInv, [Next]_vars PROVE ScenesInv' /\ FlowInv'
    OBVIOUS
  <2>1. ScenesInv'
    BY ScenesStep
  <2>2. CASE astray'
    BY <2>1, <2>2 DEF FlowInv
  <2>3. CASE ~ astray'
    BY <2>1, <2>3, FlowStep
  <2> QED BY <2>1, <2>2, <2>3
<1> QED BY <1>1, <1>2, <1>3, PTL DEF Spec

\* What the player sees moves as SceneFlow says.
LEMMA FlowMoves == ASSUME ScenesAssumption, Moves PROVE [Flow!Next]_(Flow!vars)
<1>1. /\ Flow!Label = Label /\ \A l : Flow!IndexOf(l) = IndexOf(l)
      /\ StartLabel \in Label
  BY DEF Flow!Label, Label, Flow!IndexOf, IndexOf, ScenesAssumption
<1>2. ASSUME NEW l, Follows(l) PROVE Flow!Show(l)
  BY <1>1, <1>2 DEF Follows, Flow!Show
<1>3. CASE Shown' = Shown
  BY <1>3 DEF Flow!vars
<1>4. CASE \E l \in Label : Shown.label \in Label /\ Shown'.label = Shown.label /\ Shown'.next = l
  BY <1>1, <1>4 DEF Flow!Next, Flow!Ask
<1>5. CASE Shown = Screen("loading") /\ Follows(StartLabel)
  <2>1. Shown.label = "loading"
    BY <1>5 DEF Screen, Blank
  <2> QED BY <1>2, <1>5, <2>1 DEF Flow!Next, Flow!Start
<1>6. CASE /\ Shown.label \in Label
           /\ LET n == IndexOf(Shown.label) + 1
              IN  \/ Shown.next # None /\ Follows(Shown.next)
                  \/ Shown.next = None /\ n <= Len(List) /\ Follows(List[n].label)
                  \/ Shown.next = None /\ n > Len(List) /\ Shown' = Screen("finished")
  <2> DEFINE n == IndexOf(Shown.label) + 1
  <2>1. Flow!IndexOf(Shown.label) + 1 = n /\ Shown.label \in Flow!Label
    BY <1>1, <1>6
  <2>2. Shown' = Screen("finished") => Shown'.label = "finished" /\ Shown'.next = None
    BY DEF Screen, Blank
  <2>3. Flow!Leave
    <3>1. CASE Shown.next # None /\ Follows(Shown.next)
      BY <1>2, <2>1, <3>1 DEF Flow!Leave
    <3>2. CASE Shown.next = None /\ n <= Len(List) /\ Follows(List[n].label)
      BY <1>2, <2>1, <3>2 DEF Flow!Leave
    <3>3. CASE Shown.next = None /\ n > Len(List) /\ Shown' = Screen("finished")
      BY <2>1, <2>2, <3>3 DEF Flow!Leave
    <3> QED BY <1>6, <3>1, <3>2, <3>3
  <2> QED BY <2>3 DEF Flow!Next
<1> QED BY <1>3, <1>4, <1>5, <1>6 DEF Moves

\* Without the panel the player sees one scene after the other, in the order of the list or
\* as the scenes ask, however often they exit, and whatever pauses come between
\* (phina.js:12097).
THEOREM FlowCorrect ==
  ASSUME ScenesAssumption, Eager = {}, ~ Debug PROVE Spec => ImplementsFlow
<1>1. Init => ScenesInv /\ FlowInv /\ ~ astray /\ Flow!Init
  <2> SUFFICES ASSUME Init PROVE ScenesInv /\ FlowInv /\ ~ astray /\ Flow!Init
    OBVIOUS
  <2>1. ScenesInv /\ FlowInv /\ Loading /\ ~ astray
    BY ScenesStart, FlowStart DEF Init
  <2>2. Shown = Screen("loading")
    BY <2>1, ShownIs
  <2> QED BY <2>1, <2>2 DEF Flow!Init, Screen, Blank
<1>2. ScenesInv /\ FlowInv /\ ~ astray /\ [Next]_vars =>
         ScenesInv' /\ FlowInv' /\ ~ astray' /\ [Flow!Next]_(Flow!vars)
  <2> SUFFICES ASSUME ScenesInv, FlowInv, ~ astray, [Next]_vars
               PROVE  ScenesInv' /\ FlowInv' /\ ~ astray' /\ [Flow!Next]_(Flow!vars)
    OBVIOUS
  <2>1. astray' = astray
    BY DEF Next, vars, EnterManager, EnterScene, SetsIndex, ResumeManager, NextScene, ResumeScene, Loaded,
           TouchPause, Blur, SceneExits, PanelReplaces
  <2>2. ScenesInv'
    BY ScenesStep
  <2> QED BY <2>1, <2>2, FlowStep, FlowMoves
<1> QED BY <1>1, <1>2, PTL DEF Spec, ImplementsFlow, Flow!Spec

=============================================================================
