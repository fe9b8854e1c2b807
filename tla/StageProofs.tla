------------------------------ MODULE StageProofs ------------------------------
(***************************************************************************)
(* What phina.js promises the game: time adds up, music is managed, a game *)
(* starts with its assets, fires reach their listeners, scenes follow each *)
(* other, tweens run in order, text is shown, and the tree of elements is  *)
(* walked once a frame.  Of every value of the constants the parts'        *)
(* assumptions allow.                                                      *)
(***************************************************************************)
EXTENDS MCStage, SequenceTheorems, FiniteSetTheorems, WellFoundedInduction, TLAPS

-----------------------------------------------------------------------------
(* Ticker *)

\* The clocks agree, and the date that was set during the work is known.
ClockInv ==
    /\ time \in Int /\ skew \in Int /\ due \in Int /\ frameTime \in Int
    /\ startTime \in Int /\ currentTime \in Int /\ deltaTime \in Int /\ elapsedTime \in Int
    /\ began \in Int /\ ended \in Int /\ skewed \in Int /\ waited \in Int /\ sum \in Int
    /\ elapsedTime = currentTime - startTime /\ sum = elapsedTime
    /\ tickerState = "idle" => sum = 0
    /\ tickerState = "working" => skewed = skew - (currentTime - began)
    /\ Clock!PutOffBySkew

LEMMA ClockStarts == ASSUME Clock!Init PROVE ClockInv
  BY ClockAssumption DEF Clock!Init, ClockInv, Clock!PutOffBySkew, Clock!TickerAssumption

LEMMA ClockStays == ASSUME ClockInv, UNCHANGED tickerVars PROVE ClockInv'
  BY DEF ClockInv, tickerVars, Clock!PutOffBySkew, Clock!Longer

LEMMA ClockSteps == ASSUME ClockInv, Clock!Next PROVE ClockInv'
  <1> USE ClockAssumption DEF Clock!TickerAssumption, Clock!PutOffBySkew, Clock!Longer, ClockInv,
        Clock!Date, Clock!clocks, Clock!SinceLast, Clock!Worked, Clock!Delay
  <1>1. CASE Clock!Start
    BY <1>1 DEF Clock!Start
  <1>2. CASE Clock!Tick
    BY <1>2 DEF Clock!Tick, Clock!Begin
  <1>3. CASE Clock!Done
    BY <1>3 DEF Clock!Done
  <1>4. CASE Clock!Throw
    BY <1>4 DEF Clock!Throw
  <1>5. CASE Clock!Pass
    BY <1>5 DEF Clock!Pass
  <1>6. ASSUME NEW t \in FrameTimes, Clock!SetFps(t) PROVE ClockInv'
    BY <1>6 DEF Clock!SetFps
  <1>7. ASSUME NEW d \in -MaxSkew .. MaxSkew, Clock!SetDate(d) PROVE ClockInv'
    BY <1>7 DEF Clock!SetDate
  <1>8. QED
    BY <1>1, <1>2, <1>3, <1>4, <1>5, <1>6, <1>7 DEF Clock!Next

LEMMA ClockAlways == Spec => [](part = "ticker" => ClockInv)
  <1>1. Init => (part = "ticker" => ClockInv)
    BY ClockStarts DEF Init
  <1>2. (part = "ticker" => ClockInv) /\ [Next]_vars => (part = "ticker" => ClockInv)'
    BY ClockStays, ClockSteps DEF Next, vars
  <1>3. QED
    BY <1>1, <1>2, PTL DEF Spec

-----------------------------------------------------------------------------
(* Animation *)

LEMMA Division ==
    ASSUME NEW f \in Nat, NEW q \in Nat \ {0}
    PROVE  f \div q \in Nat /\ f % q \in 0 .. q - 1 /\ f = q * (f \div q) + (f % q)
  OBVIOUS

LEMMA DivisionOf ==
    ASSUME NEW f \in Nat, NEW q \in Nat \ {0}, NEW a \in Nat, NEW b \in Nat, b < q, f = a * q + b
    PROVE  f \div q = a /\ f % q = b
  OBVIOUS

\* A time when l times q has passed.
LEMMA NotBefore ==
    ASSUME NEW t \in Nat, NEW q \in Nat \ {0}, NEW l \in Nat \ {0}, ~(t \div q < l)
    PROVE  t - l * q \in Nat /\ t - l * q < t /\ (t - l * q) \div q = (t \div q) - l
  <1> DEFINE p == t \div q
             r == t % q
             x == l * q
  <1>1. p \in Nat /\ r \in 0 .. q - 1 /\ t = q * p + r /\ p >= l /\ q \in Nat
    BY Division
  <1>2. q * p = x + (p - l) * q /\ x \in Nat /\ x > 0 /\ (p - l) * q \in Nat /\ p - l \in Nat
    <2> HIDE DEF p
    <2>1. p - l \in Nat
      BY <1>1
    <2>2. \A y \in Nat : q * (l + y) = l * q + y * q /\ y * q \in Nat
      OBVIOUS
    <2>3. p = l + (p - l)
      BY <1>1
    <2> DEFINE y == p - l
    <2>4. y \in Nat /\ p = l + y
      BY <1>1, <2>3
    <2>5. q * p = l * q + y * q /\ y * q \in Nat
      BY <2>2, <2>4
    <2>6. l * q \in Nat /\ l * q > 0
      OBVIOUS
    <2> QED  BY <2>4, <2>5, <2>6
  <1> HIDE DEF p, r, x
  <1> DEFINE y == (p - l) * q
  <1>3. y \in Nat /\ t = x + y + r /\ r \in Nat
    BY <1>1, <1>2
  <1> HIDE DEF y
  <1>4. t - x \in Nat /\ t - x < t /\ t - x = y + r
    BY <1>2, <1>3
  <1>5. (t - x) \div q = p - l
    BY <1>1, <1>2, <1>3, <1>4, DivisionOf DEF y
  <1> QED  BY <1>4, <1>5 DEF x, p

LEMMA AnimTypes ==
    ASSUME NEW n \in Sheet!Name
    PROVE  /\ Sheet!Anim(n).first \in Nat /\ Sheet!Anim(n).length \in Nat \ {0}
           /\ Sheet!Anim(n).frequency \in Nat \ {0}
           /\ Sheet!Anim(n).next \in Sheet!Name \cup {None}
           /\ Sheet!Anim(n).first + Sheet!Anim(n).length <= Cols * Rows
           /\ None \notin Sheet!Name
  <1>1. \A x, y \in Nat \ {0} : x * y \in Nat \ {0}
    OBVIOUS
  <1>2. Cols * Rows \in Nat \ {0}
    BY <1>1, SheetAssumption DEF Sheet!AnimationAssumption
  <1> QED  BY <1>2, SheetAssumption DEF Sheet!AnimationAssumption, Sheet!Name, Sheet!Anim

\* What an animation is to show, given what the shorter times are to show.
Shows(g, n, t) ==
    LET a == Sheet!Anim(n)
        i == t \div a.frequency
    IN  IF i < a.length THEN [cell |-> Sheet!Cell(a.first + i), over |-> FALSE]
        ELSE IF a.next = None THEN [cell |-> Sheet!Cell(a.first + a.length - 1), over |-> TRUE]
        ELSE g[t - a.length * a.frequency][a.next]

\* Only shorter times are looked up.
LEMMA ShowsEarlier ==
    ASSUME NEW n \in Sheet!Name, NEW t \in Nat, NEW g, NEW h,
           \A m \in Sheet!Name, u \in Nat : u < t => g[u][m] = h[u][m]
    PROVE  Shows(g, n, t) = Shows(h, n, t)
  <1> DEFINE a == Sheet!Anim(n)
             i == t \div a.frequency
  <1>1. CASE i < a.length
    BY <1>1 DEF Shows
  <1>2. CASE ~(i < a.length) /\ a.next = None
    BY <1>2 DEF Shows
  <1>3. CASE ~(i < a.length) /\ a.next # None
    <2> DEFINE u == t - a.length * a.frequency
    <2>1. a.length \in Nat \ {0} /\ a.frequency \in Nat \ {0} /\ a.next \in Sheet!Name
      BY <1>3, AnimTypes
    <2>2. u \in Nat /\ u < t
      <3>1. t - a.length * a.frequency \in Nat /\ t - a.length * a.frequency < t
        BY <1>3, <2>1, NotBefore
      <3> QED  BY <3>1
    <2>3. g[u][a.next] = h[u][a.next]
      BY <2>1, <2>2
    <2> QED  BY <1>3, <2>3 DEF Shows
  <1> QED  BY <1>1, <1>2, <1>3

\* The table of what is to be shown up to a time.
Table(T, g) == g = [t \in 0 .. T |-> [n \in Sheet!Name |-> Shows(g, n, t)]]

LEMMA TablesAgree ==
    ASSUME NEW T \in Nat, NEW U \in Nat, NEW g, NEW h, Table(T, g), Table(U, h),
           NEW n \in Sheet!Name, NEW t \in Nat, t <= T, t <= U
    PROVE  g[t][n] = h[t][n]
  <1> DEFINE B == {u \in 0 .. t : \E m \in Sheet!Name : g[u][m] # h[u][m]}
  <1>1. SUFFICES ASSUME B # {} PROVE FALSE
    BY <1>1
  <1>2. PICK u \in B : \A v \in B : ~ (<<v, u>> \in OpToRel(<, Nat))
    <2>1. B \in SUBSET Nat
      OBVIOUS
    <2> HIDE DEF B
    <2> QED  BY <1>1, <2>1, WFMin, NatLessThanWellFounded
  <1>4. u \in Nat /\ u <= t
    OBVIOUS
  <1>3. \A v \in B : ~(v < u)
    <2>1. B \subseteq Nat
      OBVIOUS
    <2> HIDE DEF B
    <2> QED  BY <1>2, <1>4, <2>1 DEF OpToRel
  <1>5. \A m \in Sheet!Name, v \in Nat : v < u => g[v][m] = h[v][m]
    BY <1>3, <1>4
  <1>6. PICK m \in Sheet!Name : g[u][m] # h[u][m]
    OBVIOUS
  <1> HIDE DEF B
  <1>7. Shows(g, m, u) = Shows(h, m, u)
    BY <1>4, <1>5, ShowsEarlier
  <1>8. g[u][m] = Shows(g, m, u) /\ h[u][m] = Shows(h, m, u)
    <2>1. u \in 0 .. T /\ u \in 0 .. U
      BY <1>4
    <2>2. g[u] = [k \in Sheet!Name |-> Shows(g, k, u)] /\ h[u] = [k \in Sheet!Name |-> Shows(h, k, u)]
      BY <2>1 DEF Table
    <2> QED  BY <2>2
  <1> QED  BY <1>6, <1>7, <1>8

LEMMA TableExists ==
    ASSUME NEW T \in Nat
    PROVE  \E g : Table(T, g)
  <1> DEFINE B == {u \in Nat : ~ \E g : Table(u, g)}
  <1>1. SUFFICES ASSUME B # {} PROVE FALSE
    BY <1>1
  <1>2. PICK u \in B : \A v \in B : ~ (<<v, u>> \in OpToRel(<, Nat))
    <2>1. B \in SUBSET Nat
      OBVIOUS
    <2> HIDE DEF B
    <2> QED  BY <1>1, <2>1, WFMin, NatLessThanWellFounded
  <1>3. u \in Nat /\ ~ \E g : Table(u, g)
    OBVIOUS
  <1>4. \A v \in B : ~(v < u)
    BY <1>2 DEF OpToRel
  <1>5. \E h : u > 0 => Table(u - 1, h)
    BY <1>3, <1>4
  <1>6. PICK h : u > 0 => Table(u - 1, h)
    BY <1>5
  <1> DEFINE g == [t \in 0 .. u |-> [n \in Sheet!Name |-> Shows(h, n, t)]]
  <1>7. ASSUME NEW n \in Sheet!Name, NEW t \in 0 .. u
        PROVE  Shows(h, n, t) = Shows(g, n, t)
    <2>1. ASSUME NEW m \in Sheet!Name, NEW v \in Nat, v < t PROVE h[v][m] = g[v][m]
      <3>1. u > 0 /\ v \in 0 .. u - 1 /\ v \in 0 .. u
        BY <1>3, <2>1
      <3>2. h[v][m] = Shows(h, m, v)
        BY <1>6, <3>1 DEF Table
      <3>3. g[v][m] = Shows(h, m, v)
        BY <3>1
      <3> QED  BY <3>2, <3>3
    <2> HIDE DEF g
    <2>2. t \in Nat
      BY <1>3
    <2> QED  BY <2>1, <2>2, ShowsEarlier
  <1>8. Table(u, g)
    BY <1>7 DEF Table
  <1> QED  BY <1>3, <1>8

\* What is shown at a time follows from what is shown at shorter ones.
LEMMA AtIsTable ==
    Sheet!At = [t \in Nat |-> [n \in Sheet!Name |-> Shows(Sheet!At, n, t)]]
  <1> DEFINE G(T) == CHOOSE g : Table(T, g)
             A == [t \in Nat |-> [n \in Sheet!Name |-> G(t)[t][n]]]
  <1>1. \A T \in Nat : Table(T, G(T))
    BY TableExists
  <1> HIDE DEF G
  <1>2. ASSUME NEW n \in Sheet!Name, NEW t \in Nat
        PROVE  A[t][n] = Shows(A, n, t)
    <2>1. A[t][n] = Shows(G(t), n, t)
      BY <1>1 DEF Table
    <2>2. ASSUME NEW m \in Sheet!Name, NEW u \in Nat, u < t PROVE G(t)[u][m] = A[u][m]
      <3>1. G(t)[u][m] = G(u)[u][m]
        BY <1>1, <2>2, TablesAgree
      <3> QED  BY <3>1
    <2> HIDE DEF A
    <2>3. Shows(G(t), n, t) = Shows(A, n, t)
      BY <2>2, ShowsEarlier
    <2> QED  BY <2>1, <2>3
  <1>3. A = [t \in Nat |-> [n \in Sheet!Name |-> Shows(A, n, t)]]
    <2> DEFINE C == [t \in Nat |-> [n \in Sheet!Name |-> Shows(A, n, t)]]
    <2>1. \A n \in Sheet!Name, t \in Nat : A[t][n] = C[t][n]
      BY <1>2
    <2> QED  BY <1>2
  <1>4. Sheet!At = CHOOSE g : g = [t \in Nat |-> [n \in Sheet!Name |-> Shows(g, n, t)]]
    BY DEF Sheet!At, Shows
  <1> HIDE DEF A
  <1> QED  BY <1>3, <1>4

LEMMA AtShows ==
    ASSUME NEW n \in Sheet!Name, NEW t \in Nat
    PROVE  Sheet!At[t][n] = Shows(Sheet!At, n, t)
  BY AtIsTable

-----------------------------------------------------------------------------
\* How long the animation that was called for has played.
Played == IF owed /\ ticks > 0 THEN ticks - 1 ELSE ticks

\* What an animation was called for shows from here on is what the current one does.
OnItsWay ==
    \A d \in Nat : Sheet!At[Played + d][called] = Sheet!At[frame + d][current]

SheetTypes ==
    /\ finished \in BOOLEAN /\ paused \in BOOLEAN /\ owed \in BOOLEAN
    /\ ticks \in Nat /\ frame \in Nat /\ index \in Nat

\* The current animation has just been called for, goes on, or has come to its end.
JustCalled ==
    /\ ticks = 0 /\ (finished <=> owed) /\ current = called /\ frame = 0 /\ index = 0
    /\ shown = Sheet!Cell(Sheet!Anim(called).first)
GoesOn ==
    /\ ticks > 0 /\ ~finished /\ ~paused /\ OnItsWay
    /\ index = frame \div Sheet!Anim(current).frequency
    /\ index < Sheet!Anim(current).length
    /\ shown = Sheet!Cell(Sheet!Anim(current).first + index)
AtItsEnd ==
    /\ ticks > 0 /\ finished /\ paused
    /\ Sheet!At[Played][called] = [cell |-> shown, over |-> TRUE]
    /\ \E n \in Sheet!Name :
          shown = Sheet!Cell(Sheet!Anim(n).first + Sheet!Anim(n).length - 1)

SheetInv ==
    /\ SheetTypes
    /\ called \in Sheet!Name =>
          current \in Sheet!Name /\ (JustCalled \/ GoesOn \/ AtItsEnd)
    /\ called \notin Sheet!Name => current = None
    /\ shown # None => \E n \in Sheet!Name, i \in Nat :
          i < Sheet!Anim(n).length /\ shown = Sheet!Cell(Sheet!Anim(n).first + i)

LEMMA SheetStarts ==
    ASSUME Sheet!Init
    PROVE  SheetInv
  <1>1. None \notin Sheet!Name
    BY SheetAssumption DEF Sheet!AnimationAssumption, Sheet!Name
  <1> QED  BY <1>1 DEF Sheet!Init, SheetInv, SheetTypes

LEMMA SheetStays ==
    ASSUME SheetInv, UNCHANGED animationVars
    PROVE  SheetInv'
  BY DEF animationVars, SheetInv, SheetTypes, JustCalled, GoesOn, AtItsEnd, OnItsWay, Played

LEMMA SheetCalled ==
    ASSUME SheetInv, NEW n \in Sheet!Name \cup {"unknown"}, NEW stop \in BOOLEAN,
           Sheet!Call(n, stop)
    PROVE  SheetInv'
  <1>1. /\ frame' = 0 /\ index' = 0 /\ finished' = finished
        /\ called' = n /\ ticks' = 0 /\ owed' = finished
    BY DEF Sheet!Call, Sheet!Goto, Sheet!Recount
  <1>2. CASE n \in Sheet!Name
    <2>1. current' = n /\ shown' = Sheet!Cell(Sheet!Anim(n).first) /\ paused' = stop
      BY <1>2 DEF Sheet!Call, Sheet!Goto
    <2>2. SheetTypes'
      BY <1>1, <2>1 DEF SheetInv, SheetTypes
    <2>3. JustCalled'
      BY <1>1, <2>1 DEF JustCalled
    <2>4. \E m \in Sheet!Name, i \in Nat :
             i < Sheet!Anim(m).length /\ shown' = Sheet!Cell(Sheet!Anim(m).first + i)
      <3>1. 0 \in Nat /\ 0 < Sheet!Anim(n).length /\ Sheet!Anim(n).first + 0 = Sheet!Anim(n).first
        BY <1>2, AnimTypes
      <3> QED  BY <1>2, <2>1, <3>1
    <2> QED  BY <1>1, <1>2, <2>1, <2>2, <2>3, <2>4 DEF SheetInv
  <1>3. CASE n \notin Sheet!Name
    <2>1. current' = None /\ UNCHANGED <<shown, paused>>
      BY <1>3 DEF Sheet!Call, Sheet!Goto
    <2> QED  BY <1>1, <1>3, <2>1 DEF SheetInv, SheetTypes
  <1> QED  BY <1>2, <1>3

\* A frame further: in the same cell, in the next, or after the last.
LEMMA FrameFurther ==
    ASSUME NEW f \in Nat, NEW q \in Nat \ {0}
    PROVE  /\ (f + 1) % q = 0 => (f + 1) \div q = (f \div q) + 1
           /\ (f + 1) % q # 0 => (f + 1) \div q = f \div q
  <1> DEFINE a == f \div q
             r == f % q
  <1>1. a \in Nat /\ r \in 0 .. q - 1 /\ f = q * a + r /\ q \in Nat
    BY Division
  <1>2. \A x \in Nat : q * x = x * q /\ (x + 1) * q = q * x + q /\ q * x \in Nat
    OBVIOUS
  <1> HIDE DEF a, r
  <1>3. CASE r = q - 1
    <2>1. f + 1 = (a + 1) * q + 0 /\ f + 1 \in Nat /\ a + 1 \in Nat
      <3>1. q * a \in Nat /\ (a + 1) * q = q * a + q
        BY <1>1, <1>2
      <3> QED  BY <1>1, <1>3, <3>1
    <2>2. (f + 1) \div q = a + 1 /\ (f + 1) % q = 0
      <3> DEFINE g == f + 1
      <3>1. g \in Nat /\ g = (a + 1) * q + 0 /\ a + 1 \in Nat /\ 0 < q
        BY <1>1, <2>1
      <3> HIDE DEF g
      <3>2. g \div q = a + 1 /\ g % q = 0
        BY <3>1, DivisionOf
      <3> QED  BY <3>2 DEF g
    <2> QED  BY <2>2 DEF a
  <1>4. CASE r < q - 1
    <2> DEFINE g == f + 1
    <2>1. g = a * q + (r + 1) /\ g \in Nat /\ r + 1 \in Nat /\ r + 1 < q
      <3>1. q * a \in Nat /\ a * q = q * a
        BY <1>1, <1>2
      <3> QED  BY <1>1, <1>4, <3>1
    <2> HIDE DEF g
    <2>2. g \div q = a /\ g % q = r + 1
      BY <1>1, <2>1, DivisionOf
    <2>3. r + 1 # 0
      BY <1>1
    <2> QED  BY <2>2, <2>3 DEF a, g
  <1> QED  BY <1>1, <1>3, <1>4

LEMMA AfterAll ==
    ASSUME NEW l \in Nat, NEW q \in Nat \ {0}, NEW d \in Nat
    PROVE  l * q + d \in Nat /\ ~((l * q + d) \div q < l)
  <1> DEFINE x == l * q
             t == x + d
             p == t \div q
             r == t % q
  <1>1. x \in Nat /\ t \in Nat
    <2>1. x \in Nat
      OBVIOUS
    <2> HIDE DEF x
    <2> QED  BY <2>1
  <1>2. p \in Nat /\ r \in 0 .. q - 1 /\ t = q * p + r /\ q \in Nat
    <2> HIDE DEF t
    <2> QED  BY <1>1, Division
  <1>3. t >= x
    <2> HIDE DEF x
    <2> QED  BY <1>1
  <1>4. \A a, b \in Nat : a < b => q * a + q <= b * q /\ q * a \in Nat
    OBVIOUS
  <1> HIDE DEF p, r, t
  <1>5. ASSUME p < l PROVE FALSE
    <2>1. q * p + q <= x /\ q * p \in Nat
      BY <1>2, <1>4, <1>5
    <2> HIDE DEF x
    <2> QED  BY <1>1, <1>2, <1>3, <2>1
  <1> QED  BY <1>1, <1>5 DEF p, t, x

\* The animation goes on for one more update.
LEMMA SheetFurther ==
    ASSUME SheetTypes, called \in Sheet!Name, current \in Sheet!Name, ~finished, ~paused,
           OnItsWay, index = frame \div Sheet!Anim(current).frequency,
           index < Sheet!Anim(current).length,
           shown = Sheet!Cell(Sheet!Anim(current).first + index),
           Sheet!Update, Played' = Played + 1, Played \in Nat
    PROVE  current' \in Sheet!Name /\ SheetTypes' /\ (GoesOn' \/ AtItsEnd')
  <1> DEFINE a == Sheet!Anim(current)
             q == a.frequency
             l == a.length
  <1>1. /\ a.first \in Nat /\ l \in Nat \ {0} /\ q \in Nat \ {0}
        /\ a.next \in Sheet!Name \cup {None} /\ None \notin Sheet!Name
    BY AnimTypes
  <1>2. /\ frame \in Nat /\ index \in Nat /\ ticks \in Nat /\ frame + 1 \in Nat
        /\ ticks' = ticks + 1 /\ ticks' \in Nat /\ ticks' > 0 /\ called' = called /\ owed' = owed
        /\ owed \in BOOLEAN
    BY DEF SheetTypes, Sheet!Update
  <1>3. \A d \in Nat : Sheet!At[Played + 1 + d][called] = Sheet!At[frame + 1 + d][current]
    <2>1. \A d \in Nat : /\ d + 1 \in Nat /\ Played + (d + 1) = Played + 1 + d
                         /\ frame + (d + 1) = frame + 1 + d
      BY <1>2
    <2> QED  BY <2>1 DEF OnItsWay
  <1>4. /\ (frame + 1) % q = 0 => (frame + 1) \div q = index + 1
        /\ (frame + 1) % q # 0 => (frame + 1) \div q = index
    BY <1>1, <1>2, FrameFurther
  <1>5. CASE (frame + 1) % q # 0
    <2>1. frame' = frame + 1 /\ UNCHANGED <<current, index, paused, finished, shown>>
      BY <1>5 DEF Sheet!Update
    <2>2. OnItsWay'
      BY <1>2, <1>3, <2>1 DEF OnItsWay
    <2> QED  BY <1>2, <1>4, <1>5, <2>1, <2>2 DEF GoesOn, SheetTypes
  <1>6. CASE (frame + 1) % q = 0 /\ index + 1 < l
    <2>1. /\ frame' = frame + 1 /\ index' = index + 1 /\ UNCHANGED <<current, paused, finished>>
          /\ shown' = Sheet!Cell(a.first + index + 1)
      <3>1. ~Sheet!AtEnd(index + 1)
        BY <1>1, <1>2, <1>6 DEF Sheet!AtEnd
      <3> QED  BY <1>6, <3>1 DEF Sheet!Update, Sheet!UpdateFrame
    <2>2. OnItsWay'
      BY <1>2, <1>3, <2>1 DEF OnItsWay
    <2>3. a.first + index + 1 = a.first + (index + 1)
      BY <1>1, <1>2
    <2> QED  BY <1>2, <1>4, <1>6, <2>1, <2>2, <2>3 DEF GoesOn, SheetTypes
  <1>7. CASE (frame + 1) % q = 0 /\ ~(index + 1 < l)
    <2>1. index + 1 = l /\ l - 1 = index
      BY <1>1, <1>2, <1>7
    <2>2. frame + 1 = l * q
      <3> DEFINE f == frame + 1
      <3>1. f \in Nat /\ f \div q = l /\ f % q = 0
        BY <1>2, <1>4, <1>7, <2>1
      <3> HIDE DEF f
      <3>2. f = q * l + 0
        BY <1>1, <3>1, Division
      <3>3. q * l \in Nat /\ q * l = l * q
        BY <1>1
      <3>4. f = l * q
        <4> DEFINE x == q * l
        <4>1. f = x + 0 /\ x \in Nat /\ x = l * q
          BY <3>2, <3>3
        <4> HIDE DEF x
        <4> QED  BY <4>1
      <3> QED  BY <3>4 DEF f
    <2>3. CASE a.next # None
      <3>1. /\ frame' = 0 /\ index' = 0 /\ current' = a.next /\ paused' = FALSE
            /\ shown' = Sheet!Cell(Sheet!Anim(a.next).first) /\ finished' = finished
        BY <1>1, <1>2, <1>7, <2>3 DEF Sheet!Update, Sheet!UpdateFrame, Sheet!AtEnd, Sheet!Goto, Sheet!Recount
      <3>2. ASSUME NEW d \in Nat
            PROVE  Sheet!At[frame + 1 + d][current] = Sheet!At[d][a.next]
        <4> DEFINE x == l * q
                   t == x + d
        <4>1. t \in Nat /\ ~(t \div q < l)
          BY <1>1, AfterAll
        <4>2. t - x = d
          <5>1. x \in Nat
            BY <1>1
          <5> HIDE DEF x
          <5> QED  BY <5>1
        <4> HIDE DEF t
        <4>3. Shows(Sheet!At, current, t) = Sheet!At[t - x][a.next]
          BY <2>3, <4>1 DEF Shows
        <4>4. Sheet!At[t][current] = Sheet!At[d][a.next]
          BY <4>1, <4>2, <4>3, AtShows
        <4> QED  BY <2>2, <4>4 DEF t
      <3>3. OnItsWay'
        <4>1. \A d \in Nat : 0 + d = d
          OBVIOUS
        <4> QED  BY <1>2, <1>3, <3>1, <3>2, <4>1 DEF OnItsWay
      <3>4. /\ 0 \div Sheet!Anim(a.next).frequency = 0 /\ 0 < Sheet!Anim(a.next).length
            /\ Sheet!Anim(a.next).first + 0 = Sheet!Anim(a.next).first
        <4> DEFINE b == Sheet!Anim(a.next)
        <4>1. b.frequency \in Nat \ {0} /\ b.length \in Nat \ {0} /\ b.first \in Nat
          BY <1>1, <2>3, AnimTypes
        <4> HIDE DEF b
        <4> QED  BY <4>1 DEF b
      <3>5. GoesOn'
        BY <1>2, <3>1, <3>3, <3>4 DEF GoesOn
      <3> QED  BY <1>1, <1>2, <2>3, <3>1, <3>5 DEF SheetTypes
    <2>4. CASE a.next = None
      <3>1. /\ frame' = frame + 1 /\ index' = index + 1 /\ paused' = TRUE /\ finished' = TRUE
            /\ UNCHANGED <<current, shown>>
        BY <1>1, <1>2, <1>7, <2>4 DEF Sheet!Update, Sheet!UpdateFrame, Sheet!AtEnd
      <3>2. Sheet!At[frame + 1][current] = [cell |-> shown, over |-> TRUE]
        <4> DEFINE t == frame + 1
        <4>1. t \in Nat /\ ~(t \div q < l) /\ shown = Sheet!Cell(a.first + l - 1)
          <5>1. a.first + l - 1 = a.first + index
            BY <1>1, <1>2, <2>1
          <5>2. ~(t \div q < l)
            BY <1>1, <1>4, <1>7, <2>1
          <5> QED  BY <1>2, <5>1, <5>2
        <4> HIDE DEF t
        <4>2. Shows(Sheet!At, current, t) = [cell |-> shown, over |-> TRUE]
          BY <2>4, <4>1 DEF Shows
        <4> QED  BY <4>1, <4>2, AtShows DEF t
      <3>3. Sheet!At[Played + 1][called] = [cell |-> shown, over |-> TRUE]
        <4>1. Played + 1 + 0 = Played + 1 /\ frame + 1 + 0 = frame + 1
          BY <1>2
        <4> QED  BY <1>3, <3>2, <4>1
      <3>4. shown = Sheet!Cell(a.first + l - 1)
        <4>1. a.first + l - 1 = a.first + index
          BY <1>1, <1>2, <2>1
        <4> QED  BY <4>1
      <3>5. AtItsEnd'
        BY <1>2, <3>1, <3>3, <3>4 DEF AtItsEnd
      <3> QED  BY <1>2, <3>1, <3>5 DEF SheetTypes
    <2> QED  BY <2>3, <2>4
  <1> QED  BY <1>5, <1>6, <1>7

LEMMA SheetUpdated ==
    ASSUME SheetInv, Sheet!Update
    PROVE  SheetInv'
  <1>1. /\ SheetTypes /\ ~paused /\ current # None
        /\ ticks' = ticks + 1 /\ UNCHANGED <<called, owed>> /\ ticks \in Nat
    BY DEF SheetInv, SheetTypes, Sheet!Update
  <1>2. called \in Sheet!Name /\ current \in Sheet!Name /\ (JustCalled \/ GoesOn)
    BY <1>1 DEF SheetInv, AtItsEnd
  <1>3. current' \in Sheet!Name /\ SheetTypes' /\ (GoesOn' \/ AtItsEnd')
    <2>1. CASE JustCalled /\ finished
      <3>1. finished' = FALSE /\ index' = 0 /\ UNCHANGED <<current, frame, paused, shown>>
        BY <2>1 DEF Sheet!Update
      <3>2. current = called /\ frame = 0 /\ ticks = 0 /\ owed = TRUE
            /\ shown = Sheet!Cell(Sheet!Anim(called).first)
        BY <1>1, <2>1 DEF JustCalled, SheetTypes
      <3>3. Played' = 0
        BY <1>1, <3>2 DEF Played
      <3>4. OnItsWay'
        BY <1>1, <3>1, <3>2, <3>3 DEF OnItsWay
      <3>5. /\ 0 \div Sheet!Anim(called).frequency = 0 /\ 0 < Sheet!Anim(called).length
            /\ Sheet!Anim(called).first + 0 = Sheet!Anim(called).first
        <4> DEFINE b == Sheet!Anim(called)
        <4>1. b.frequency \in Nat \ {0} /\ b.length \in Nat \ {0} /\ b.first \in Nat
          BY <1>2, AnimTypes
        <4> HIDE DEF b
        <4> QED  BY <4>1 DEF b
      <3>6. GoesOn'
        BY <1>1, <3>1, <3>2, <3>4, <3>5 DEF GoesOn
      <3>7. SheetTypes'
        <4>1. ticks' \in Nat /\ frame' = 0 /\ paused' \in BOOLEAN /\ owed' \in BOOLEAN
          BY <1>1, <3>1, <3>2 DEF SheetTypes
        <4>2. 0 \in Nat /\ FALSE \in BOOLEAN
          OBVIOUS
        <4>3. frame' \in Nat /\ index' \in Nat /\ finished' \in BOOLEAN
          BY <3>1, <4>1, <4>2, Zenon
        <4> QED  BY <4>1, <4>3 DEF SheetTypes
      <3> QED  BY <1>2, <3>1, <3>6, <3>7
    <2>2. CASE JustCalled /\ ~finished
      <3>1. current = called /\ frame = 0 /\ index = 0 /\ ticks = 0 /\ owed = FALSE
            /\ shown = Sheet!Cell(Sheet!Anim(called).first)
        BY <1>1, <2>2 DEF JustCalled, SheetTypes
      <3>2. Played = 0 /\ Played' = 1
        BY <1>1, <3>1 DEF Played
      <3>3. OnItsWay
        BY <3>1, <3>2 DEF OnItsWay
      <3>4. /\ 0 \div Sheet!Anim(called).frequency = 0 /\ 0 < Sheet!Anim(called).length
            /\ Sheet!Anim(called).first + 0 = Sheet!Anim(called).first
        <4> DEFINE b == Sheet!Anim(called)
        <4>1. b.frequency \in Nat \ {0} /\ b.length \in Nat \ {0} /\ b.first \in Nat
          BY <1>2, AnimTypes
        <4> HIDE DEF b
        <4> QED  BY <4>1 DEF b
      <3>5. Played' = Played + 1 /\ Played \in Nat
        BY <3>2
      <3> QED  BY <1>1, <1>2, <2>2, <3>1, <3>3, <3>4, <3>5, SheetFurther
    <2>3. CASE GoesOn
      <3>1. Played' = Played + 1 /\ Played \in Nat
        BY <1>1, <2>3 DEF Played, GoesOn
      <3> QED  BY <1>1, <1>2, <2>3, <3>1, SheetFurther DEF GoesOn
    <2> QED  BY <1>2, <2>1, <2>2, <2>3
  <1>4. \E n \in Sheet!Name, i \in Nat :
           i < Sheet!Anim(n).length /\ shown' = Sheet!Cell(Sheet!Anim(n).first + i)
    <2>1. CASE GoesOn'
      <3>1. index' \in Nat
        BY <1>3 DEF SheetTypes
      <3> QED  BY <1>3, <2>1, <3>1 DEF GoesOn
    <2>2. CASE AtItsEnd'
      <3>1. PICK n \in Sheet!Name : shown' = Sheet!Cell(Sheet!Anim(n).first + Sheet!Anim(n).length - 1)
        BY <2>2 DEF AtItsEnd
      <3> DEFINE b == Sheet!Anim(n)
                 i == b.length - 1
      <3>2. b.length \in Nat \ {0} /\ b.first \in Nat
        BY AnimTypes
      <3>3. i \in Nat /\ i < b.length /\ b.first + i = b.first + b.length - 1
        BY <3>2
      <3> HIDE DEF i
      <3> QED  BY <3>1, <3>3
    <2> QED  BY <1>3, <2>1, <2>2
  <1> QED  BY <1>1, <1>2, <1>3, <1>4 DEF SheetInv

LEMMA SheetShows ==
    ASSUME SheetInv
    PROVE  Sheet!ShownOnTime /\ Sheet!OneCellEach
  <1>1. ASSUME called \in Sheet!Name
        PROVE  shown = Sheet!At[Played][called].cell /\ (ticks > 0 => paused = Sheet!At[Played][called].over)
    <2>1. current \in Sheet!Name /\ SheetTypes
      BY <1>1 DEF SheetInv
    <2>2. CASE JustCalled
      <3> DEFINE b == Sheet!Anim(called)
      <3>1. b.frequency \in Nat \ {0} /\ b.length \in Nat \ {0} /\ b.first \in Nat
        BY <1>1, AnimTypes
      <3>2. 0 \div b.frequency = 0 /\ 0 < b.length /\ b.first + 0 = b.first
        <4> HIDE DEF b
        <4> QED  BY <3>1
      <3>3. Played = 0 /\ ~(ticks > 0)
        BY <2>2 DEF JustCalled, Played
      <3>4. Sheet!At[0][called] = [cell |-> Sheet!Cell(b.first), over |-> FALSE]
        <4>1. Shows(Sheet!At, called, 0) = [cell |-> Sheet!Cell(b.first), over |-> FALSE]
          BY <3>2 DEF Shows
        <4> QED  BY <1>1, <4>1, AtShows
      <3> QED  BY <2>2, <3>3, <3>4 DEF JustCalled
    <2>3. CASE GoesOn
      <3>1. Played \in Nat /\ frame \in Nat /\ Played + 0 = Played /\ frame + 0 = frame
        BY <2>1 DEF SheetTypes, Played
      <3>2. Sheet!At[Played][called] = Sheet!At[frame][current]
        BY <2>3, <3>1 DEF GoesOn, OnItsWay
      <3>3. Shows(Sheet!At, current, frame) = [cell |-> shown, over |-> FALSE]
        BY <2>3 DEF GoesOn, Shows
      <3>4. Sheet!At[frame][current] = [cell |-> shown, over |-> FALSE]
        BY <2>1, <3>1, <3>3, AtShows
      <3>5. paused = FALSE
        BY <2>1, <2>3 DEF GoesOn, SheetTypes
      <3>6. Sheet!At[Played][called] = [cell |-> shown, over |-> FALSE]
        BY <3>2, <3>4
      <3> DEFINE z == Sheet!At[Played][called]
      <3>7. z.cell = shown /\ z.over = FALSE
        BY <3>6
      <3> HIDE DEF z
      <3> QED  BY <3>5, <3>7 DEF z
    <2>4. CASE AtItsEnd
      BY <2>1, <2>4 DEF AtItsEnd, SheetTypes
    <2> QED  BY <1>1, <2>2, <2>3, <2>4 DEF SheetInv
  <1>2. Sheet!ShownOnTime
    BY <1>1 DEF Sheet!ShownOnTime, Played
  <1>3. Cols \in Nat \ {0} /\ Rows \in Nat \ {0}
    BY SheetAssumption DEF Sheet!AnimationAssumption
  <1>4. \A i \in Nat : /\ i \div Cols \in Nat /\ i % Cols \in 0 .. Cols - 1
                       /\ i = Cols * (i \div Cols) + (i % Cols)
    BY <1>3, Division
  <1>5. \A i, j \in 0 .. Cols * Rows - 1 : i # j => Sheet!Cell(i) # Sheet!Cell(j)
    <2>1. Cols * Rows \in Nat
      BY <1>3
    <2> DEFINE x == Cols * Rows
    <2>2. x \in Nat
      BY <2>1
    <2> HIDE DEF x
    <2>3. \A i \in 0 .. x - 1 : i \in Nat
      BY <2>2
    <2>4. ASSUME NEW i \in 0 .. x - 1, NEW j \in 0 .. x - 1, Sheet!Cell(i) = Sheet!Cell(j) PROVE i = j
      <3>1. i % Cols = j % Cols /\ i \div Cols = j \div Cols
        BY <2>4 DEF Sheet!Cell
      <3> QED  BY <1>4, <2>3, <3>1
    <2> QED  BY <2>4 DEF x
  <1>6. ASSUME shown # None PROVE shown[1] < Cols /\ shown[2] < Rows
    <2>1. PICK n \in Sheet!Name, i \in Nat :
             i < Sheet!Anim(n).length /\ shown = Sheet!Cell(Sheet!Anim(n).first + i)
      BY <1>6 DEF SheetInv
    <2> DEFINE b == Sheet!Anim(n)
               j == b.first + i
               x == Cols * Rows
    <2>2. b.first \in Nat /\ b.length \in Nat /\ b.first + b.length <= x /\ x \in Nat
      BY <1>3, AnimTypes
    <2>3. j \in Nat /\ j < x
      <3> HIDE DEF b, x
      <3> QED  BY <2>1, <2>2 DEF b
    <2>4. shown[1] = j % Cols /\ shown[2] = j \div Cols
      BY <2>1 DEF Sheet!Cell
    <2> HIDE DEF j
    <2>5. j \div Cols \in Nat /\ j % Cols \in 0 .. Cols - 1 /\ j = Cols * (j \div Cols) + (j % Cols)
      BY <1>4, <2>3
    <2>6. j \div Cols < Rows
      <3> DEFINE p == j \div Cols
      <3> SUFFICES ASSUME p >= Rows PROVE FALSE
        BY <1>3, <2>5
      <3>1. p \in Nat /\ p >= Rows
        BY <2>5
      <3> HIDE DEF p
      <3>2. Cols * p >= Cols * Rows /\ Cols * p \in Nat
        BY <1>3, <3>1
      <3> DEFINE y == Cols * p
      <3>3. y >= x /\ y \in Nat /\ j = y + (j % Cols) /\ (j % Cols) \in Nat
        BY <1>3, <2>5, <3>2 DEF p
      <3> HIDE DEF x, y
      <3> QED  BY <2>2, <2>3, <3>3
    <2> QED  BY <1>3, <2>4, <2>5, <2>6
  <1> QED  BY <1>2, <1>5, <1>6 DEF Sheet!OneCellEach

\* Frames add up to what all took, and an animation shows each cell for as long as it says,
\* whatever the date is set to and whatever was played before (phina.js:3628, 8852).
THEOREM TimeAlwaysAddsUp == Spec => []TimeAddsUp
  <1> DEFINE Inv == part = "animation" => SheetInv
  <1>1. Init => Inv
    BY SheetStarts DEF Init
  <1>2. Inv /\ [Next]_vars => Inv'
    <2>1. ASSUME Inv, Next PROVE Inv'
      <3>1. ASSUME SheetInv, Sheet!Next PROVE SheetInv'
        BY <3>1, SheetUpdated, SheetCalled DEF Sheet!Next, Sheet!GotoAndPlay, Sheet!GotoAndStop
      <3> QED  BY <2>1, <3>1 DEF Next
    <2>2. ASSUME Inv, UNCHANGED vars PROVE Inv'
      BY <2>2, SheetStays DEF vars
    <2> QED  BY <2>1, <2>2
  <1>3. Inv => (part = "animation" => Sheet!ShownOnTime /\ Sheet!OneCellEach)
    BY SheetShows
  <1>4. ClockInv => Clock!DeltasAddUp /\ Clock!PutOffBySkew
    BY DEF ClockInv, Clock!DeltasAddUp
  <1>5. Spec => [](part = "ticker" => ClockInv)
    BY ClockAlways
  <1>6. Inv /\ (part = "ticker" => ClockInv) => TimeAddsUp
    BY <1>3, <1>4 DEF TimeAddsUp
  <1> QED  BY <1>1, <1>2, <1>5, <1>6, PTL DEF Spec

-----------------------------------------------------------------------------
(* Labels *)

LineOf(n) == [i \in 1 .. n |-> 2 * (i - 1) * TextSize + Text!TwiceOffset(n)]

\* What is not dirty shows what the properties say, unless the bounding type was set.
LabelInv ==
    /\ DOMAIN prop = Text!Property /\ prop["text"] \in 1 .. MaxLines
    /\ boundingType \in {"rect", "circle"}
    /\ dirty \in BOOLEAN /\ watchDraw \in BOOLEAN /\ retyped \in BOOLEAN /\ touched \in BOOLEAN
    /\ ~dirty /\ ~retyped => picture = Text!Rendered
    /\ picture = None \/ \E n \in 1 .. MaxLines : picture.lines = LineOf(n)
    /\ Text!PictureFollows
    /\ Text!CleanIfDrawn

\* The lines of a text are centred, whatever their number and size.
LEMMA LineOfCentred ==
    ASSUME NEW n \in Nat \ {0} PROVE LineOf(n)[1] + LineOf(n)[Len(LineOf(n))] = 0
  <1> USE TextAssumption DEF Text!LabelsAssumption
  <1> DEFINE h == n \div 2
  <1>1. h \in Nat /\ ((n = 2 * h /\ (n + 1) % 2 = 1) \/ (n = 2 * h + 1 /\ (n + 1) % 2 = 0))
    OBVIOUS
  <1>2. Text!TwiceOffset(n) \in Int /\ LineOf(n) \in Seq(Int) /\ Len(LineOf(n)) = n
    <2>1. Text!TwiceOffset(n) \in Int
      BY DEF Text!TwiceOffset
    <2>2. \A i \in 1 .. n : 2 * (i - 1) * TextSize + Text!TwiceOffset(n) \in Int
      BY <2>1
    <2> QED  BY <2>1, <2>2 DEF LineOf
  <1>3. LineOf(n)[1] = Text!TwiceOffset(n)
        /\ LineOf(n)[n] = 2 * (n - 1) * TextSize + Text!TwiceOffset(n)
    BY <1>2 DEF LineOf
  <1>4. CASE n = 2 * h /\ (n + 1) % 2 = 1
    <2>1. Text!TwiceOffset(n) = -2 * h * TextSize + TextSize
      BY <1>4, <1>1 DEF Text!TwiceOffset
    <2> HIDE DEF h
    <2> QED  BY <1>1, <1>2, <1>3, <1>4, <2>1
  <1>5. CASE n = 2 * h + 1 /\ (n + 1) % 2 = 0
    <2>1. Text!TwiceOffset(n) = -2 * h * TextSize
      BY <1>5, <1>1 DEF Text!TwiceOffset
    <2> HIDE DEF h
    <2> QED  BY <1>1, <1>2, <1>3, <1>5, <2>1
  <1> QED  BY <1>1, <1>4, <1>5

LEMMA LabelStarts == ASSUME Text!Init PROVE LabelInv
  <1>1. prop["text"] \in 1 .. MaxLines
    <2>1. prop["text"] = CHOOSE v \in 1 .. MaxLines : v # 0
      BY DEF Text!Init, Text!Property, Text!Value
    <2>2. 1 \in 1 .. MaxLines /\ 1 # 0
      BY TextAssumption DEF Text!LabelsAssumption
    <2> QED  BY <2>1, <2>2
  <1>2. DOMAIN prop = Text!Property
    BY DEF Text!Init
  <1> QED  BY <1>1, <1>2 DEF Text!Init, LabelInv, Text!PictureFollows, Text!CleanIfDrawn

\* A property that is set to what it reads as leaves the picture as it is.
LEMMA SetUnchanged ==
    ASSUME LabelInv, NEW k \in Text!Property, NEW v, Text!Set(k, v), v = Text!Get(k)
    PROVE  Text!Rendered' = Text!Rendered
  <1>1. boundingType \in {"rect", "circle"} /\ boundingType' = boundingType
        /\ prop' = [prop EXCEPT ![k] = v] /\ DOMAIN prop = Text!Property
    BY DEF LabelInv, Text!Set
  <1>2. /\ prop'["text"] = prop["text"] /\ prop'["stroke"] = prop["stroke"]
        /\ prop'["strokeWidth"] = prop["strokeWidth"] /\ prop'["fill"] = prop["fill"]
        /\ prop'["shadow"] = prop["shadow"]
    BY <1>1 DEF Text!Get, Text!Property
  <1>3. Text!Width' = Text!Width
    <2>1. CASE boundingType = "rect"
      BY <1>1, <2>1 DEF Text!Get, Text!Width, Text!Property
    <2>2. CASE boundingType = "circle"
      BY <1>1, <2>2 DEF Text!Get, Text!Width, Text!Radius, Text!Property
    <2> QED  BY <1>1, <2>1, <2>2
  <1> QED  BY <1>2, <1>3 DEF Text!Rendered, Text!IsStrokable

LEMMA LabelSteps == ASSUME LabelInv, Text!Next PROVE LabelInv'
  <1> USE DEF LabelInv, Text!PictureFollows, Text!CleanIfDrawn
  <1>1. ASSUME NEW k \in Text!Property, NEW v \in Text!Value(k), Text!Set(k, v) PROVE LabelInv'
    <2>1. DOMAIN prop' = Text!Property /\ prop'["text"] \in 1 .. MaxLines
      BY <1>1 DEF Text!Set, Text!Property, Text!Value
    <2>2. v = Text!Get(k) => Text!Rendered' = Text!Rendered
      BY <1>1, SetUnchanged
    <2> QED  BY <1>1, <2>1, <2>2 DEF Text!Set, Text!Changed
  <1>2. ASSUME NEW t \in {"rect", "circle"}, Text!SetBoundingType(t) PROVE LabelInv'
    <2>1. t = boundingType => Text!Rendered' = Text!Rendered
      BY <1>2 DEF Text!SetBoundingType, Text!Rendered, Text!Width, Text!IsStrokable
    <2> QED  BY <1>2, <2>1 DEF Text!SetBoundingType
  <1>3. CASE Text!Enterframe
    <2>1. Text!Rendered' = Text!Rendered /\ Text!Rendered.lines = LineOf(prop["text"])
      BY <1>3 DEF Text!Enterframe, Text!Rendered, Text!Width, Text!IsStrokable, LineOf
    <2>2. CASE watchDraw /\ dirty
      BY <1>3, <2>1, <2>2 DEF Text!Enterframe, Text!Cleaned
    <2>3. CASE watchDraw /\ ~dirty
      BY <1>3, <2>1, <2>3 DEF Text!Enterframe
    <2>4. CASE ~watchDraw
      BY <1>3, <2>1, <2>4 DEF Text!Enterframe
    <2> QED  BY <2>2, <2>3, <2>4
  <1>4. CASE Text!SetWatchDraw
    BY <1>4 DEF Text!SetWatchDraw, Text!Rendered, Text!Width, Text!IsStrokable
  <1> QED
    BY <1>1, <1>2, <1>3, <1>4 DEF Text!Next

LEMMA LabelStays == ASSUME LabelInv, UNCHANGED labelsVars PROVE LabelInv'
  BY DEF LabelInv, labelsVars, Text!PictureFollows, Text!CleanIfDrawn, Text!Rendered, Text!Width,
         Text!IsStrokable

LEMMA LabelCentres == ASSUME LabelInv PROVE Text!LinesCentred
  BY LineOfCentred DEF LabelInv, Text!LinesCentred

-----------------------------------------------------------------------------
(* Sounds *)

FadeRecord(music, levels) ==
    [music : music, dir : {"in", "out"}, counter : 0 .. Steps - 1, volume : levels]

SoundTypes(music, levels) ==
    /\ Sound(music, levels)!TypeOK
    /\ fades \in Seq(FadeRecord(music, levels)) /\ musicVolume \in levels /\ muteFlag \in BOOLEAN

\* Music that was left alone while it was faded is faded by one interval, in while it is
\* current and out when it is not, to the volume that is set, and has no source but its own.
SoundOrder(music, levels) ==
    \A m \in music \ crossed :
        /\ lost[m] = {}
        /\ \A i, k \in DOMAIN fades : fades[i].music = m /\ fades[k].music = m => i = k
        /\ \A i \in DOMAIN fades : fades[i].music = m =>
              IF m = currentMusic THEN fades[i].dir = "in" /\ fades[i].volume = musicVolume
              ELSE fades[i].dir = "out"

SoundInv(music, levels) ==
    /\ SoundTypes(music, levels) /\ SoundOrder(music, levels)
    /\ Sound(music, levels)!OneMusic /\ Sound(music, levels)!VolumeSettles
    /\ Sound(music, levels)!PauseWorks

LEMMA SoundStarts ==
    ASSUME NEW CONSTANT music, NEW CONSTANT levels, Sound(music, levels)!SoundsAssumption,
           Sound(music, levels)!Init
    PROVE  SoundInv(music, levels)
  <1>1. fades = <<>> /\ fades \in Seq(FadeRecord(music, levels)) /\ DOMAIN fades = {}
    BY DEF Sound!Init
  <1>2. SoundTypes(music, levels)
    BY <1>1 DEF Sound!SoundsAssumption, Sound!Init, SoundTypes, Sound!TypeOK
  <1>3. SoundOrder(music, levels)
    BY <1>1 DEF Sound!Init, SoundOrder
  <1>4. Sound(music, levels)!OneMusic
    BY DEF Sound!Init, Sound!OneMusic, Sound!Sounds
  <1>5. Sound(music, levels)!VolumeSettles /\ Sound(music, levels)!PauseWorks
    BY DEF Sound!Init, Sound!VolumeSettles, Sound!PauseWorks, Sound!SoundsAssumption
  <1> QED  BY <1>2, <1>3, <1>4, <1>5 DEF SoundInv

LEMMA SoundStays ==
    ASSUME NEW CONSTANT music, NEW CONSTANT levels, SoundInv(music, levels), UNCHANGED soundsVars
    PROVE  SoundInv(music, levels)'
  BY DEF soundsVars, SoundInv, SoundTypes, SoundOrder, Sound!TypeOK,
         Sound!OneMusic, Sound!VolumeSettles, Sound!PauseWorks, Sound!Sounds, FadeRecord,
         Sound!FadesOut, Sound!Fading

-----------------------------------------------------------------------------
\* The intervals without one of them.
LEMMA WithoutOne ==
    ASSUME NEW S, NEW s \in Seq(S), NEW i \in DOMAIN s
    PROVE  LET t == SubSeq(s, 1, i - 1) \o SubSeq(s, i + 1, Len(s))
           IN  /\ t \in Seq(S) /\ Len(t) = Len(s) - 1
               /\ \A k \in 1 .. Len(s) - 1 : t[k] = IF k < i THEN s[k] ELSE s[k + 1]
  <1> DEFINE a == SubSeq(s, 1, i - 1)
             b == SubSeq(s, i + 1, Len(s))
  <1>1. i \in 1 .. Len(s) /\ Len(s) \in Nat
    OBVIOUS
  <1>2. a \in Seq(S) /\ Len(a) = i - 1 /\ \A k \in 1 .. i - 1 : a[k] = s[k]
    BY <1>1
  <1>3. b \in Seq(S) /\ Len(b) = Len(s) - i /\ \A k \in 1 .. Len(s) - i : b[k] = s[i + k]
    BY <1>1
  <1> HIDE DEF a, b
  <1>4. a \o b \in Seq(S) /\ Len(a \o b) = Len(s) - 1
        /\ \A k \in 1 .. Len(s) - 1 : (a \o b)[k] = IF k < i THEN s[k] ELSE s[k + 1]
    BY <1>1, <1>2, <1>3
  <1> QED  BY <1>4 DEF a, b

\* What an action that leaves the intervals alone keeps of them.
LEMMA SoundConnect ==
    ASSUME NEW CONSTANT music, NEW CONSTANT levels, Sound(music, levels)!SoundsAssumption,
           SoundInv(music, levels), NEW to \in {"on", "off"}, Sound(music, levels)!Connect(to)
    PROVE  SoundInv(music, levels)'
  <1>1. /\ currentMusic \in music
        /\ source' = [source EXCEPT ![currentMusic] =
                          IF source[currentMusic] \in {"on", "off"} THEN to ELSE source[currentMusic]]
        /\ UNCHANGED <<sourceLoop, lost, volume, musicVolume, muteFlag, currentMusic, fades, crossed>>
    BY DEF Sound!Connect, SoundInv, SoundTypes, Sound!TypeOK, Sound!manager
  <1>2. SoundTypes(music, levels)'
    BY <1>1 DEF SoundInv, SoundTypes, Sound!TypeOK, FadeRecord
  <1>3. SoundOrder(music, levels)'
    BY <1>1 DEF SoundInv, SoundOrder
  <1>4. Sound(music, levels)!OneMusic'
    BY <1>1 DEF SoundInv, SoundTypes, Sound!TypeOK, Sound!OneMusic, Sound!Sounds, Sound!FadesOut
  <1>5. Sound(music, levels)!VolumeSettles' /\ Sound(music, levels)!PauseWorks'
    BY <1>1 DEF SoundInv, SoundTypes, Sound!TypeOK, Sound!VolumeSettles, Sound!PauseWorks, Sound!Fading
  <1> QED  BY <1>2, <1>3, <1>4, <1>5 DEF SoundInv

LEMMA SoundEnds ==
    ASSUME NEW CONSTANT music, NEW CONSTANT levels, Sound(music, levels)!SoundsAssumption,
           SoundInv(music, levels), NEW n \in music, Sound(music, levels)!Ended(n)
    PROVE  SoundInv(music, levels)'
  <1>1. /\ source' = [source EXCEPT ![n] = "ended"] \/ source' = source
        /\ lost' = [lost EXCEPT ![n] = lost[n] \ {FALSE}] \/ lost' = lost
        /\ UNCHANGED <<sourceLoop, volume, musicVolume, muteFlag, currentMusic, fades, crossed>>
    BY DEF Sound!Ended, SoundInv, SoundTypes, Sound!TypeOK, Sound!manager
  <1>2. SoundTypes(music, levels)'
    BY <1>1 DEF SoundInv, SoundTypes, Sound!TypeOK, FadeRecord
  <1>3. SoundOrder(music, levels)'
    BY <1>1 DEF SoundInv, SoundTypes, Sound!TypeOK, SoundOrder
  <1>4. Sound(music, levels)!OneMusic'
    BY <1>1 DEF SoundInv, SoundTypes, Sound!TypeOK, Sound!OneMusic, Sound!Sounds, Sound!FadesOut
  <1>5. Sound(music, levels)!VolumeSettles' /\ Sound(music, levels)!PauseWorks'
    BY <1>1 DEF SoundInv, SoundTypes, Sound!TypeOK, Sound!VolumeSettles, Sound!PauseWorks, Sound!Fading
  <1> QED  BY <1>2, <1>3, <1>4, <1>5 DEF SoundInv

\* The volume of the current music is set: to the one that is set, or to 0 when it is muted.
LEMMA SoundVolume ==
    ASSUME NEW CONSTANT music, NEW CONSTANT levels, Sound(music, levels)!SoundsAssumption,
           SoundInv(music, levels), NEW v \in Nat, Sound(music, levels)!SetCurrentVolume(v),
           musicVolume' \in levels, muteFlag' \in BOOLEAN,
           v = musicVolume' \/ (muteFlag' /\ v = 0),
           musicVolume' = musicVolume \/ v = musicVolume'
    PROVE  SoundInv(music, levels)'
  <1>1. /\ UNCHANGED <<source, sourceLoop, lost, currentMusic, fades>>
        /\ volume' = IF currentMusic = None THEN volume ELSE [volume EXCEPT ![currentMusic] = v]
        /\ crossed' = crossed \cup {m \in {currentMusic} \ {None} : Sound(music, levels)!Fading(m)}
    BY DEF Sound!SetCurrentVolume, Sound!sounds, Sound!Crossing
  <1>2. SoundTypes(music, levels)'
    BY <1>1 DEF SoundInv, SoundTypes, Sound!TypeOK, FadeRecord
  <1>3. currentMusic # None /\ currentMusic \notin crossed' => ~Sound(music, levels)!Fading(currentMusic)
    BY <1>1
  <1>4. SoundOrder(music, levels)'
    BY <1>1, <1>3 DEF SoundInv, SoundTypes, Sound!TypeOK, SoundOrder, Sound!Fading, Sound!SoundsAssumption
  <1>5. Sound(music, levels)!OneMusic'
    BY <1>1 DEF SoundInv, SoundTypes, Sound!TypeOK, Sound!OneMusic, Sound!Sounds, Sound!FadesOut
  <1>6. Sound(music, levels)!VolumeSettles' /\ Sound(music, levels)!PauseWorks'
    BY <1>1, <1>3 DEF SoundInv, SoundTypes, Sound!TypeOK, Sound!VolumeSettles, Sound!PauseWorks, Sound!Fading
  <1> QED  BY <1>2, <1>4, <1>5, <1>6 DEF SoundInv

LEMMA SoundTick ==
    ASSUME NEW CONSTANT music, NEW CONSTANT levels, Sound(music, levels)!SoundsAssumption,
           SoundInv(music, levels), NEW i \in DOMAIN fades, Sound(music, levels)!Tick(i)
    PROVE  SoundInv(music, levels)'
  <1> DEFINE S == FadeRecord(music, levels)
             f == fades[i]
             g == [f EXCEPT !.counter = IF @ < Steps THEN @ + 1 ELSE @]
             over == f.counter + 1 >= Steps
             v == ((IF g.dir = "in" THEN g.counter ELSE Steps - g.counter) * g.volume) \div Steps
             gone == SubSeq(fades, 1, i - 1) \o SubSeq(fades, i + 1, Len(fades))
  <1>1. /\ fades \in Seq(S) /\ SoundTypes(music, levels) /\ SoundOrder(music, levels)
        /\ i \in 1 .. Len(fades) /\ Len(fades) \in Nat
    BY DEF SoundInv, SoundTypes
  <1>2. f \in S /\ f.music \in music /\ f.counter \in 0 .. Steps - 1 /\ f.volume \in levels
    <2>1. fades[i] \in S
      <3> HIDE DEF S
      <3> QED  BY <1>1, ElementOfSeq
    <2> QED  BY <2>1 DEF FadeRecord
  <1>3. /\ g.music = f.music /\ g.dir = f.dir /\ g.volume = f.volume /\ g.counter = f.counter + 1
        /\ g.counter \in 1 .. Steps /\ Steps \in Nat \ {0} /\ f.volume \in Nat /\ f.dir \in {"in", "out"}
    BY <1>2 DEF FadeRecord, Sound!SoundsAssumption
  <1>4. v \in Nat /\ (over /\ f.dir = "in" => v = f.volume)
    <2> DEFINE c == g.counter
    <2>1. c \in 1 .. Steps /\ Steps \in Nat \ {0} /\ f.volume \in Nat
      BY <1>3
    <2>2. CASE f.dir = "in"
      <3>1. v = (c * f.volume) \div Steps
        BY <1>3, <2>2
      <3>2. over => c = Steps
        BY <1>2, <1>3
      <3> HIDE DEF v, c, g, f, over
      <3>3. c * f.volume \in Nat /\ (Steps * f.volume) \div Steps = f.volume
        BY <2>1
      <3> QED  BY <2>1, <3>1, <3>2, <3>3
    <2>3. CASE f.dir = "out"
      <3>1. v = ((Steps - c) * f.volume) \div Steps
        BY <1>3, <2>3
      <3> HIDE DEF v, c, g, f, over
      <3>2. (Steps - c) \in Nat /\ (Steps - c) * f.volume \in Nat
        BY <2>1
      <3> QED  BY <2>1, <2>3, <3>1, <3>2
    <2> QED  BY <2>2, <2>3, <1>3
  <1>5. /\ volume' = [volume EXCEPT ![f.music] = v]
        /\ fades' = IF over THEN gone ELSE [fades EXCEPT ![i] = g]
        /\ source' = IF f.dir = "out" /\ over THEN [source EXCEPT ![f.music] = "none"] ELSE source
        /\ UNCHANGED <<sourceLoop, lost, musicVolume, muteFlag, currentMusic, crossed>>
    BY <1>3 DEF Sound!Tick, Sound!Without, Sound!Stopped, Sound!Over, Sound!manager
  <1>6. /\ gone \in Seq(S) /\ Len(gone) = Len(fades) - 1
        /\ \A k \in 1 .. Len(fades) - 1 : gone[k] = IF k < i THEN fades[k] ELSE fades[k + 1]
    BY <1>1, WithoutOne
  <1>7. ~over => g \in S
    BY <1>2, <1>3 DEF FadeRecord
  <1> HIDE DEF S, g, over, v, gone, f
  <1>8. fades' \in Seq(S)
    <2>1. CASE over
      BY <1>5, <1>6, <2>1
    <2>2. CASE ~over
      BY <1>1, <1>5, <1>7, <2>2, ExceptSeq
    <2> QED  BY <2>1, <2>2
  \* What is faded after the tick was faded before it.
  <1>9. \A k \in DOMAIN fades' : \E l \in DOMAIN fades :
            /\ fades'[k].music = fades[l].music /\ fades'[k].dir = fades[l].dir
            /\ fades'[k].volume = fades[l].volume
            /\ l = (IF over /\ k >= i THEN k + 1 ELSE k) /\ (over => l # i)
    <2>1. CASE over
      BY <1>1, <1>5, <1>6, <2>1
    <2>2. CASE ~over
      BY <1>1, <1>3, <1>5, <2>2 DEF f
    <2> QED  BY <2>1, <2>2
  \* And the other way round, but for the one that is over.
  <1>10. \A l \in DOMAIN fades : (l = i /\ over) \/ \E k \in DOMAIN fades' :
            fades'[k].music = fades[l].music /\ fades'[k].dir = fades[l].dir
    <2>1. CASE over
      <3> SUFFICES ASSUME NEW l \in DOMAIN fades, l # i
                   PROVE  \E k \in DOMAIN fades' :
                              fades'[k].music = fades[l].music /\ fades'[k].dir = fades[l].dir
        BY <2>1
      <3>1. CASE l < i
        <4>1. l \in DOMAIN fades' /\ fades'[l] = fades[l]
          BY <1>1, <1>5, <1>6, <2>1, <3>1
        <4> QED  BY <4>1
      <3>2. CASE l > i
        <4> DEFINE k == l - 1
        <4>1. k \in 1 .. Len(fades) - 1 /\ k >= i /\ k + 1 = l
          BY <1>1, <3>2
        <4> HIDE DEF k
        <4>2. k \in DOMAIN fades' /\ fades'[k] = fades[l]
          BY <1>1, <1>5, <1>6, <2>1, <4>1
        <4> QED  BY <4>2
      <3> QED  BY <3>1, <3>2, <1>1
    <2>2. CASE ~over
      BY <1>1, <1>3, <1>5, <2>2 DEF f
    <2> QED  BY <2>1, <2>2
  <1>11. SoundTypes(music, levels)'
    <2>1. \A k \in DOMAIN fades' : fades'[k] \in S
      BY <1>8, ElementOfSeq
    <2>2. \A k \in DOMAIN fades' : fades'[k].counter \in 0 .. Steps - 1
      BY <2>1 DEF S, FadeRecord
    <2>3. /\ source' \in [music -> {"none", "on", "off", "ended"}] /\ volume' \in [music -> Nat]
      BY <1>1, <1>2, <1>4, <1>5 DEF SoundTypes, Sound!TypeOK
    <2> QED  BY <1>1, <1>5, <1>8, <2>2, <2>3 DEF SoundTypes, Sound!TypeOK, S
  <1>12. SoundOrder(music, levels)'
    <2> SUFFICES ASSUME NEW m \in music \ crossed'
                 PROVE  /\ lost'[m] = {}
                        /\ \A j, k \in DOMAIN fades' :
                               fades'[j].music = m /\ fades'[k].music = m => j = k
                        /\ \A k \in DOMAIN fades' : fades'[k].music = m =>
                              IF m = currentMusic'
                              THEN fades'[k].dir = "in" /\ fades'[k].volume = musicVolume'
                              ELSE fades'[k].dir = "out"
      BY DEF SoundOrder
    <2>1. m \in music \ crossed /\ lost'[m] = {}
      BY <1>1, <1>5 DEF SoundOrder
    <2>2. ASSUME NEW j \in DOMAIN fades', NEW k \in DOMAIN fades',
                 fades'[j].music = m, fades'[k].music = m
          PROVE  j = k
      <3>1. PICK l \in DOMAIN fades : fades[l].music = m /\ l = (IF over /\ j >= i THEN j + 1 ELSE j)
        BY <1>9, <2>2
      <3>2. PICK o \in DOMAIN fades : fades[o].music = m /\ o = (IF over /\ k >= i THEN k + 1 ELSE k)
        BY <1>9, <2>2
      <3>3. l = o
        BY <1>1, <2>1, <3>1, <3>2 DEF SoundOrder
      <3>4. j \in Int /\ k \in Int
        BY <1>8
      <3> QED  BY <1>1, <3>1, <3>2, <3>3, <3>4
    <2>3. ASSUME NEW k \in DOMAIN fades', fades'[k].music = m
          PROVE  IF m = currentMusic' THEN fades'[k].dir = "in" /\ fades'[k].volume = musicVolume'
                 ELSE fades'[k].dir = "out"
      BY <1>1, <1>5, <1>9, <2>1, <2>3 DEF SoundOrder
    <2> QED  BY <2>1, <2>2, <2>3
  <1>13. Sound(music, levels)!OneMusic'
    <2> SUFFICES ASSUME NEW m \in music \ crossed', source'[m] = "on" \/ lost'[m] # {},
                        m # currentMusic'
                 PROVE  \E k \in DOMAIN fades' : fades'[k].music = m /\ fades'[k].dir = "out"
      BY DEF Sound!OneMusic, Sound!Sounds, Sound!FadesOut
    <2>1. source[m] = "on" \/ lost[m] # {}
      BY <1>1, <1>2, <1>5 DEF SoundTypes, Sound!TypeOK
    <2>2. PICK l \in DOMAIN fades : fades[l].music = m /\ fades[l].dir = "out"
      BY <1>5, <2>1 DEF SoundInv, Sound!OneMusic, Sound!Sounds, Sound!FadesOut
    <2>3. ~(l = i /\ over)
      <3> SUFFICES ASSUME l = i, over PROVE FALSE
        OBVIOUS
      <3>1. source'[m] = "none"
        BY <1>1, <1>5, <2>2 DEF f, SoundTypes, Sound!TypeOK
      <3>2. lost'[m] = {}
        BY <1>1, <1>5 DEF SoundOrder
      <3> QED  BY <3>1, <3>2
    <2> QED  BY <1>10, <2>2, <2>3
  <1>14. Sound(music, levels)!VolumeSettles'
    <2> SUFFICES ASSUME currentMusic # None, currentMusic \notin crossed,
                        \A k \in DOMAIN fades' : fades'[k].music # currentMusic
                 PROVE  volume'[currentMusic] = musicVolume
                        \/ (muteFlag /\ volume'[currentMusic] = 0)
      BY <1>5 DEF Sound!VolumeSettles, Sound!Fading
    <2>1. currentMusic \in music
      BY <1>1 DEF SoundTypes, Sound!TypeOK
    <2>2. CASE f.music = currentMusic
      <3>1. over /\ f.dir = "in" /\ f.volume = musicVolume
        BY <1>1, <1>10, <2>1, <2>2 DEF SoundOrder, f
      <3> QED  BY <1>1, <1>4, <1>5, <2>1, <2>2, <3>1 DEF SoundTypes, Sound!TypeOK
    <2>3. CASE f.music # currentMusic
      <3>1. volume'[currentMusic] = volume[currentMusic]
        BY <1>1, <1>5, <2>1, <2>3 DEF SoundTypes, Sound!TypeOK
      <3>2. \A l \in DOMAIN fades : fades[l].music # currentMusic
        BY <1>10, <2>3 DEF f
      <3> QED  BY <3>1, <3>2 DEF SoundInv, Sound!VolumeSettles, Sound!Fading
    <2> QED  BY <2>2, <2>3
  <1>15. Sound(music, levels)!PauseWorks'
    <2> SUFFICES ASSUME currentMusic \in music \ crossed PROVE source'[currentMusic] # "none"
      BY <1>5 DEF Sound!PauseWorks
    <2>1. source[currentMusic] # "none"
      BY DEF SoundInv, Sound!PauseWorks
    <2>2. f.music = currentMusic => f.dir = "in"
      BY <1>1 DEF SoundOrder, f
    <2> QED  BY <1>1, <1>5, <2>1, <2>2 DEF SoundTypes, Sound!TypeOK
  <1> QED  BY <1>11, <1>12, <1>13, <1>14, <1>15 DEF SoundInv

\* One interval more, or two.
LEMMA OneMore ==
    ASSUME NEW S, NEW s \in Seq(S), NEW a \in S
    PROVE  /\ s \o <<a>> \in Seq(S) /\ DOMAIN (s \o <<a>>) = DOMAIN s \cup {Len(s) + 1}
           /\ Len(s \o <<a>>) = Len(s) + 1 /\ Len(s) \in Nat /\ DOMAIN s = 1 .. Len(s)
           /\ (s \o <<a>>)[Len(s) + 1] = a /\ \A k \in DOMAIN s : (s \o <<a>>)[k] = s[k]
  OBVIOUS

\* What playing m makes of the intervals: those there were and, if it is faded, one in which
\* m is faded in and one in which what was played is faded out.
Added(music, levels, m, fade) ==
    /\ fades' \in Seq(FadeRecord(music, levels))
    /\ \A k \in DOMAIN fades : k \in DOMAIN fades' /\ fades'[k] = fades[k]
    /\ \A k \in DOMAIN fades' \ DOMAIN fades : fade /\
          \/ fades'[k].music = currentMusic /\ fades'[k].dir = "out" /\ currentMusic # None
          \/ fades'[k].music = m /\ fades'[k].dir = "in" /\ fades'[k].volume = musicVolume
    /\ \A j, k \in DOMAIN fades' \ DOMAIN fades :
          fades'[j].music = fades'[k].music => j = k \/ currentMusic = m
    /\ fade => \E k \in DOMAIN fades' : fades'[k].music = m
    /\ fade /\ currentMusic # None =>
          \E k \in DOMAIN fades' : fades'[k].music = currentMusic /\ fades'[k].dir = "out"

LEMMA FadesAdded ==
    ASSUME NEW CONSTANT music, NEW CONSTANT levels, Sound(music, levels)!SoundsAssumption,
           SoundInv(music, levels), NEW m \in music, NEW fade \in BOOLEAN,
           fades' = fades \o Sound(music, levels)!Outs(fade)
                          \o (IF fade THEN <<Sound(music, levels)!Fade(m, "in")>> ELSE <<>>)
    PROVE  Added(music, levels, m, fade)
  <1> DEFINE S == FadeRecord(music, levels)
             out == Sound(music, levels)!Fade(currentMusic, "out")
             more == Sound(music, levels)!Fade(m, "in")
             outs == IF currentMusic # None /\ fade THEN fades \o <<out>> ELSE fades
  <1>1. /\ fades \in Seq(S) /\ currentMusic \in music \cup {None} /\ musicVolume \in levels
        /\ Steps \in Nat \ {0}
    BY DEF SoundInv, SoundTypes, Sound!TypeOK, Sound!SoundsAssumption
  <1>2. currentMusic # None =>
           out \in S /\ out.music = currentMusic /\ out.dir = "out"
    BY <1>1 DEF Sound!Fade, FadeRecord
  <1>3. more \in S /\ more.music = m /\ more.dir = "in" /\ more.volume = musicVolume
    BY <1>1 DEF Sound!Fade, FadeRecord
  <1>4. fades' = IF fade THEN outs \o <<more>> ELSE fades
    <2>1. fades \o <<>> = fades /\ outs \o <<>> = outs
      BY <1>1, <1>2
    <2> QED  BY <2>1 DEF Sound!Outs
  <1> HIDE DEF S, out, more
  <1>5. CASE ~fade
    <2>1. fades' = fades /\ DOMAIN fades' \ DOMAIN fades = {}
      BY <1>4, <1>5
    <2> QED  BY <1>1, <1>5, <2>1 DEF Added, S
  <1>6. CASE currentMusic = None /\ fade
    <2>1. fades' = fades \o <<more>>
      BY <1>4, <1>6
    <2>2. /\ fades' \in Seq(S) /\ DOMAIN fades' = DOMAIN fades \cup {Len(fades) + 1}
          /\ fades'[Len(fades) + 1] = more /\ \A k \in DOMAIN fades : fades'[k] = fades[k]
      <3>1. /\ fades \o <<more>> \in Seq(S)
            /\ DOMAIN (fades \o <<more>>) = DOMAIN fades \cup {Len(fades) + 1}
            /\ (fades \o <<more>>)[Len(fades) + 1] = more
            /\ \A k \in DOMAIN fades : (fades \o <<more>>)[k] = fades[k]
        BY <1>1, <1>3, OneMore
      <3> QED  BY <2>1, <3>1
    <2>3. \A k \in DOMAIN fades' \ DOMAIN fades : k = Len(fades) + 1 /\ fades'[k] = more
      BY <2>2
    <2>4. \E k \in DOMAIN fades' : fades'[k].music = m
      BY <1>3, <2>2
    <2> QED  BY <1>3, <1>6, <2>2, <2>3, <2>4 DEF Added, S
  <1>7. CASE currentMusic # None /\ fade
    <2> DEFINE s == fades \o <<out>>
    <2>1. fades' = s \o <<more>>
      BY <1>4, <1>7
    <2>2. /\ s \in Seq(S) /\ DOMAIN s = DOMAIN fades \cup {Len(fades) + 1}
          /\ s[Len(fades) + 1] = out /\ \A k \in DOMAIN fades : s[k] = fades[k]
      BY <1>1, <1>2, <1>7, OneMore
    <2> HIDE DEF s
    <2>3. /\ fades' \in Seq(S) /\ DOMAIN fades' = DOMAIN s \cup {Len(s) + 1}
          /\ fades'[Len(s) + 1] = more /\ \A k \in DOMAIN s : fades'[k] = s[k]
      <3>1. s \in Seq(S) /\ more \in S
        BY <1>3, <2>2
      <3>2. /\ s \o <<more>> \in Seq(S) /\ DOMAIN (s \o <<more>>) = DOMAIN s \cup {Len(s) + 1}
            /\ (s \o <<more>>)[Len(s) + 1] = more
            /\ \A k \in DOMAIN s : (s \o <<more>>)[k] = s[k]
        BY <3>1, OneMore
      <3> QED  BY <2>1, <3>2
    <2>4. \A k \in DOMAIN fades' \ DOMAIN fades :
              \/ k = Len(fades) + 1 /\ fades'[k] = out
              \/ k = Len(s) + 1 /\ fades'[k] = more
      BY <2>2, <2>3
    <2>5. \A k \in DOMAIN fades : k \in DOMAIN fades' /\ fades'[k] = fades[k]
      BY <2>2, <2>3
    <2>6. \A k \in DOMAIN fades' \ DOMAIN fades :
              \/ fades'[k].music = currentMusic /\ fades'[k].dir = "out" /\ currentMusic # None
              \/ fades'[k].music = m /\ fades'[k].dir = "in" /\ fades'[k].volume = musicVolume
      BY <1>2, <1>3, <1>7, <2>4
    <2>7. ASSUME NEW j \in DOMAIN fades' \ DOMAIN fades, NEW k \in DOMAIN fades' \ DOMAIN fades,
                 fades'[j].music = fades'[k].music, j # k
          PROVE  currentMusic = m
      BY <1>2, <1>3, <1>7, <2>4, <2>7
    <2>8. (\E k \in DOMAIN fades' : fades'[k].music = m)
          /\ \E k \in DOMAIN fades' : fades'[k].music = currentMusic /\ fades'[k].dir = "out"
      BY <1>2, <1>3, <1>7, <2>2, <2>3
    <2> QED  BY <1>7, <2>3, <2>5, <2>6, <2>7, <2>8 DEF Added, S
  <1> QED  BY <1>5, <1>6, <1>7

LEMMA SoundStops ==
    ASSUME NEW CONSTANT music, NEW CONSTANT levels, Sound(music, levels)!SoundsAssumption,
           SoundInv(music, levels), NEW fade \in BOOLEAN, Sound(music, levels)!StopMusic(fade)
    PROVE  SoundInv(music, levels)'
  <1> DEFINE S == FadeRecord(music, levels)
  <1>1. /\ fades \in Seq(S) /\ SoundTypes(music, levels) /\ SoundOrder(music, levels)
        /\ currentMusic \in music \cup {None} /\ None \notin music
    BY DEF SoundInv, SoundTypes, Sound!TypeOK, Sound!SoundsAssumption
  <1>2. /\ source' = IF currentMusic = None \/ fade THEN source
                     ELSE [source EXCEPT ![currentMusic] = "none"]
        /\ volume' = IF currentMusic = None \/ ~fade THEN volume
                     ELSE [volume EXCEPT ![currentMusic] = 0]
        /\ fades' = IF currentMusic = None \/ ~fade THEN fades
                    ELSE fades \o <<Sound(music, levels)!Fade(currentMusic, "out")>>
        /\ currentMusic' = None
        /\ crossed' = crossed \cup {m \in {currentMusic} \ {None} : Sound(music, levels)!Fading(m)}
        /\ UNCHANGED <<sourceLoop, lost, musicVolume, muteFlag>>
    <2>1. fades \o <<>> = fades
      BY <1>1
    <2> QED  BY <2>1 DEF Sound!StopMusic, Sound!AfterStop, Sound!Stopped, Sound!Silent, Sound!Outs,
                 Sound!NoMusic, Sound!Crossing
  <1> DEFINE out == Sound(music, levels)!Fade(currentMusic, "out")
  <1>3. currentMusic # None => out \in S /\ out.music = currentMusic /\ out.dir = "out"
    BY <1>1 DEF Sound!Fade, FadeRecord, SoundTypes, Sound!SoundsAssumption
  <1> HIDE DEF S, out
  <1>4. /\ fades' \in Seq(S)
        /\ \A k \in DOMAIN fades : k \in DOMAIN fades' /\ fades'[k] = fades[k]
        /\ \A k \in DOMAIN fades' \ DOMAIN fades :
              k = Len(fades) + 1 /\ fades'[k].music = currentMusic /\ fades'[k].dir = "out"
        /\ fade /\ currentMusic # None =>
              \E k \in DOMAIN fades' : fades'[k].music = currentMusic /\ fades'[k].dir = "out"
    <2>1. CASE currentMusic = None \/ ~fade
      BY <1>1, <1>2, <2>1
    <2>2. CASE currentMusic # None /\ fade
      <3>1. fades' = fades \o <<out>>
        BY <1>2, <2>2 DEF out
      <3> QED  BY <1>1, <1>3, <2>2, <3>1, OneMore
    <2> QED  BY <2>1, <2>2
  <1>5. SoundTypes(music, levels)'
    <2>1. \A k \in DOMAIN fades' : fades'[k] \in S
      BY <1>4, ElementOfSeq
    <2>2. \A k \in DOMAIN fades' : fades'[k].counter \in 0 .. Steps - 1
      BY <2>1 DEF S, FadeRecord
    <2> QED  BY <1>1, <1>2, <1>4, <2>2 DEF SoundTypes, Sound!TypeOK, S
  <1>6. \A m \in music \ crossed' : m \in music \ crossed
           /\ (m = currentMusic => \A k \in DOMAIN fades : fades[k].music # m)
    BY <1>1, <1>2 DEF Sound!Fading
  <1>7. SoundOrder(music, levels)'
    <2> SUFFICES ASSUME NEW m \in music \ crossed'
                 PROVE  /\ lost'[m] = {}
                        /\ \A j, k \in DOMAIN fades' :
                               fades'[j].music = m /\ fades'[k].music = m => j = k
                        /\ \A k \in DOMAIN fades' : fades'[k].music = m => fades'[k].dir = "out"
      BY <1>1, <1>2 DEF SoundOrder
    <2> QED  BY <1>1, <1>2, <1>4, <1>6 DEF SoundOrder
  <1>8. Sound(music, levels)!OneMusic'
    <2> SUFFICES ASSUME NEW m \in music \ crossed', source'[m] = "on" \/ lost'[m] # {}
                 PROVE  \E k \in DOMAIN fades' : fades'[k].music = m /\ fades'[k].dir = "out"
      BY DEF Sound!OneMusic, Sound!Sounds, Sound!FadesOut
    <2>1. m \in music \ crossed /\ lost[m] = {} /\ source'[m] = "on" /\ source[m] = "on"
      BY <1>1, <1>2, <1>6 DEF SoundOrder, SoundTypes, Sound!TypeOK
    <2>2. CASE m = currentMusic
      BY <1>1, <1>2, <1>4, <2>1, <2>2 DEF SoundTypes, Sound!TypeOK
    <2>3. CASE m # currentMusic
      <3>1. \E l \in DOMAIN fades : fades[l].music = m /\ fades[l].dir = "out"
        BY <2>1, <2>3 DEF SoundInv, Sound!OneMusic, Sound!Sounds, Sound!FadesOut
      <3> QED  BY <1>4, <3>1
    <2> QED  BY <2>2, <2>3
  <1>9. Sound(music, levels)!VolumeSettles' /\ Sound(music, levels)!PauseWorks'
    BY <1>1, <1>2 DEF Sound!VolumeSettles, Sound!PauseWorks
  <1> QED  BY <1>5, <1>7, <1>8, <1>9 DEF SoundInv

LEMMA SoundPlays ==
    ASSUME NEW CONSTANT music, NEW CONSTANT levels, Sound(music, levels)!SoundsAssumption,
           SoundInv(music, levels), NEW m \in music, NEW fade \in BOOLEAN, NEW loop \in BOOLEAN,
           Sound(music, levels)!PlayMusic(m, fade, loop)
    PROVE  SoundInv(music, levels)'
  <1> DEFINE S == FadeRecord(music, levels)
             src == IF currentMusic = None \/ fade THEN source
                    ELSE [source EXCEPT ![currentMusic] = "none"]
             silent == IF currentMusic = None \/ ~fade THEN volume
                       ELSE [volume EXCEPT ![currentMusic] = 0]
             loops == IF src[m] = "on" THEN lost[m] \cup {sourceLoop[m]} ELSE lost[m]
  <1>1. /\ fades \in Seq(S) /\ SoundTypes(music, levels) /\ SoundOrder(music, levels)
        /\ currentMusic \in music \cup {None} /\ None \notin music
        /\ musicVolume \in levels /\ musicVolume \in Nat /\ Sound(music, levels)!OneMusic
    BY DEF SoundInv, SoundTypes, Sound!TypeOK, Sound!SoundsAssumption
  <1>2. /\ source' = [src EXCEPT ![m] = "on"]
        /\ sourceLoop' = [sourceLoop EXCEPT ![m] = loop]
        /\ lost' = [lost EXCEPT ![m] = loops]
        /\ volume' = [silent EXCEPT ![m] = IF fade THEN 0 ELSE musicVolume]
        /\ currentMusic' = m
        /\ UNCHANGED <<musicVolume, muteFlag>>
    BY DEF Sound!PlayMusic, Sound!Play, Sound!AfterStop, Sound!Stopped, Sound!Silent
  <1>3. Added(music, levels, m, fade)
    BY FadesAdded DEF Sound!PlayMusic
  <1>4. \A n \in music \ crossed' :
           /\ n \in music \ crossed
           /\ n \in {m, currentMusic} => \A k \in DOMAIN fades : fades[k].music # n
           /\ n = m /\ currentMusic = m => ~fade
    BY <1>1 DEF Sound!PlayMusic, Sound!Fading
  <1>5. /\ src \in [music -> {"none", "on", "off", "ended"}]
        /\ silent \in [music -> Nat] /\ loops \in SUBSET BOOLEAN
    BY <1>1 DEF SoundTypes, Sound!TypeOK
  <1>6. /\ \A n \in music : src[n] = "on" => source[n] = "on" /\ (n = currentMusic => fade)
    BY <1>1 DEF SoundTypes, Sound!TypeOK
  <1>7. m \notin crossed' => loops = {}
    <2> SUFFICES ASSUME m \notin crossed' PROVE src[m] # "on" /\ lost[m] = {}
      OBVIOUS
    <2>1. m \in music \ crossed /\ ~Sound(music, levels)!FadesOut(m)
      BY <1>4 DEF Sound!FadesOut
    <2> HIDE DEF src
    <2> QED  BY <1>1, <1>4, <1>6, <2>1 DEF SoundOrder, Sound!OneMusic, Sound!Sounds
  <1> HIDE DEF S, src, silent, loops
  <1>8. SoundTypes(music, levels)'
    <2>1. \A k \in DOMAIN fades' : fades'[k] \in FadeRecord(music, levels)
      BY <1>3, ElementOfSeq DEF Added
    <2>2. \A k \in DOMAIN fades' : fades'[k].counter \in 0 .. Steps - 1
      BY <2>1 DEF FadeRecord
    <2>3. /\ source' \in [music -> {"none", "on", "off", "ended"}] /\ volume' \in [music -> Nat]
          /\ sourceLoop' \in [music -> BOOLEAN] /\ lost' \in [music -> SUBSET BOOLEAN]
      BY <1>1, <1>2, <1>5 DEF SoundTypes, Sound!TypeOK
    <2> QED  BY <1>1, <1>2, <1>3, <2>2, <2>3 DEF SoundTypes, Sound!TypeOK, Added
  <1>9. \A n \in music \ crossed' : lost'[n] = {}
    BY <1>1, <1>2, <1>4, <1>7 DEF SoundOrder, SoundTypes, Sound!TypeOK
  <1>10. SoundOrder(music, levels)'
    <2> SUFFICES ASSUME NEW n \in music \ crossed'
                 PROVE  /\ \A j, k \in DOMAIN fades' :
                               fades'[j].music = n /\ fades'[k].music = n => j = k
                        /\ \A k \in DOMAIN fades' : fades'[k].music = n =>
                              IF n = m THEN fades'[k].dir = "in" /\ fades'[k].volume = musicVolume
                              ELSE fades'[k].dir = "out"
      BY <1>2, <1>9 DEF SoundOrder
    <2>1. /\ n \in music \ crossed
          /\ n \in {m, currentMusic} => \A k \in DOMAIN fades : fades[k].music # n
          /\ n = m /\ currentMusic = m => ~fade
      BY <1>4
    <2>2. ASSUME NEW j \in DOMAIN fades', NEW k \in DOMAIN fades',
                 fades'[j].music = n, fades'[k].music = n
          PROVE  j = k
      <3>1. CASE j \in DOMAIN fades /\ k \in DOMAIN fades
        BY <1>1, <1>3, <2>1, <2>2, <3>1 DEF SoundOrder, Added
      <3>2. CASE j \notin DOMAIN fades /\ k \notin DOMAIN fades
        BY <1>3, <2>1, <2>2, <3>2 DEF Added
      <3>3. CASE j \in DOMAIN fades /\ k \notin DOMAIN fades
        BY <1>3, <2>1, <2>2, <3>3 DEF Added
      <3>4. CASE j \notin DOMAIN fades /\ k \in DOMAIN fades
        BY <1>3, <2>1, <2>2, <3>4 DEF Added
      <3> QED  BY <3>1, <3>2, <3>3, <3>4
    <2>3. ASSUME NEW k \in DOMAIN fades', fades'[k].music = n
          PROVE  IF n = m THEN fades'[k].dir = "in" /\ fades'[k].volume = musicVolume
                 ELSE fades'[k].dir = "out"
      <3>1. CASE k \in DOMAIN fades
        BY <1>1, <1>3, <2>1, <2>3, <3>1 DEF SoundOrder, Added
      <3>2. CASE k \notin DOMAIN fades
        BY <1>3, <2>1, <2>3, <3>2 DEF Added
      <3> QED  BY <3>1, <3>2
    <2> QED  BY <2>2, <2>3
  <1>11. Sound(music, levels)!OneMusic'
    <2> SUFFICES ASSUME NEW n \in music \ crossed', source'[n] = "on", n # m
                 PROVE  \E k \in DOMAIN fades' : fades'[k].music = n /\ fades'[k].dir = "out"
      BY <1>2, <1>9 DEF Sound!OneMusic, Sound!Sounds, Sound!FadesOut
    <2>1. n \in music \ crossed /\ src[n] = "on"
      BY <1>2, <1>4, <1>5
    <2>2. source[n] = "on" /\ (n = currentMusic => fade)
      BY <1>6, <2>1
    <2>3. CASE n = currentMusic
      BY <1>1, <1>3, <2>2, <2>3 DEF Added
    <2>4. CASE n # currentMusic
      BY <1>1, <1>3, <2>1, <2>2, <2>4 DEF Added, Sound!OneMusic, Sound!Sounds, Sound!FadesOut
    <2> QED  BY <2>3, <2>4
  <1>12. Sound(music, levels)!VolumeSettles'
    <2>1. CASE fade
      BY <1>2, <1>3, <2>1 DEF Sound!VolumeSettles, Sound!Fading, Added
    <2>2. CASE ~fade
      BY <1>2, <1>5, <2>2 DEF Sound!VolumeSettles
    <2> QED  BY <2>1, <2>2
  <1>13. Sound(music, levels)!PauseWorks'
    BY <1>2, <1>5 DEF Sound!PauseWorks
  <1> QED  BY <1>8, <1>10, <1>11, <1>12, <1>13 DEF SoundInv

LEMMA SoundSteps ==
    ASSUME NEW CONSTANT music, NEW CONSTANT levels, Sound(music, levels)!SoundsAssumption,
           SoundInv(music, levels), Sound(music, levels)!Next
    PROVE  SoundInv(music, levels)'
  <1>1. musicVolume \in levels /\ levels \subseteq Nat
    BY DEF SoundInv, SoundTypes, Sound!SoundsAssumption
  <1>2. CASE Sound(music, levels)!PauseMusic \/ Sound(music, levels)!ResumeMusic
    BY <1>2, SoundConnect DEF Sound!PauseMusic, Sound!ResumeMusic
  <1>3. CASE Sound(music, levels)!Mute
    BY <1>1, <1>3, SoundVolume DEF Sound!Mute
  <1>4. CASE Sound(music, levels)!Unmute
    BY <1>1, <1>4, SoundVolume DEF Sound!Unmute, Sound!UnmuteVolume
  <1>5. ASSUME NEW v \in levels, Sound(music, levels)!SetVolumeMusic(v)
        PROVE  SoundInv(music, levels)'
    <2>1. v \in Nat /\ musicVolume' = v /\ muteFlag' \in BOOLEAN /\ Sound(music, levels)!SetCurrentVolume(v)
      BY <1>1, <1>5 DEF Sound!SetVolumeMusic, SoundInv, SoundTypes
    <2> QED  BY <2>1, SoundVolume
  <1> QED
    BY <1>2, <1>3, <1>4, <1>5, SoundPlays, SoundStops, SoundTick, SoundEnds DEF Sound!Next

\* One music sounds or is faded out, at its volume, and can be paused (phina.js:4931).
THEOREM MusicAlwaysManaged == Spec => []MusicIsManaged
  <1> DEFINE Inv == /\ part = "sounds" => SoundInv(Music, OneLevel)
                    /\ part = "levels" => SoundInv(Solo, Levels)
  <1>1. Init => Inv
    BY SoundAssumption, SoundStarts DEF Init
  <1>2. Inv /\ [Next]_vars => Inv'
    <2>1. ASSUME Inv, Next PROVE Inv'
      BY <2>1, SoundAssumption, SoundSteps DEF Next
    <2>2. ASSUME Inv, UNCHANGED vars PROVE Inv'
      BY <2>2, SoundStays DEF vars
    <2> QED  BY <2>1, <2>2
  <1>3. Inv => MusicIsManaged
    BY DEF SoundInv, SoundTypes, MusicIsManaged
  <1> QED  BY <1>1, <1>2, <1>3, PTL DEF Spec

-----------------------------------------------------------------------------
(* Loading *)

Resolved == Load!Count("resolved")
Assets == Cardinality(DOMAIN kind)

LoadTypes ==
    /\ Assets \in Nat /\ DOMAIN kind = 1 .. Assets /\ kind \in [DOMAIN kind -> Load!Kind]
    /\ flow \in [DOMAIN kind -> {"none", "pending", "retry", "resolved", "dead"}]
    /\ failed \in [DOMAIN kind -> BOOLEAN] /\ usable \in [DOMAIN kind -> BOOLEAN]
    /\ lie \in BOOLEAN /\ listens \in BOOLEAN /\ load \in BOOLEAN /\ started \in BOOLEAN
    /\ next \in 1 .. Assets + 1 /\ flows = next - 1 /\ counter = Resolved
    /\ loadingValue \in 0 .. Load!Full

\* What was asked for has a flow; without the listener only what is there at once has come,
\* and nothing has failed.
LoadOrder ==
    /\ \A a \in DOMAIN kind :
          /\ flow[a] = "none" <=> a >= next
          /\ ~listens => (flow[a] = "resolved" => kind[a] = "sync") /\ ~failed[a]
          /\ failed[a] => kind[a] = "sound"
          /\ flow[a] = "resolved" => usable[a] \/ failed[a]
    /\ listens => next = Assets + 1
    /\ load => listens /\ Resolved = Assets
    /\ Resolved = Assets => \A a \in DOMAIN kind : usable[a]

\* The gauge is full if everything is there, or by what was there too early.
GaugeFull == IF lie THEN load ELSE Load!Early \/ Resolved = Assets
LoadInv ==
    /\ LoadTypes /\ LoadOrder
    /\ loadingValue = Load!Full => GaugeFull
    /\ started => GaugeFull

-----------------------------------------------------------------------------
\* The number of those that are resolved, and what it says when it is that of all.
LEMMA ResolvedBound ==
    ASSUME DOMAIN kind = 1 .. Assets, Assets \in Nat
    PROVE  /\ Resolved \in 0 .. Assets
           /\ Resolved = Assets => \A a \in DOMAIN kind : flow[a] = "resolved"
  <1> DEFINE R == {a \in DOMAIN kind : flow[a] = "resolved"}
  <1>1. IsFiniteSet(DOMAIN kind)
    BY FS_Interval
  <1>2. /\ IsFiniteSet(R) /\ Cardinality(R) <= Assets
        /\ Cardinality(R) = Assets => R = DOMAIN kind
    BY <1>1, FS_Subset DEF Assets
  <1>3. Cardinality(R) \in Nat
    BY <1>2, FS_CardinalityType
  <1>4. Resolved = Cardinality(R)
    BY DEF Resolved, Load!Count, Load!Assets, Load!Cardinality, Cardinality
  <1> QED  BY <1>2, <1>3, <1>4

LEMMA ResolvedBoundNext ==
    (DOMAIN kind = 1 .. Assets /\ Assets \in Nat)' =>
        (Resolved \in 0 .. Assets /\ (Resolved = Assets => \A a \in DOMAIN kind : flow[a] = "resolved"))'
  <1>1. (DOMAIN kind = 1 .. Assets /\ Assets \in Nat) =>
        (Resolved \in 0 .. Assets /\ (Resolved = Assets => \A a \in DOMAIN kind : flow[a] = "resolved"))
    BY ResolvedBound
  <1> QED  BY <1>1, PTL

LEMMA ResolvedOneMore ==
    ASSUME LoadTypes, NEW a \in DOMAIN kind, flow[a] # "resolved", kind' = kind,
           flow' = [flow EXCEPT ![a] = "resolved"]
    PROVE  Resolved' = Resolved + 1 /\ Assets' = Assets
  <1> DEFINE R == {b \in DOMAIN kind : flow[b] = "resolved"}
  <1>1. IsFiniteSet(R)
    <2>1. IsFiniteSet(DOMAIN kind)
      <3>1. DOMAIN kind = 1 .. Assets /\ Assets \in Int
        BY DEF LoadTypes
      <3> QED  BY <3>1, FS_Interval
    <2> QED  BY <2>1, FS_Subset
  <1>2. Cardinality(R \cup {a}) = Cardinality(R) + 1
    BY <1>1, FS_AddElement
  <1>3. R' = R \cup {a}
    BY DEF LoadTypes
  <1>4. Resolved = Cardinality(R) /\ Resolved' = Cardinality(R')
    BY DEF Resolved, Load!Count, Load!Assets, Load!Cardinality, Cardinality
  <1> QED  BY <1>2, <1>3, <1>4 DEF Assets

LEMMA ResolvedSame ==
    ASSUME LoadTypes, kind' = kind,
           \A b \in DOMAIN kind : flow'[b] = "resolved" <=> flow[b] = "resolved"
    PROVE  Resolved' = Resolved /\ Assets' = Assets
  BY DEF Resolved, Assets, Load!Count, Load!Assets

\* Progress is 1 or more exactly if as many were counted as there are flows, or more.
LEMMA ProgressEnds ==
    ASSUME NEW c \in Nat, NEW n \in Nat
    PROVE  /\ Load!Progress(c, n) \in Nat
           /\ Load!Progress(c, n) >= Load!Full <=> c >= n
           /\ Load!Clamp(Load!Progress(c, n)) \in 0 .. Load!Full
           /\ Load!Clamp(Load!Progress(c, n)) = Load!Full <=> c >= n
  <1>1. CASE n = 0
    BY <1>1 DEF Load!Progress, Load!Full, Load!Clamp
  <1>2. CASE n > 0
    <2> DEFINE q == (12 * c) \div n
    <2>1. q \in Nat /\ q * n <= 12 * c /\ 12 * c < q * n + n
      BY <1>2
    <2>2. Load!Progress(c, n) = q
      BY <1>2 DEF Load!Progress, Load!Full
    <2> HIDE DEF q
    <2>3. c >= n => q >= 12
      <3> SUFFICES ASSUME c >= n, q <= 11 PROVE FALSE
        BY <2>1
      <3>1. q * n <= 11 * n
        BY <1>2, <2>1
      <3> QED  BY <2>1, <3>1
    <2>4. c < n => q < 12
      <3> SUFFICES ASSUME c < n, q >= 12 PROVE FALSE
        BY <2>1
      <3>1. q * n >= 12 * n
        BY <1>2, <2>1
      <3> QED  BY <2>1, <3>1
    <2> QED  BY <2>1, <2>2, <2>3, <2>4 DEF Load!Full, Load!Clamp
  <1> QED  BY <1>1, <1>2

\* An asset is kept: one more is resolved, and it can be used or has failed.
LEMMA KeepSteps ==
    ASSUME LoadTypes, LoadOrder, NEW a \in DOMAIN kind, NEW error \in BOOLEAN,
           flow[a] # "resolved", kind' = kind, listens' = listens, Load!Keep(a, error)
    PROVE  /\ flow' = [flow EXCEPT ![a] = "resolved"]
           /\ flow' \in [DOMAIN kind -> {"none", "pending", "retry", "resolved", "dead"}]
           /\ failed' = [failed EXCEPT ![a] = error] /\ failed' \in [DOMAIN kind -> BOOLEAN]
           /\ usable' \in [DOMAIN kind -> BOOLEAN]
           /\ Resolved' = Resolved + 1 /\ counter' = Resolved' /\ Assets' = Assets
           /\ Resolved' \in 0 .. Assets
           /\ \A b \in DOMAIN kind : flow'[b] = "resolved" => usable'[b] \/ failed'[b]
           /\ listens /\ Resolved' >= flows => \A b \in DOMAIN kind :
                  flow'[b] = "resolved" => usable'[b]
  <1>1. /\ flow' = [flow EXCEPT ![a] = "resolved"] /\ counter' = counter + 1
        /\ failed' = [failed EXCEPT ![a] = error]
    BY DEF Load!Keep
  <1>2. /\ flow' \in [DOMAIN kind -> {"none", "pending", "retry", "resolved", "dead"}]
        /\ failed' \in [DOMAIN kind -> BOOLEAN]
    BY <1>1 DEF LoadTypes
  <1>3. Resolved' = Resolved + 1 /\ Assets' = Assets
    BY <1>1, ResolvedOneMore
  <1>4. Resolved' \in 0 .. Assets /\ Resolved \in 0 .. Assets /\ counter = Resolved
    <2>1. Resolved \in 0 .. Assets /\ counter = Resolved
      BY ResolvedBound DEF LoadTypes
    <2>2. (DOMAIN kind = 1 .. Assets /\ Assets \in Nat)'
      BY <1>3 DEF LoadTypes
    <2> QED  BY <1>3, <2>1, <2>2, ResolvedBoundNext
  <1>5. CASE listens /\ Load!AtEnd(Load!Progress(counter + 1, flows))
    <2>1. usable' = Load!Replaced(failed', [usable EXCEPT ![a] = ~ error])
      BY <1>5 DEF Load!Keep
    <2>2. usable' = [b \in DOMAIN kind |-> [usable EXCEPT ![a] = ~ error][b] \/ failed'[b]]
      BY <2>1 DEF Load!Replaced, Load!Assets
    <2>3. usable' \in [DOMAIN kind -> BOOLEAN]
      BY <1>2, <2>2 DEF LoadTypes
    <2>4. \A b \in DOMAIN kind : flow'[b] = "resolved" => usable'[b]
      BY <1>1, <2>2 DEF LoadTypes, LoadOrder
    <2> QED  BY <1>1, <1>2, <1>3, <1>4, <2>3, <2>4
  <1>6. CASE ~(listens /\ Load!AtEnd(Load!Progress(counter + 1, flows)))
    <2>1. usable' = [usable EXCEPT ![a] = ~ error]
      BY <1>6 DEF Load!Keep
    <2>2. usable' \in [DOMAIN kind -> BOOLEAN]
          /\ \A b \in DOMAIN kind : flow'[b] = "resolved" => usable'[b] \/ failed'[b]
      BY <1>1, <2>1 DEF LoadTypes, LoadOrder
    <2>3. ~(listens /\ Resolved' >= flows)
      <3>1. counter + 1 \in Nat /\ flows \in Nat
        BY <1>4 DEF LoadTypes
      <3>2. Load!Progress(counter + 1, flows) >= Load!Full <=> counter + 1 >= flows
        BY <3>1, ProgressEnds
      <3> QED  BY <1>3, <1>4, <1>6, <3>1, <3>2 DEF Load!AtEnd
    <2> QED  BY <1>1, <1>2, <1>3, <1>4, <2>2, <2>3
  <1> QED  BY <1>5, <1>6

\* The gauge is set to what was counted.
LEMMA GaugeMoves ==
    ASSUME NEW c \in Nat, NEW n \in Nat, Load!SetValue(Load!Progress(c, n))
    PROVE  loadingValue' \in 0 .. Load!Full /\ (loadingValue' = Load!Full <=> c >= n)
  <1> DEFINE p == Load!Clamp(Load!Progress(c, n))
  <1>1. p \in 0 .. Load!Full /\ (p = Load!Full <=> c >= n)
    BY ProgressEnds
  <1>2. loadingValue' = p
    BY DEF Load!SetValue, Load!gauge
  <1> QED  BY <1>1, <1>2

\* No asset is there too early, and only what is there at once has come: then less is there
\* than was asked for but one.
LEMMA NotEarly ==
    ASSUME LoadInv, ~listens, ~Load!Early, next <= Assets
    PROVE  next > 2 => Resolved + 1 < next - 1
  <1> SUFFICES ASSUME next > 2 PROVE Resolved + 1 < next - 1
    OBVIOUS
  <1> DEFINE R == {b \in DOMAIN kind : flow[b] = "resolved"}
  <1>1. R \subseteq 3 .. next - 1
    BY DEF LoadInv, LoadTypes, LoadOrder, Load!Early, Load!Assets
  <1>2. IsFiniteSet(3 .. next - 1) /\ Cardinality(3 .. next - 1) = next - 3
    <2>1. 3 \in Int /\ next - 1 \in Int /\ next \in Int
      BY DEF LoadInv, LoadTypes
    <2> HIDE DEF R
    <2> QED  BY <2>1, FS_Interval
  <1>3. Cardinality(R) <= next - 3
    BY <1>1, <1>2, FS_Subset
  <1>4. Resolved = Cardinality(R)
    BY DEF Resolved, Load!Count, Load!Assets, Load!Cardinality, Cardinality
  <1>5. Resolved \in Nat /\ next \in Nat
    BY ResolvedBound DEF LoadInv, LoadTypes
  <1> QED  BY <1>3, <1>4, <1>5

LEMMA RequestSteps == ASSUME LoadInv, Load!Request PROVE LoadInv'
  <1>1. /\ next \in 1 .. Assets /\ next \in DOMAIN kind /\ flow[next] = "none" /\ ~listens /\ ~load
        /\ Resolved < Assets /\ Assets \in Nat /\ Resolved \in Nat
    <2>1. next <= Assets
      BY DEF Load!Request, Load!Assets, Load!Cardinality, Cardinality, Assets
    <2>2. next \in 1 .. Assets /\ next \in DOMAIN kind /\ flow[next] = "none" /\ ~listens /\ ~load
      BY <2>1 DEF LoadInv, LoadTypes, LoadOrder
    <2> QED  BY <2>2, ResolvedBound DEF LoadInv, LoadTypes
  <1>2. /\ next' = next + 1 /\ flows' = flows + 1
        /\ UNCHANGED <<kind, lie, listens, load, started>>
    BY DEF Load!Request, Load!options
  <1>3. CASE kind[next] = "sync"
    <2>1. Load!Keep(next, FALSE) /\ Load!Move(FALSE)
      BY <1>3 DEF Load!Request
    <2>2. /\ flow' = [flow EXCEPT ![next] = "resolved"]
          /\ flow' \in [DOMAIN kind -> {"none", "pending", "retry", "resolved", "dead"}]
          /\ failed' = [failed EXCEPT ![next] = FALSE] /\ failed' \in [DOMAIN kind -> BOOLEAN]
          /\ usable' \in [DOMAIN kind -> BOOLEAN]
          /\ Resolved' = Resolved + 1 /\ counter' = Resolved' /\ Assets' = Assets
          /\ Resolved' \in 0 .. Assets
          /\ \A b \in DOMAIN kind : flow'[b] = "resolved" => usable'[b] \/ failed'[b]
      BY <1>1, <1>2, <2>1, KeepSteps DEF LoadInv
    <2>3. loadingValue' \in 0 .. Load!Full
          /\ (loadingValue' = Load!Full => GaugeFull \/ (~lie /\ Resolved + 1 >= flows))
      <3>1. CASE lie
        BY <2>1, <3>1 DEF Load!Move, Load!gauge, LoadInv, LoadTypes, GaugeFull
      <3>2. CASE ~lie
        <4>1. Load!SetValue(Load!Progress(Resolved + 1, flows)) /\ flows \in Nat
          BY <2>1, <3>2 DEF Load!Move, LoadInv, LoadTypes
        <4> QED  BY <1>1, <3>2, <4>1, GaugeMoves
      <3> QED  BY <3>1, <3>2 DEF LoadInv, LoadTypes
    <2>4. LoadTypes'
      BY <1>1, <1>2, <2>2, <2>3 DEF LoadInv, LoadTypes
    <2>5. LoadOrder'
      <3>1. \A a \in DOMAIN kind' :
              /\ flow'[a] = "none" <=> a >= next'
              /\ ~listens' => (flow'[a] = "resolved" => kind'[a] = "sync") /\ ~failed'[a]
              /\ failed'[a] => kind'[a] = "sound"
              /\ flow'[a] = "resolved" => usable'[a] \/ failed'[a]
        BY <1>1, <1>2, <1>3, <2>2 DEF LoadInv, LoadTypes, LoadOrder
      <3>2. Resolved' = Assets' => \A a \in DOMAIN kind' : usable'[a]
        <4>1. Resolved' = Assets' => \A a \in DOMAIN kind' : flow'[a] = "resolved"
          BY <2>4, ResolvedBoundNext DEF LoadTypes
        <4> QED  BY <1>1, <1>2, <3>1, <4>1
      <3> QED  BY <1>1, <1>2, <3>1, <3>2 DEF LoadOrder
    <2>6. GaugeFull => GaugeFull'
      BY <1>1, <1>2, <2>2 DEF GaugeFull, Load!Early, Load!Assets
    <2>7. ~lie /\ Resolved + 1 >= flows => GaugeFull'
      <3> SUFFICES ASSUME ~lie, Resolved + 1 >= flows PROVE Load!Early
        BY <1>2 DEF GaugeFull, Load!Early, Load!Assets
      <3>1. CASE next > 2
        BY <1>1, <3>1, NotEarly DEF LoadInv, LoadTypes
      <3>2. CASE next <= 2
        BY <1>1, <1>3, <3>2 DEF Load!Early, Load!Assets
      <3> QED  BY <1>1, <3>1, <3>2
    <2> QED  BY <1>2, <2>3, <2>4, <2>5, <2>6, <2>7 DEF LoadInv
  <1>4. CASE kind[next] # "sync"
    <2>1. flow' = [flow EXCEPT ![next] = "pending"] /\ UNCHANGED <<loadingValue, tween, failed, usable, counter>>
      BY <1>4 DEF Load!Request, Load!gauge
    <2>2. Resolved' = Resolved /\ Assets' = Assets
      BY <1>1, <1>2, <2>1, ResolvedSame DEF LoadInv, LoadTypes
    <2>3. LoadTypes'
      BY <1>1, <1>2, <2>1, <2>2 DEF LoadInv, LoadTypes
    <2>4. LoadOrder'
      BY <1>1, <1>2, <2>1, <2>2 DEF LoadInv, LoadTypes, LoadOrder
    <2>5. GaugeFull' <=> GaugeFull
      BY <1>2, <2>2 DEF GaugeFull, Load!Early, Load!Assets
    <2> QED  BY <1>2, <2>1, <2>3, <2>4, <2>5 DEF LoadInv
  <1> QED  BY <1>3, <1>4

LEMMA ListenSteps == ASSUME LoadInv, Load!Listen PROVE LoadInv'
  <1>1. /\ next = Assets + 1 /\ ~listens /\ listens' = TRUE /\ ~load
        /\ load' = (Resolved > 0 /\ Resolved >= flows)
        /\ UNCHANGED <<kind, lie, next, flow, failed, usable, counter, flows, started>>
    <2>1. next > Assets
      BY DEF Load!Listen, Load!Assets, Load!Cardinality, Cardinality, Assets
    <2> QED  BY <2>1 DEF Load!Listen, Load!options, Load!AllCounted, LoadInv, LoadTypes, LoadOrder, Resolved
  <1>2. Resolved' = Resolved /\ Assets' = Assets /\ Resolved \in 0 .. Assets
    BY <1>1, ResolvedSame, ResolvedBound DEF LoadInv, LoadTypes
  <1>3. loadingValue' \in 0 .. Load!Full /\ (loadingValue' = Load!Full => GaugeFull')
    <2>1. GaugeFull => GaugeFull'
      BY <1>1, <1>2 DEF GaugeFull, Load!Early, Load!Assets
    <2>2. CASE lie /\ load'
      <3>1. loadingValue' = Load!Full
        BY <2>2 DEF Load!Listen, Load!SetValue, Load!Clamp, Load!gauge
      <3> QED  BY <1>1, <2>2, <3>1 DEF GaugeFull, Load!Full
    <2>3. CASE ~(lie /\ load')
      BY <2>1, <2>3 DEF Load!Listen, Load!gauge, LoadInv, LoadTypes
    <2> QED  BY <2>2, <2>3
  <1>4. LoadTypes'
    BY <1>1, <1>2, <1>3 DEF LoadInv, LoadTypes
  <1>5. LoadOrder'
    BY <1>1, <1>2 DEF LoadInv, LoadTypes, LoadOrder
  <1>6. started' => GaugeFull'
    BY <1>1, <1>2 DEF LoadInv, GaugeFull, Load!Early, Load!Assets
  <1> QED  BY <1>3, <1>4, <1>5, <1>6 DEF LoadInv

LEMMA ResolveSteps ==
    ASSUME LoadInv, NEW a \in DOMAIN kind, NEW error \in BOOLEAN, listens,
           flow[a] \in {"pending", "retry"}, error => kind[a] = "sound", Load!Resolve(a, error)
    PROVE  LoadInv'
  <1>1. /\ UNCHANGED <<kind, lie, next, flows, listens, started>>
        /\ Load!Keep(a, error)
    BY DEF Load!Resolve, Load!options
  <1>2. /\ flow' = [flow EXCEPT ![a] = "resolved"]
        /\ flow' \in [DOMAIN kind -> {"none", "pending", "retry", "resolved", "dead"}]
        /\ failed' = [failed EXCEPT ![a] = error] /\ failed' \in [DOMAIN kind -> BOOLEAN]
        /\ usable' \in [DOMAIN kind -> BOOLEAN]
        /\ Resolved' = Resolved + 1 /\ counter' = Resolved' /\ Assets' = Assets
        /\ Resolved' \in 0 .. Assets
        /\ \A b \in DOMAIN kind : flow'[b] = "resolved" => usable'[b] \/ failed'[b]
        /\ listens /\ Resolved' >= flows => \A b \in DOMAIN kind :
               flow'[b] = "resolved" => usable'[b]
    BY <1>1, KeepSteps DEF LoadInv
  <1>3. /\ flows = Assets /\ Assets \in Nat /\ Resolved \in 0 .. Assets /\ ~load
        /\ Resolved \in Nat /\ Assets > 0
    <2>1. Resolved \in 0 .. Assets /\ flows = Assets
      BY ResolvedBound DEF LoadInv, LoadTypes, LoadOrder
    <2> QED  BY <1>2, <2>1 DEF LoadInv, LoadTypes, LoadOrder
  <1>4. load' = (Resolved' = Assets) /\ Load!Move(load')
    <2>1. load' = (load \/ (Resolved + 1 > 0 /\ Resolved + 1 >= flows))
          /\ Load!Move((Resolved + 1 > 0 /\ Resolved + 1 >= flows) /\ ~load)
      BY DEF Load!Resolve, Load!AllCounted, Resolved
    <2>2. (Resolved + 1 > 0 /\ Resolved + 1 >= flows) <=> Resolved' = Assets
      BY <1>2, <1>3
    <2> QED  BY <1>3, <2>1, <2>2 DEF Load!Move
  <1>5. loadingValue' \in 0 .. Load!Full /\ (loadingValue' = Load!Full => GaugeFull')
    <2>1. loadingValue = Load!Full => GaugeFull'
      BY <1>1, <1>2, <1>3, <1>4 DEF LoadInv, GaugeFull, Load!Early, Load!Assets
    <2>2. CASE ~lie
      <3>1. Load!SetValue(Load!Progress(Resolved + 1, flows)) /\ flows \in Nat
        BY <1>3, <1>4, <2>2 DEF Load!Move, LoadInv, LoadTypes
      <3>2. loadingValue' \in 0 .. Load!Full /\ (loadingValue' = Load!Full <=> Resolved + 1 >= flows)
        BY <1>3, <3>1, GaugeMoves
      <3> QED  BY <1>1, <1>2, <1>3, <2>2, <3>2 DEF GaugeFull
    <2>3. CASE lie /\ load'
      <3>1. loadingValue' = Load!Full
        BY <1>4, <2>3 DEF Load!Move, Load!SetValue, Load!Clamp, Load!gauge
      <3> QED  BY <1>1, <2>3, <3>1 DEF GaugeFull, Load!Full
    <2>4. CASE lie /\ ~load'
      BY <1>4, <2>1, <2>4 DEF Load!Move, Load!gauge, LoadInv, LoadTypes
    <2> QED  BY <2>2, <2>3, <2>4
  <1>6. LoadTypes'
    BY <1>1, <1>2, <1>4, <1>5 DEF LoadInv, LoadTypes
  <1>7. LoadOrder'
    <2>1. \A b \in DOMAIN kind :
              /\ flow'[b] = "none" <=> b >= next
              /\ failed'[b] => kind[b] = "sound"
      BY <1>2 DEF LoadInv, LoadTypes, LoadOrder
    <2>2. Resolved' = Assets => \A b \in DOMAIN kind : usable'[b]
      <3>1. Resolved' = Assets' => \A b \in DOMAIN kind' : flow'[b] = "resolved"
        BY <1>6, ResolvedBoundNext DEF LoadTypes
      <3> QED  BY <1>1, <1>2, <1>3, <3>1
    <2> QED  BY <1>1, <1>2, <1>4, <2>1, <2>2 DEF LoadInv, LoadOrder
  <1>8. started' => GaugeFull'
    BY <1>1, <1>2, <1>3, <1>4 DEF LoadInv, GaugeFull, Load!Early, Load!Assets
  <1> QED  BY <1>5, <1>6, <1>7, <1>8 DEF LoadInv

LEMMA FailSteps ==
    ASSUME LoadInv, NEW a \in DOMAIN kind, listens, flow[a] \in {"pending", "retry"},
           NEW s \in {"retry", "dead"}, flow' = [flow EXCEPT ![a] = s],
           UNCHANGED <<kind, lie, next, failed, usable, counter, flows, listens, loadingValue,
                       tween, load, started>>
    PROVE  LoadInv'
  <1>1. Resolved' = Resolved /\ Assets' = Assets
    BY ResolvedSame DEF LoadInv, LoadTypes
  <1>2. LoadTypes' /\ LoadOrder'
    BY <1>1 DEF LoadInv, LoadTypes, LoadOrder
  <1>3. GaugeFull' <=> GaugeFull
    BY <1>1 DEF GaugeFull, Load!Early, Load!Assets
  <1> QED  BY <1>2, <1>3 DEF LoadInv

LEMMA LoadSame ==
    ASSUME LoadInv, started' => started \/ loadingValue = Load!Full, started' \in BOOLEAN,
           UNCHANGED <<kind, lie, next, flow, failed, usable, counter, flows, listens,
                       loadingValue, load>>
    PROVE  LoadInv'
  <1>1. Resolved' = Resolved /\ Assets' = Assets
    BY ResolvedSame DEF LoadInv
  <1>2. LoadTypes' /\ LoadOrder'
    BY <1>1 DEF LoadInv, LoadTypes, LoadOrder
  <1>3. GaugeFull' <=> GaugeFull
    BY <1>1 DEF GaugeFull, Load!Early, Load!Assets
  <1> QED  BY <1>2, <1>3 DEF LoadInv

LEMMA LoadSteps == ASSUME LoadInv, Load!Next PROVE LoadInv'
  <1>1. CASE Load!Animated
    BY <1>1, LoadSame DEF Load!Animated, Load!loader, Load!options, Load!IsFull
  <1>2. ASSUME NEW a \in DOMAIN kind, Load!Answer(a) PROVE LoadInv'
    <2> USE DEF Load!Waits, Load!options, Load!gauge
    <2>1. CASE Load!Arrives(a)
      BY <2>1, ResolveSteps DEF Load!Arrives
    <2>2. CASE Load!FontReady(a)
      BY <2>2, ResolveSteps DEF Load!FontReady
    <2>3. CASE Load!SoundFails(a)
      BY <2>3, ResolveSteps DEF Load!SoundFails
    <2>4. CASE Load!ImageFails(a)
      <3> DEFINE s == IF flow[a] = "pending" THEN "retry" ELSE "dead"
      <3>1. s \in {"retry", "dead"} /\ flow' = [flow EXCEPT ![a] = s]
        BY <2>4 DEF Load!ImageFails
      <3> HIDE DEF s
      <3> QED  BY <2>4, <3>1, FailSteps DEF Load!ImageFails
    <2>5. CASE Load!FileFails(a)
      BY <2>5, FailSteps DEF Load!FileFails
    <2> QED  BY <1>2, <2>1, <2>2, <2>3, <2>4, <2>5 DEF Load!Answer
  <1> QED  BY <1>1, <1>2, RequestSteps, ListenSteps DEF Load!Next, Load!Assets

LEMMA LoadStarts == ASSUME Load!Init PROVE LoadInv
  <1>1. PICK n \in 0 .. MaxAssets : kind \in [1 .. n -> Load!Kind]
    BY DEF Load!Init
  <1>2. n \in Nat /\ DOMAIN kind = 1 .. n /\ Assets = n
    <2>1. n \in Nat /\ n \in Int /\ DOMAIN kind = 1 .. n
      BY <1>1, LoadAssumption DEF Load!LoadingAssumption
    <2> QED  BY <2>1, FS_Interval DEF Assets
  <1>3. Resolved = 0
    <2>1. {a \in DOMAIN kind : flow[a] = "resolved"} = {}
      BY DEF Load!Init, Load!Assets
    <2> QED  BY <2>1, FS_EmptySet DEF Resolved, Load!Count, Load!Assets, Load!Cardinality, Cardinality
  <1>4. LoadTypes
    <2>1. lie \in BOOLEAN /\ listens \in BOOLEAN /\ load \in BOOLEAN /\ started \in BOOLEAN
      BY DEF Load!Init
    <2>2. loadingValue \in 0 .. Load!Full
      BY <2>1 DEF Load!Init, Load!Full
    <2>3. /\ flow \in [DOMAIN kind -> {"none", "pending", "retry", "resolved", "dead"}]
          /\ failed \in [DOMAIN kind -> BOOLEAN] /\ usable \in [DOMAIN kind -> BOOLEAN]
      BY DEF Load!Init, Load!Assets
    <2>4. next \in 1 .. Assets + 1 /\ flows = next - 1 /\ counter = Resolved
      BY <1>2, <1>3 DEF Load!Init
    <2> QED  BY <1>1, <1>2, <2>1, <2>2, <2>3, <2>4 DEF LoadTypes
  <1>5. LoadOrder
    BY <1>1, <1>2, <1>3 DEF Load!Init, LoadOrder, Load!Assets
  <1> QED  BY <1>2, <1>4, <1>5 DEF LoadInv, Load!Init, Load!Full

\* 'load' means everything, and a game starts with what it needs (phina.js:4598, 4604).
THEOREM GameAlwaysStartsLoaded == Spec => []GameStartsLoaded
  <1>1. Init => (part = "loading" => LoadInv)
    BY LoadStarts DEF Init
  <1>2. (part = "loading" => LoadInv) /\ [Next]_vars => (part = "loading" => LoadInv)'
    <2>1. ASSUME LoadInv, UNCHANGED vars PROVE LoadInv'
      BY <2>1, LoadSame DEF vars, loadingVars, LoadInv, LoadTypes
    <2> QED  BY <2>1, LoadSteps DEF Next, vars
  <1>3. (part = "loading" => LoadInv) => GameStartsLoaded
    <2> SUFFICES ASSUME LoadInv PROVE Load!TypeOK /\ Load!LoadMeansAll /\ Load!StartsLoaded /\ Load!UsableOnStart
      BY DEF GameStartsLoaded
    <2>1. Load!TypeOK
      BY DEF Load!TypeOK, LoadInv, LoadTypes, LoadOrder, Load!Assets, Resolved
    <2>2. Load!LoadMeansAll
      BY DEF Load!LoadMeansAll, LoadInv, LoadOrder, Resolved, Assets, Load!Assets, Load!Cardinality,
             Cardinality
    <2>3. Load!StartsLoaded
      BY DEF Load!StartsLoaded, LoadInv, GaugeFull, Resolved, Assets, Load!Assets, Load!Cardinality,
             Cardinality
    <2>4. Load!UsableOnStart
      BY DEF Load!UsableOnStart, LoadInv, GaugeFull, LoadOrder, LoadTypes, Load!Assets
    <2> QED  BY <2>1, <2>2, <2>3, <2>4
  <1> QED  BY <1>1, <1>2, <1>3, PTL DEF Spec

-----------------------------------------------------------------------------
(* Events *)

\* What can be called, and a fire under way.
Callable == Plain \cup Once
FireRecord ==
    [calling : Callable \cup {Fires!Handler, "nothing"}, i : Nat,
     temp : Seq(Callable), called : Seq(Callable), took : Seq(Callable)]

FireTypes ==
    /\ listeners \in Seq(Callable) /\ eventsStack \in Seq(FireRecord)
    /\ deepest \in Nat /\ thrown \in Nat /\ eventsCalls \in [Once -> Nat]
    /\ Len(eventsStack) <= deepest

\* A fire is at its handler, at one of those it took, or at the end of them.
InStep(f) ==
    \/ f.calling = Fires!Handler /\ f.i = 0 /\ f.temp = <<>> /\ f.called = <<>> /\ f.took = <<>>
    \/ /\ f.took = f.temp /\ f.i \in 1 .. Len(f.temp) /\ f.calling = f.temp[f.i]
       /\ f.called = SubSeq(f.temp, 1, f.i)
    \/ /\ f.took = f.temp /\ f.i = Len(f.temp) + 1 /\ f.calling = "nothing"
       /\ f.called = f.temp

\* A wrapper is in a list once.
Single(list) == \A a, b \in DOMAIN list : list[a] = list[b] /\ list[a] \in Once => a = b

Listens(list, w) == \E l \in DOMAIN list : list[l] = w

\* A wrapper that has returned from a fire has left the list.
Gone(f, list) ==
    \A m \in DOMAIN f.temp :
        m <= f.i /\ f.temp[m] \in Once /\ f.temp[m] # f.calling => ~Listens(list, f.temp[m])

Waits(f, w) == \E m \in DOMAIN f.temp : m > f.i /\ f.temp[m] = w
Holds(f, w) == \E m \in DOMAIN f.temp : f.temp[m] = w
Waiting(s, w) == {k \in DOMAIN s : Waits(s[k], w)}
Holding(s, w) == {k \in DOMAIN s : Holds(s[k], w)}

\* What has called a wrapper or is about to: the fires that hold it while it is in the
\* list, and those that ever could at once when it is not.
CallBound(w) ==
    eventsCalls[w] + Cardinality(Waiting(eventsStack, w))
        <= deepest * thrown + (IF Listens(listeners, w) THEN Cardinality(Holding(eventsStack, w))
                               ELSE deepest)

FiresInv ==
    /\ FireTypes
    /\ Single(listeners)
    /\ \A k \in DOMAIN eventsStack :
          InStep(eventsStack[k]) /\ Single(eventsStack[k].temp) /\ Gone(eventsStack[k], listeners)
    /\ \A w \in Once : CallBound(w)

-----------------------------------------------------------------------------
\* Taking out the first of its kind.
LEMMA RemoveFirstWhere ==
    ASSUME NEW S, NEW s \in Seq(S), NEW e
    PROVE  \/ /\ \A i \in DOMAIN s : s[i] # e
              /\ Fires!RemoveFirst(s, e) = s
           \/ \E i \in DOMAIN s :
                 /\ s[i] = e /\ \A j \in 1 .. i - 1 : s[j] # e
                 /\ Fires!RemoveFirst(s, e) = SubSeq(s, 1, i - 1) \o SubSeq(s, i + 1, Len(s))
  <1> DEFINE I == {i \in 1 .. Len(s) : s[i] = e}
  <1>1. DOMAIN s = 1 .. Len(s) /\ Len(s) \in Nat
    OBVIOUS
  <1>2. CASE \E i \in 1 .. Len(s) : s[i] = e
    <2>1. PICK i \in I : \A j \in I : i <= j
      <3>1. I \in SUBSET Nat /\ I # {}
        BY <1>1, <1>2
      <3> HIDE DEF I
      <3>2. PICK x \in I : \A y \in I : ~ (<<y, x>> \in OpToRel(<, Nat))
        BY <3>1, WFMin, NatLessThanWellFounded
      <3>4. I \subseteq Nat /\ \A y \in I : ~ (y < x)
        BY <3>1, <3>2 DEF OpToRel
      <3>3. \A y \in I : x <= y
        BY <3>4
      <3> QED  BY <3>3
    <2> DEFINE q == Fires!SelectInSeq(s, LAMBDA v : v = e)
    <2>2. Fires!RemoveFirst(s, e) = Fires!RemoveAt(s, q)
      BY <1>2 DEF Fires!RemoveFirst
    <2>3. q = Fires!Min(I)
      BY <2>1 DEF Fires!SelectInSeq
    <2>4. Fires!Min(I) = i
      BY <2>1, <1>1 DEF Fires!Min
    <2> HIDE DEF q
    <2>5. Fires!RemoveFirst(s, e) = SubSeq(s, 1, i - 1) \o SubSeq(s, i + 1, Len(s))
      BY <2>2, <2>3, <2>4 DEF Fires!RemoveAt
    <2>6. i \in DOMAIN s /\ s[i] = e /\ \A j \in 1 .. i - 1 : s[j] # e
      BY <1>1, <2>1
    <2> HIDE DEF I
    <2> QED  BY <2>5, <2>6
  <1>3. CASE ~ \E i \in 1 .. Len(s) : s[i] = e
    BY <1>1, <1>3 DEF Fires!RemoveFirst
  <1> QED  BY <1>2, <1>3

LEMMA RemovedFirst ==
    ASSUME NEW s \in Seq(Callable), Single(s), NEW e
    PROVE  LET t == Fires!RemoveFirst(s, e)
           IN  /\ t \in Seq(Callable) /\ Single(t)
               /\ \A w : Listens(t, w) => Listens(s, w)
               /\ e \in Once => ~Listens(t, e)
  <1> DEFINE t == Fires!RemoveFirst(s, e)
  <1>1. CASE (\A i \in DOMAIN s : s[i] # e) /\ t = s
    BY <1>1 DEF Listens
  <1>2. CASE \E i \in DOMAIN s : s[i] = e /\ t = SubSeq(s, 1, i - 1) \o SubSeq(s, i + 1, Len(s))
    <2>1. PICK i \in DOMAIN s : s[i] = e /\ t = SubSeq(s, 1, i - 1) \o SubSeq(s, i + 1, Len(s))
      BY <1>2
    <2> HIDE DEF t
    <2>2. /\ t \in Seq(Callable) /\ Len(t) = Len(s) - 1
          /\ \A k \in 1 .. Len(s) - 1 : t[k] = IF k < i THEN s[k] ELSE s[k + 1]
      BY <2>1, WithoutOne
    <2>3. DOMAIN s = 1 .. Len(s) /\ Len(s) \in Nat /\ DOMAIN t = 1 .. Len(s) - 1 /\ i \in 1 .. Len(s)
      BY <2>2
    <2> DEFINE at(k) == IF k < i THEN k ELSE k + 1
    <2>4. \A k \in DOMAIN t : at(k) \in DOMAIN s /\ at(k) # i /\ t[k] = s[at(k)]
      BY <2>2, <2>3
    <2>5. \A k, l \in DOMAIN t : at(k) = at(l) => k = l
      BY <2>3
    <2>6. Single(t)
      <3> SUFFICES ASSUME NEW a \in DOMAIN t, NEW b \in DOMAIN t, t[a] = t[b], t[a] \in Once
                   PROVE  a = b
        BY DEF Single
      <3>1. /\ at(a) \in DOMAIN s /\ at(b) \in DOMAIN s /\ s[at(a)] = s[at(b)] /\ s[at(a)] \in Once
            /\ at(a) = at(b) => a = b
        BY <2>4, <2>5
      <3> HIDE DEF at
      <3> QED  BY <3>1 DEF Single
    <2>7. \A w : Listens(t, w) => Listens(s, w)
      BY <2>4 DEF Listens
    <2>8. e \in Once => ~Listens(t, e)
      <3> SUFFICES ASSUME e \in Once, NEW k \in DOMAIN t, t[k] = e PROVE FALSE
        BY DEF Listens
      <3>1. at(k) \in DOMAIN s /\ at(k) # i /\ s[at(k)] = e
        BY <2>4
      <3> HIDE DEF at
      <3> QED  BY <2>1, <3>1 DEF Single
    <2> QED  BY <2>2, <2>6, <2>7, <2>8 DEF t
  <1> QED  BY <1>1, <1>2, RemoveFirstWhere DEF Callable

\* The numbers that a set has up to n, and up to n + 1.
LEMMA CountOneMore ==
    ASSUME NEW n \in Nat, NEW A \in SUBSET (1 .. n), NEW B \in SUBSET (1 .. n + 1),
           A = B \cap (1 .. n)
    PROVE  /\ Cardinality(A) \in Nat /\ Cardinality(B) \in Nat /\ Cardinality(A) <= n
           /\ Cardinality(B) = Cardinality(A) + (IF n + 1 \in B THEN 1 ELSE 0)
  <1>1. IsFiniteSet(1 .. n) /\ Cardinality(1 .. n) = n
    <2>1. 1 \in Int /\ n \in Int
      OBVIOUS
    <2>2. IsFiniteSet(1 .. n) /\ Cardinality(1 .. n) = IF 1 > n THEN 0 ELSE n - 1 + 1
      BY <2>1, FS_Interval
    <2> QED  BY <2>2
  <1>2. IsFiniteSet(A) /\ Cardinality(A) \in Nat /\ Cardinality(A) <= n
    BY <1>1, FS_Subset, FS_CardinalityType
  <1>5. 1 .. n + 1 = (1 .. n) \cup {n + 1} /\ n + 1 \notin 1 .. n
    OBVIOUS
  <1>3. CASE n + 1 \in B
    <2>1. B = A \cup {n + 1} /\ n + 1 \notin A
      BY <1>3, <1>5, Zenon
    <2>2. Cardinality(B) = Cardinality(A) + 1
      BY <1>2, <2>1, FS_AddElement
    <2> QED  BY <1>2, <1>3, <2>2
  <1>4. CASE n + 1 \notin B
    <2>1. B = A
      BY <1>4, <1>5, Zenon
    <2> QED  BY <1>2, <1>4, <2>1
  <1> QED  BY <1>3, <1>4

LEMMA TopOfStack ==
    ASSUME NEW S, NEW s \in Seq(S), s # <<>>
    PROVE  /\ Fires!Front(s) \in Seq(S) /\ Fires!Last(s) \in S
           /\ s = Append(Fires!Front(s), Fires!Last(s))
           /\ Len(s) \in Nat /\ Len(s) > 0 /\ Len(Fires!Front(s)) = Len(s) - 1
           /\ \A k \in 1 .. Len(s) - 1 : Fires!Front(s)[k] = s[k]
  <1>1. Len(s) \in Nat /\ Len(s) > 0 /\ DOMAIN s = 1 .. Len(s)
    BY EmptySeq
  <1> DEFINE r == SubSeq(s, 1, Len(s) - 1)
             t == s[Len(s)]
  <1>2. r \in Seq(S) /\ Len(r) = Len(s) - 1 /\ \A k \in 1 .. Len(s) - 1 : r[k] = s[k]
    BY <1>1
  <1>3. t \in S
    BY <1>1, ElementOfSeq
  <1> HIDE DEF r, t
  <1>4. /\ Append(r, t) \in Seq(S) /\ Len(Append(r, t)) = Len(s)
        /\ \A k \in 1 .. Len(s) - 1 : Append(r, t)[k] = r[k]
        /\ Append(r, t)[Len(s)] = t
    <2>1. /\ Append(r, t) \in Seq(S) /\ Len(Append(r, t)) = Len(r) + 1
          /\ \A k \in 1 .. Len(r) : Append(r, t)[k] = r[k]
          /\ Append(r, t)[Len(r) + 1] = t
      BY <1>2, <1>3, AppendProperties
    <2> QED  BY <1>1, <1>2, <2>1
  <1>5. \A k \in 1 .. Len(s) : Append(r, t)[k] = s[k]
    <2> DEFINE n == Len(s)
    <2>2. n \in Nat
      BY <1>1
    <2> HIDE DEF n
    <2>3. \A k \in 1 .. n : k \in 1 .. n - 1 \/ k = n
      BY <2>2
    <2>1. \A k \in 1 .. Len(s) : k \in 1 .. Len(s) - 1 \/ k = Len(s)
      BY <2>3 DEF n
    <2> QED  BY <1>2, <1>4, <2>1 DEF t
  <1>6. s = Append(r, t)
    BY <1>1, <1>4, <1>5, SeqEqual
  <1> QED  BY <1>1, <1>2, <1>3, <1>6 DEF r, t, Fires!Front, Fires!Last

\* What one more fire adds to those that hold a wrapper, and to those that have yet to call it.
LEMMA OneMoreFire ==
    ASSUME NEW r \in Seq(FireRecord), NEW g \in FireRecord, NEW w
    PROVE  LET s == Append(r, g)
           IN  /\ Cardinality(Waiting(r, w)) \in Nat /\ Cardinality(Holding(r, w)) \in Nat
               /\ Cardinality(Holding(r, w)) <= Len(r)
               /\ Cardinality(Waiting(s, w))
                     = Cardinality(Waiting(r, w)) + (IF Waits(g, w) THEN 1 ELSE 0)
               /\ Cardinality(Holding(s, w))
                     = Cardinality(Holding(r, w)) + (IF Holds(g, w) THEN 1 ELSE 0)
  <1> DEFINE s == Append(r, g)
             n == Len(r)
  <1>1. /\ n \in Nat /\ DOMAIN r = 1 .. n /\ DOMAIN s = 1 .. n + 1
        /\ s[n + 1] = g /\ \A k \in 1 .. n : s[k] = r[k]
    BY AppendProperties, LenProperties
  <1> HIDE DEF s, n
  <1>2. /\ Waiting(r, w) \in SUBSET (1 .. n) /\ Waiting(s, w) \in SUBSET (1 .. n + 1)
        /\ Waiting(r, w) = Waiting(s, w) \cap (1 .. n)
        /\ n + 1 \in Waiting(s, w) <=> Waits(g, w)
    BY <1>1 DEF Waiting
  <1>3. /\ Holding(r, w) \in SUBSET (1 .. n) /\ Holding(s, w) \in SUBSET (1 .. n + 1)
        /\ Holding(r, w) = Holding(s, w) \cap (1 .. n)
        /\ n + 1 \in Holding(s, w) <=> Holds(g, w)
    BY <1>1 DEF Holding
  <1>4. /\ Cardinality(Waiting(r, w)) \in Nat
        /\ Cardinality(Waiting(s, w)) = Cardinality(Waiting(r, w)) + (IF n + 1 \in Waiting(s, w) THEN 1 ELSE 0)
    BY <1>1, <1>2, CountOneMore
  <1>5. /\ Cardinality(Holding(r, w)) \in Nat /\ Cardinality(Holding(r, w)) <= n
        /\ Cardinality(Holding(s, w)) = Cardinality(Holding(r, w)) + (IF n + 1 \in Holding(s, w) THEN 1 ELSE 0)
    BY <1>1, <1>3, CountOneMore
  <1> QED  BY <1>2, <1>3, <1>4, <1>5 DEF s, n

LEMMA HoldingBound ==
    ASSUME NEW s \in Seq(FireRecord), NEW w
    PROVE  /\ Cardinality(Waiting(s, w)) \in Nat /\ Cardinality(Holding(s, w)) \in Nat
           /\ Cardinality(Holding(s, w)) <= Len(s)
  <1> DEFINE n == Len(s)
             A == Waiting(s, w)
             B == Holding(s, w)
  <1>1. n \in Nat /\ DOMAIN s = 1 .. n
    BY LenProperties
  <1>2. A \in SUBSET (1 .. n) /\ B \in SUBSET (1 .. n)
    BY <1>1 DEF Waiting, Holding
  <1> HIDE DEF n, A, B
  <1>6. (1 .. n) \subseteq 1 .. n + 1
    BY <1>1
  <1>3. A \in SUBSET (1 .. n + 1) /\ B \in SUBSET (1 .. n + 1) /\ A = A \cap (1 .. n) /\ B = B \cap (1 .. n)
    BY <1>2, <1>6, Zenon
  <1>4. Cardinality(A) \in Nat
    BY <1>1, <1>2, <1>3, CountOneMore
  <1>5. Cardinality(B) \in Nat /\ Cardinality(B) <= n
    BY <1>1, <1>2, <1>3, CountOneMore
  <1> QED  BY <1>4, <1>5 DEF n, A, B

\* Where a fire is once it has entered what it calls next.
Entered(f, g, list) ==
    /\ g \in FireRecord /\ g.temp = list /\ g.i = f.i + 1 /\ g.took = list
    /\ \/ g.i \in 1 .. Len(list) /\ g.calling = list[g.i] /\ g.called = SubSeq(list, 1, g.i)
       \/ g.i = Len(list) + 1 /\ g.calling = "nothing" /\ g.called = list

LEMMA OneFurther ==
    ASSUME NEW S, NEW s \in Seq(S), NEW i \in Nat, i + 1 <= Len(s)
    PROVE  Append(SubSeq(s, 1, i), s[i + 1]) = SubSeq(s, 1, i + 1)
  <1> DEFINE a == SubSeq(s, 1, i)
             b == SubSeq(s, 1, i + 1)
  <1>1. a \in Seq(S) /\ Len(a) = i /\ \A k \in 1 .. i : a[k] = s[k]
    OBVIOUS
  <1>2. b \in Seq(S) /\ Len(b) = i + 1 /\ \A k \in 1 .. i + 1 : b[k] = s[k]
    OBVIOUS
  <1>3. s[i + 1] \in S
    BY ElementOfSeq
  <1> HIDE DEF a, b
  <1>4. /\ Append(a, s[i + 1]) \in Seq(S) /\ Len(Append(a, s[i + 1])) = i + 1
        /\ \A k \in 1 .. i : Append(a, s[i + 1])[k] = a[k]
        /\ Append(a, s[i + 1])[i + 1] = s[i + 1]
    BY <1>1, <1>3, AppendProperties
  <1>5. \A k \in 1 .. i + 1 : k \in 1 .. i \/ k = i + 1
    OBVIOUS
  <1>6. \A k \in 1 .. i + 1 : Append(a, s[i + 1])[k] = b[k]
    BY <1>1, <1>2, <1>4, <1>5
  <1>7. Append(a, s[i + 1]) = b
    BY <1>2, <1>4, <1>6, SeqEqual
  <1> QED  BY <1>7 DEF a, b

LEMMA AllOfIt ==
    ASSUME NEW S, NEW s \in Seq(S)
    PROVE  SubSeq(s, 1, Len(s)) = s /\ SubSeq(s, 1, 0) = <<>>
  OBVIOUS

\* What is written into the record of a fire.
LEMMA FireTakes ==
    ASSUME NEW C, NEW Q, NEW f \in [calling : C, i : Nat, temp : Q, called : Q, took : Q],
           NEW q \in Q
    PROVE  LET g == [f EXCEPT !.temp = q]
           IN  /\ g \in [calling : C, i : Nat, temp : Q, called : Q, took : Q]
               /\ g.calling = f.calling /\ g.i = f.i /\ g.temp = q
               /\ g.called = f.called /\ g.took = f.took
  OBVIOUS

LEMMA FireCounts ==
    ASSUME NEW C, NEW Q, NEW f \in [calling : C, i : Nat, temp : Q, called : Q, took : Q],
           NEW j \in Nat
    PROVE  LET g == [f EXCEPT !.i = j]
           IN  /\ g \in [calling : C, i : Nat, temp : Q, called : Q, took : Q]
               /\ g.calling = f.calling /\ g.i = j /\ g.temp = f.temp
               /\ g.called = f.called /\ g.took = f.took
  OBVIOUS

LEMMA FireCalls ==
    ASSUME NEW C, NEW Q, NEW f \in [calling : C, i : Nat, temp : Q, called : Q, took : Q],
           NEW c \in C
    PROVE  LET g == [f EXCEPT !.calling = c]
           IN  /\ g \in [calling : C, i : Nat, temp : Q, called : Q, took : Q]
               /\ g.calling = c /\ g.i = f.i /\ g.temp = f.temp
               /\ g.called = f.called /\ g.took = f.took
  OBVIOUS

LEMMA FireNotes ==
    ASSUME NEW C, NEW Q, NEW f \in [calling : C, i : Nat, temp : Q, called : Q, took : Q],
           NEW d \in Q
    PROVE  LET g == [f EXCEPT !.called = d]
           IN  /\ g \in [calling : C, i : Nat, temp : Q, called : Q, took : Q]
               /\ g.calling = f.calling /\ g.i = f.i /\ g.temp = f.temp
               /\ g.called = d /\ g.took = f.took
  OBVIOUS

LEMMA FireTook ==
    ASSUME NEW C, NEW Q, NEW f \in [calling : C, i : Nat, temp : Q, called : Q, took : Q],
           NEW q \in Q
    PROVE  LET g == [f EXCEPT !.took = q]
           IN  /\ g \in [calling : C, i : Nat, temp : Q, called : Q, took : Q]
               /\ g.calling = f.calling /\ g.i = f.i /\ g.temp = f.temp
               /\ g.called = f.called /\ g.took = q
  OBVIOUS

LEMMA FireEnters ==
    ASSUME NEW f \in FireRecord, NEW list \in Seq(Callable), f.i <= Len(list),
           f.called = SubSeq(list, 1, f.i)
    PROVE  /\ Entered(f, [Fires!Enter(f, list) EXCEPT !.took = list], list)
           /\ f.took = list => Entered(f, Fires!Enter(f, list), list)
  <1> DEFINE e == [f EXCEPT !.temp = list, !.i = @ + 1]
             g == Fires!Enter(f, list)
             C == Callable \cup {Fires!Handler, "nothing"}
             Q == Seq(Callable)
             R == [calling : C, i : Nat, temp : Q, called : Q, took : Q]
  <1>1. f.i \in Nat /\ Len(list) \in Nat /\ f.called \in Seq(Callable) /\ f \in R /\ FireRecord = R
    BY DEF FireRecord
  <1>2. "nothing" \in C /\ (\A c \in Callable : c \in C) /\ list \in Q
    OBVIOUS
  <1> HIDE DEF C, Q
  <1>7. /\ e \in R /\ e.temp = list /\ e.i = f.i + 1 /\ e.called = f.called
        /\ e.took = f.took
    <2> DEFINE x == [f EXCEPT !.temp = list]
    <2>1. x \in R /\ x.temp = list /\ x.i = f.i /\ x.called = f.called /\ x.took = f.took
      BY <1>1, <1>2, FireTakes
    <2>2. e = [x EXCEPT !.i = f.i + 1]
      BY <2>1
    <2> HIDE DEF x, e
    <2>3. f.i + 1 \in Nat
      BY <1>1
    <2> QED  BY <2>1, <2>2, <2>3, FireCounts
  <1>3. /\ g \in R /\ g.temp = list /\ g.i = f.i + 1 /\ g.took = f.took
        /\ \/ g.i \in 1 .. Len(list) /\ g.calling = list[g.i] /\ g.called = SubSeq(list, 1, g.i)
           \/ g.i = Len(list) + 1 /\ g.calling = "nothing" /\ g.called = list
    <2>1. CASE f.i + 1 > Len(list)
      <3> HIDE DEF e
      <3>2. f.i = Len(list) /\ f.called = list
        BY <1>1, <2>1, AllOfIt
      <3>3. g = [e EXCEPT !.calling = "nothing"]
        BY <1>7, <2>1 DEF Fires!Enter, e
      <3> HIDE DEF g, R
      <3>4. /\ g \in R /\ g.temp = list /\ g.i = f.i + 1 /\ g.called = f.called
            /\ g.took = f.took /\ g.calling = "nothing"
        BY <1>2, <1>7, <3>3, FireCalls DEF R
      <3> QED  BY <1>1, <3>2, <3>4
    <2>2. CASE f.i + 1 <= Len(list)
      <3> DEFINE c == list[f.i + 1]
                 d == Append(f.called, c)
      <3>1. c \in Callable /\ d = SubSeq(list, 1, f.i + 1) /\ d \in Seq(Callable)
        <4>1. c \in Callable
          BY <1>1, <2>2, ElementOfSeq
        <4>2. d = SubSeq(list, 1, f.i + 1)
          BY <1>1, <2>2, OneFurther
        <4> QED  BY <1>1, <4>1, <4>2, AppendProperties
      <3> HIDE DEF e, d
      <3>3. ~(e.i > Len(e.temp))
        BY <1>1, <1>7, <2>2
      <3>4. g = [e EXCEPT !.calling = c, !.called = d]
        BY <1>7, <3>3 DEF Fires!Enter, Fires!Callee, e, d
      <3> HIDE DEF c, g, R
      <3>5. c \in C /\ d \in Q
        BY <1>2, <3>1 DEF Q
      <3>6. /\ g \in R /\ g.temp = list /\ g.i = f.i + 1 /\ g.called = d
            /\ g.took = f.took /\ g.calling = c
        <4> DEFINE x == [e EXCEPT !.calling = c]
        <4>1. /\ x \in R /\ x.temp = list /\ x.i = f.i + 1 /\ x.took = f.took
              /\ x.calling = c
          BY <1>7, <3>5, FireCalls DEF R
        <4>2. g = [x EXCEPT !.called = d]
          BY <3>4
        <4> HIDE DEF x
        <4> QED  BY <3>5, <4>1, <4>2, FireNotes DEF R
      <3>7. f.i + 1 \in 1 .. Len(list)
        BY <1>1, <2>2
      <3> QED  BY <3>1, <3>6, <3>7 DEF c
    <2> QED  BY <1>1, <2>1, <2>2
  <1> HIDE DEF g
  <1>4. f.took = list => Entered(f, g, list)
    BY <1>1, <1>3 DEF Entered
  <1> DEFINE h == [g EXCEPT !.took = list]
  <1>5. /\ h \in R /\ h.took = list
        /\ h.temp = g.temp /\ h.i = g.i /\ h.calling = g.calling /\ h.called = g.called
    BY <1>2, <1>3, FireTook
  <1> HIDE DEF h, R
  <1>6. Entered(f, h, list)
    BY <1>1, <1>3, <1>5 DEF Entered
  <1> QED  BY <1>4, <1>6 DEF g, h

\* A wrapper that a fire had yet to call is being called or has yet to be.
LEMMA EnteredWaits ==
    ASSUME NEW f \in FireRecord, NEW g, NEW list \in Seq(Callable), Single(list),
           Entered(f, g, list), NEW w \in Once
    PROVE  /\ (\E m \in DOMAIN list : m > f.i /\ list[m] = w) <=> (Waits(g, w) \/ g.calling = w)
           /\ ~(Waits(g, w) /\ g.calling = w)
           /\ InStep(g)
  <1>1. f.i \in Nat /\ DOMAIN list = 1 .. Len(list) /\ Len(list) \in Nat /\ w # "nothing"
    BY FiresAssumption DEF FireRecord, Fires!EventsAssumption
  <1>2. g.temp = list /\ g.i = f.i + 1
    BY DEF Entered
  <1>3. InStep(g)
    BY DEF Entered, InStep
  <1>4. CASE g.i \in 1 .. Len(list) /\ g.calling = list[g.i]
    BY <1>1, <1>2, <1>3, <1>4 DEF Waits, Single
  <1>5. CASE g.i = Len(list) + 1 /\ g.calling = "nothing"
    BY <1>1, <1>2, <1>3, <1>5 DEF Waits
  <1> QED  BY <1>4, <1>5 DEF Entered

LEMMA FiresStart ==
    ASSUME Fires!Init
    PROVE  FiresInv
  <1>1. /\ listeners = <<>> /\ eventsStack = <<>> /\ deepest = 0 /\ thrown = 0
        /\ eventsCalls = [w \in Once |-> 0]
    BY DEF Fires!Init
  <1>2. <<>> \in Seq(Callable) /\ <<>> \in Seq(FireRecord) /\ Len(<<>>) = 0 /\ DOMAIN <<>> = {}
    OBVIOUS
  <1>3. FireTypes
    BY <1>1, <1>2 DEF FireTypes
  <1>4. ASSUME NEW w \in Once PROVE CallBound(w)
    <2>1. Waiting(eventsStack, w) = {}
      BY <1>1, <1>2 DEF Waiting
    <2>2. Cardinality(Waiting(eventsStack, w)) = 0 /\ ~Listens(listeners, w)
      BY <1>1, <1>2, <2>1, FS_EmptySet DEF Listens
    <2> QED  BY <1>1, <2>2 DEF CallBound
  <1> QED  BY <1>1, <1>2, <1>3, <1>4 DEF FiresInv, Single

LEMMA FiresStay ==
    ASSUME FiresInv, UNCHANGED eventsVars
    PROVE  FiresInv'
  BY DEF eventsVars, FiresInv, FireTypes, CallBound, Single, Gone, Listens

\* The list changes between calls.
LEMMA ListChanges ==
    ASSUME FiresInv, UNCHANGED <<eventsStack, deepest, thrown, eventsCalls>>,
           listeners' \in Seq(Callable), Single(listeners'),
           \A w \in Once : Listens(listeners', w) => \/ Listens(listeners, w)
              \/ (eventsCalls[w] = 0 /\ \A k \in DOMAIN eventsStack : ~Holds(eventsStack[k], w))
    PROVE  FiresInv'
  <1>1. FireTypes'
    BY DEF FiresInv, FireTypes
  <1>2. ASSUME NEW k \in DOMAIN eventsStack
        PROVE  Gone(eventsStack[k], listeners')
    <2>1. Gone(eventsStack[k], listeners)
      BY DEF FiresInv
    <2>2. \A m \in DOMAIN eventsStack[k].temp : Holds(eventsStack[k], eventsStack[k].temp[m])
      BY DEF Holds
    <2> QED  BY <2>1, <2>2 DEF Gone
  <1>3. ASSUME NEW w \in Once PROVE CallBound(w)'
    <2> DEFINE c == eventsCalls[w]
               a == Cardinality(Waiting(eventsStack, w))
               h == Cardinality(Holding(eventsStack, w))
               d == deepest
               p == deepest * thrown
               l == Listens(listeners, w)
               m == Listens(listeners', w)
    <2>1. c \in Nat /\ d \in Nat /\ thrown \in Nat /\ Len(eventsStack) <= d /\ eventsStack \in Seq(FireRecord)
      BY DEF FiresInv, FireTypes
    <2>2. p \in Nat
      <3>1. \A x, y \in Nat : x * y \in Nat
        OBVIOUS
      <3> QED  BY <2>1, <3>1
    <2>3. a \in Nat /\ h \in Nat /\ h <= d
      <3>1. a \in Nat /\ h \in Nat /\ h <= Len(eventsStack) /\ Len(eventsStack) \in Nat
        BY <2>1, HoldingBound, LenProperties
      <3> HIDE DEF a, h, d
      <3> QED  BY <2>1, <3>1
    <2>4. c + a <= p + (IF l THEN h ELSE d)
      BY DEF FiresInv, CallBound
    <2>5. m => l \/ (c = 0 /\ a = 0)
      <3>1. ASSUME \A k \in DOMAIN eventsStack : ~Holds(eventsStack[k], w)
            PROVE  a = 0
        <4>1. Waiting(eventsStack, w) = {}
          BY <3>1 DEF Waiting, Waits, Holds
        <4> QED  BY <4>1, FS_EmptySet
      <3> QED  BY <3>1
    <2>6. CallBound(w)' <=> c + a <= p + (IF m THEN h ELSE d)
      BY DEF CallBound
    <2> HIDE DEF c, a, h, d, p, l, m
    <2> QED  BY <2>1, <2>2, <2>3, <2>4, <2>5, <2>6
  <1> QED  BY <1>1, <1>2, <1>3 DEF FiresInv, Single, Gone, Listens

\* All the fires under way end.
LEMMA FiresUnwind ==
    ASSUME FiresInv, Fires!Unwind
    PROVE  FiresInv'
  <1>1. /\ eventsStack' = <<>> /\ thrown' = thrown + 1
        /\ UNCHANGED <<listeners, deepest, eventsCalls>>
    BY DEF Fires!Unwind
  <1>2. <<>> \in Seq(FireRecord) /\ Len(<<>>) = 0 /\ DOMAIN <<>> = {}
    OBVIOUS
  <1>3. FireTypes'
    BY <1>1, <1>2 DEF FiresInv, FireTypes
  <1>4. ASSUME NEW w \in Once PROVE CallBound(w)'
    <2> DEFINE c == eventsCalls[w]
               a == Cardinality(Waiting(eventsStack, w))
               h == Cardinality(Holding(eventsStack, w))
               b == Cardinality(Waiting(<<>>, w))
               g == Cardinality(Holding(<<>>, w))
               l == Listens(listeners, w)
    <2>1. c \in Nat /\ deepest \in Nat /\ thrown \in Nat /\ Len(eventsStack) <= deepest
          /\ eventsStack \in Seq(FireRecord)
      BY DEF FiresInv, FireTypes
    <2>2. a \in Nat /\ h \in Nat /\ h <= deepest
      <3>1. a \in Nat /\ h \in Nat /\ h <= Len(eventsStack) /\ Len(eventsStack) \in Nat
        BY <2>1, HoldingBound, LenProperties
      <3> HIDE DEF a, h
      <3> QED  BY <2>1, <3>1
    <2>3. c + a <= deepest * thrown + (IF l THEN h ELSE deepest)
      BY DEF FiresInv, CallBound
    <2>4. b = 0 /\ g = 0
      BY <1>2, FS_EmptySet DEF Waiting, Holding
    <2>5. CallBound(w)' <=> c + b <= deepest * (thrown + 1) + (IF l THEN g ELSE deepest)
      BY <1>1 DEF CallBound
    <2>6. deepest * (thrown + 1) = deepest * thrown + deepest /\ deepest * thrown \in Nat
      <3>1. \A x, y \in Nat : x * (y + 1) = x * y + x /\ x * y \in Nat
        OBVIOUS
      <3> QED  BY <2>1, <3>1
    <2> HIDE DEF c, a, h, b, g, l
    <2> QED  BY <2>1, <2>2, <2>3, <2>4, <2>5, <2>6
  <1> QED  BY <1>1, <1>2, <1>3, <1>4 DEF FiresInv, Single

\* The fires that are under way but for the innermost, of which only the list can change.
LEMMA FiresBelow ==
    ASSUME FiresInv, NEW r \in Seq(FireRecord), NEW list,
           \A k \in DOMAIN r : k \in DOMAIN eventsStack /\ r[k] = eventsStack[k],
           \A w \in Once : Listens(list, w) => Listens(listeners, w)
    PROVE  \A k \in DOMAIN r : InStep(r[k]) /\ Single(r[k].temp) /\ Gone(r[k], list)
  BY DEF FiresInv, Gone

LEMMA OnTop ==
    ASSUME NEW r \in Seq(FireRecord), NEW g \in FireRecord, NEW list,
           \A k \in DOMAIN r : InStep(r[k]) /\ Single(r[k].temp) /\ Gone(r[k], list),
           InStep(g), Single(g.temp), Gone(g, list)
    PROVE  LET s == Append(r, g)
           IN  /\ s \in Seq(FireRecord) /\ Len(s) = Len(r) + 1
               /\ \A k \in DOMAIN s : InStep(s[k]) /\ Single(s[k].temp) /\ Gone(s[k], list)
  <1> DEFINE s == Append(r, g)
             n == Len(r)
  <1>1. /\ n \in Nat /\ DOMAIN r = 1 .. n /\ DOMAIN s = 1 .. n + 1
        /\ s[n + 1] = g /\ (\A k \in 1 .. n : s[k] = r[k]) /\ s \in Seq(FireRecord) /\ Len(s) = n + 1
    BY AppendProperties, LenProperties
  <1> HIDE DEF s, n
  <1>2. \A k \in 1 .. n + 1 : k \in 1 .. n \/ k = n + 1
    BY <1>1
  <1>3. \A k \in DOMAIN s : InStep(s[k]) /\ Single(s[k].temp) /\ Gone(s[k], list)
    BY <1>1, <1>2, Zenon
  <1> QED  BY <1>1, <1>3 DEF s, n

LEMMA FiresReturn ==
    ASSUME FiresInv, Fires!FireReturns
    PROVE  FiresInv'
  <1> DEFINE r == Fires!Front(eventsStack)
             t == Fires!Last(eventsStack)
             d == deepest
             p == deepest * thrown
  <1>1. /\ eventsStack # <<>> /\ t.calling = "nothing" /\ eventsStack' = r
        /\ UNCHANGED <<listeners, deepest, thrown, eventsCalls>>
    BY DEF Fires!FireReturns, Fires!Top
  <1>2. eventsStack \in Seq(FireRecord) /\ d \in Nat /\ Len(eventsStack) <= d
    BY DEF FiresInv, FireTypes
  <1>3. /\ r \in Seq(FireRecord) /\ t \in FireRecord /\ eventsStack = Append(r, t)
        /\ Len(eventsStack) \in Nat /\ Len(eventsStack) > 0 /\ Len(r) = Len(eventsStack) - 1
        /\ DOMAIN eventsStack = 1 .. Len(eventsStack) /\ DOMAIN r = 1 .. Len(r)
        /\ \A k \in 1 .. Len(eventsStack) - 1 : r[k] = eventsStack[k]
    BY <1>1, <1>2, TopOfStack, LenProperties
  <1> HIDE DEF r, t, d, p
  <1>4. \A k \in DOMAIN r : k \in DOMAIN eventsStack /\ r[k] = eventsStack[k]
    BY <1>3
  <1>5. \A k \in DOMAIN r : InStep(r[k]) /\ Single(r[k].temp) /\ Gone(r[k], listeners)
    BY <1>3, <1>4, FiresBelow
  <1>6. FireTypes'
    <2>1. Len(r) <= d
      BY <1>2, <1>3
    <2> QED  BY <1>1, <1>3, <2>1 DEF FiresInv, FireTypes, d
  <1>7. t = eventsStack[Len(eventsStack)] /\ Len(eventsStack) \in DOMAIN eventsStack
    BY <1>3 DEF t, Fires!Last
  <1>8. t.temp \in Seq(Callable) /\ t.i = Len(t.temp) + 1 /\ Gone(t, listeners)
    <2>1. InStep(t) /\ Gone(t, listeners)
      BY <1>7 DEF FiresInv
    <2>2. t.calling \notin DOMAIN t.temp \/ TRUE
      OBVIOUS
    <2>3. \A m \in 1 .. Len(t.temp) : t.temp[m] \in Callable
      BY <1>3, ElementOfSeq DEF FireRecord
    <2>4. Fires!Handler # "nothing" /\ "nothing" \notin Callable
      BY FiresAssumption DEF Fires!EventsAssumption, Callable, Fires!Handler
    <2>5. t.temp \in Seq(Callable)
      BY <1>3 DEF FireRecord
    <2> QED  BY <1>1, <2>1, <2>3, <2>4, <2>5 DEF InStep
  <1>9. ASSUME NEW w \in Once PROVE CallBound(w)'
    <2> DEFINE c == eventsCalls[w]
               a == Cardinality(Waiting(eventsStack, w))
               h == Cardinality(Holding(eventsStack, w))
               b == Cardinality(Waiting(r, w))
               g == Cardinality(Holding(r, w))
               l == Listens(listeners, w)
    <2>1. ~Waits(t, w)
      <3>1. \A m \in DOMAIN t.temp : ~(m > t.i)
        BY <1>8
      <3> QED  BY <3>1 DEF Waits
    <2>2. l => ~Holds(t, w)
      <3>1. \A m \in DOMAIN t.temp : m <= t.i
        BY <1>8
      <3>2. w # "nothing"
        BY FiresAssumption DEF Fires!EventsAssumption
      <3> QED  BY <1>1, <1>8, <3>1, <3>2 DEF Holds, Gone
    <2>3. /\ b \in Nat /\ g \in Nat /\ a = b + (IF Waits(t, w) THEN 1 ELSE 0)
          /\ h = g + (IF Holds(t, w) THEN 1 ELSE 0)
      BY <1>3, OneMoreFire
    <2>4. c + a <= p + (IF l THEN h ELSE d)
      BY DEF FiresInv, CallBound, d, p
    <2>5. CallBound(w)' <=> c + b <= p + (IF l THEN g ELSE d)
      BY <1>1 DEF CallBound, d, p
    <2> HIDE DEF c, a, h, b, g, l
    <2>6. a = b /\ (l => h = g)
      BY <2>1, <2>2, <2>3
    <2> QED  BY <2>4, <2>5, <2>6
  <1> QED  BY <1>1, <1>5, <1>6, <1>9 DEF FiresInv

\* A fire begins.
LEMMA FiresBegin ==
    ASSUME FiresInv, Fires!Fire
    PROVE  FiresInv'
  <1> DEFINE f == [calling |-> Fires!Handler, i |-> 0, temp |-> <<>>, called |-> <<>>, took |-> <<>>]
             e == [Fires!Enter(f, listeners) EXCEPT !.took = listeners]
             g == IF handler THEN f ELSE e
             n == Len(eventsStack)
  <1>1. /\ eventsStack' = Append(eventsStack, g) /\ Fires!Counted(g)
        /\ deepest' = IF deepest > n THEN deepest ELSE n + 1
        /\ UNCHANGED <<listeners, thrown>>
    BY DEF Fires!Fire
  <1>2. /\ eventsStack \in Seq(FireRecord) /\ deepest \in Nat /\ n <= deepest /\ n \in Nat
        /\ listeners \in Seq(Callable) /\ Single(listeners) /\ thrown \in Nat
        /\ eventsCalls \in [Once -> Nat]
    BY LenProperties DEF FiresInv, FireTypes
  <1>3. <<>> \in Seq(Callable) /\ Len(<<>>) = 0 /\ DOMAIN <<>> = {} /\ Len(listeners) \in Nat
    BY <1>2
  <1>4. f \in FireRecord /\ InStep(f) /\ Single(f.temp) /\ Gone(f, listeners)
        /\ f.calling = Fires!Handler /\ f.i = 0 /\ f.called = <<>> /\ f.temp = <<>>
    BY <1>3 DEF FireRecord, InStep, Single, Gone
  <1>5. Entered(f, e, listeners)
    <2> HIDE DEF f
    <2>1. f.i <= Len(listeners) /\ f.called = SubSeq(listeners, 1, f.i)
      BY <1>2, <1>3, <1>4, AllOfIt
    <2> QED  BY <1>2, <1>4, <2>1, FireEnters
  <1> HIDE DEF f, e, n
  <1>6. Fires!Handler \notin Once /\ "nothing" \notin Once
    BY FiresAssumption DEF Fires!EventsAssumption
  <1>7. /\ g \in FireRecord /\ InStep(g) /\ Single(g.temp) /\ Gone(g, listeners)
        /\ \A w \in Once : Waits(g, w) \/ g.calling = w => Listens(listeners, w)
        /\ \A w \in Once : Waits(g, w) \/ g.calling = w => Holds(g, w)
        /\ \A w \in Once : ~(Waits(g, w) /\ g.calling = w)
        /\ g.calling \in Callable \cup {Fires!Handler, "nothing"}
    <2>1. CASE handler
      <3>1. g = f
        BY <2>1
      <3>2. \A w \in Once : ~Waits(f, w) /\ f.calling # w
        BY <1>3, <1>4, <1>6 DEF Waits
      <3> QED  BY <1>4, <3>1, <3>2 DEF FireRecord
    <2>2. CASE ~handler
      <3>1. g = e
        BY <2>2
      <3>2. /\ e \in FireRecord /\ e.temp = listeners /\ e.i = 1
            /\ e.calling = "nothing" \/ e.calling = listeners[1]
        BY <1>4, <1>5 DEF Entered
      <3>3. \A w \in Once : /\ (\E m \in DOMAIN listeners : m > f.i /\ listeners[m] = w) <=> (Waits(e, w) \/ e.calling = w)
                            /\ ~(Waits(e, w) /\ e.calling = w)
        BY <1>2, <1>4, <1>5, EnteredWaits
      <3>4. InStep(e)
        BY <1>5 DEF Entered, InStep
      <3>5. Gone(e, listeners)
        <4>1. \A m \in DOMAIN listeners : m <= 1 => m = 1
          BY <1>2
        <4>2. e.calling = listeners[1] \/ DOMAIN listeners = {}
          BY <1>2, <1>4, <1>5 DEF Entered
        <4> QED  BY <3>2, <4>1, <4>2 DEF Gone
      <3> QED  BY <1>2, <3>1, <3>2, <3>3, <3>4, <3>5 DEF Listens, Holds, FireRecord
    <2> QED  BY <2>1, <2>2
  <1> HIDE DEF g
  <1>8. \A k \in DOMAIN eventsStack :
           InStep(eventsStack[k]) /\ Single(eventsStack[k].temp) /\ Gone(eventsStack[k], listeners)
    BY DEF FiresInv
  <1>9. /\ Append(eventsStack, g) \in Seq(FireRecord) /\ Len(Append(eventsStack, g)) = n + 1
        /\ \A k \in DOMAIN Append(eventsStack, g) :
              /\ InStep(Append(eventsStack, g)[k]) /\ Single(Append(eventsStack, g)[k].temp)
              /\ Gone(Append(eventsStack, g)[k], listeners)
    BY <1>2, <1>7, <1>8, OnTop DEF n
  <1>10. /\ eventsCalls' \in [Once -> Nat]
         /\ \A w \in Once : eventsCalls'[w] = eventsCalls[w] + (IF g.calling = w THEN 1 ELSE 0)
    BY <1>1, <1>2 DEF Fires!Counted
  <1>11. deepest' \in Nat /\ (deepest' = deepest \/ deepest' = deepest + 1) /\ n + 1 <= deepest'
    BY <1>1, <1>2
  <1>12. FireTypes'
    BY <1>1, <1>2, <1>9, <1>10, <1>11 DEF FireTypes
  <1>13. ASSUME NEW w \in Once PROVE CallBound(w)'
    <2> DEFINE c == eventsCalls[w]
               a == Cardinality(Waiting(eventsStack, w))
               h == Cardinality(Holding(eventsStack, w))
               b == Cardinality(Waiting(Append(eventsStack, g), w))
               j == Cardinality(Holding(Append(eventsStack, g), w))
               l == Listens(listeners, w)
               d == deepest
               p == deepest * thrown
               q == deepest' * thrown
               x == IF g.calling = w THEN 1 ELSE 0
               y == IF Waits(g, w) THEN 1 ELSE 0
               z == IF Holds(g, w) THEN 1 ELSE 0
    <2>1. a \in Nat /\ h \in Nat /\ b = a + y /\ j = h + z
      BY <1>2, <1>7, OneMoreFire
    <2>2. c \in Nat /\ c + a <= p + (IF l THEN h ELSE d)
      BY <1>2 DEF FiresInv, CallBound
    <2>3. CallBound(w)' <=> (c + x) + b <= q + (IF l THEN j ELSE deepest')
      BY <1>1, <1>10 DEF CallBound
    <2>4. p \in Nat /\ q \in Nat /\ p <= q /\ d <= deepest' /\ d \in Nat
      <3>1. \A u, v \in Nat : u * v \in Nat /\ (u + 1) * v = u * v + v
        OBVIOUS
      <3>2. CASE deepest' = deepest
        BY <1>2, <3>1, <3>2
      <3>3. CASE deepest' = deepest + 1
        <4>1. p \in Nat /\ (deepest + 1) * thrown = p + thrown
          BY <1>2, <3>1
        <4> QED  BY <1>2, <3>3, <4>1
      <3> QED  BY <1>11, <3>2, <3>3
    <2>5. /\ x \in {0, 1} /\ y \in {0, 1} /\ z \in {0, 1}
          /\ x + y <= z
          /\ ~l => x + y = 0
      BY <1>7
    <2> HIDE DEF c, a, h, b, j, l, d, p, q, x, y, z
    <2>6. CASE l
      <3>1. (c + x) + b <= q + j
        BY <2>1, <2>2, <2>4, <2>5, <2>6
      <3> QED  BY <2>3, <2>6, <3>1
    <2>7. CASE ~l
      <3>2. x = 0 /\ y = 0 /\ c + a <= p + d /\ c \in Nat
        BY <2>2, <2>5, <2>7
      <3>3. c + x = c /\ b = a
        BY <2>1, <3>2
      <3>5. a \in Nat /\ deepest' \in Nat
        BY <1>11, <2>1
      <3>6. \A u1, u2, u3, u4, u5, u6 \in Nat :
               u1 + u2 <= u3 + u4 /\ u3 <= u5 /\ u4 <= u6 => u1 + u2 <= u5 + u6
        OBVIOUS
      <3>4. c + a <= q + deepest'
        BY <2>4, <3>2, <3>5, <3>6, Zenon
      <3>1. (c + x) + b <= q + deepest'
        BY <3>3, <3>4
      <3> QED  BY <2>3, <2>7, <3>1
    <2> QED  BY <2>6, <2>7
  <1> QED  BY <1>1, <1>2, <1>9, <1>12, <1>13 DEF FiresInv

\* What a fire has called returns.
LEMMA FiresGoOn ==
    ASSUME FiresInv, Fires!CallReturns
    PROVE  FiresInv'
  <1> DEFINE r == Fires!Front(eventsStack)
             t == Fires!Last(eventsStack)
             g == IF t.calling = Fires!Handler
                  THEN [Fires!Enter(t, listeners) EXCEPT !.took = listeners]
                  ELSE Fires!Enter(t, t.temp)
             list == IF t.calling = Fires!Handler THEN listeners ELSE t.temp
             n == Len(eventsStack)
  <1>1. /\ eventsStack # <<>> /\ t.calling # "nothing" /\ eventsStack' = Append(r, g)
        /\ Fires!Counted(g) /\ listeners' = Fires!AfterCall(t.calling)
        /\ UNCHANGED <<deepest, thrown>>
    BY DEF Fires!CallReturns, Fires!Top
  <1>2. /\ eventsStack \in Seq(FireRecord) /\ deepest \in Nat /\ n <= deepest
        /\ listeners \in Seq(Callable) /\ Single(listeners) /\ thrown \in Nat
        /\ eventsCalls \in [Once -> Nat]
    BY DEF FiresInv, FireTypes
  <1>3. /\ r \in Seq(FireRecord) /\ t \in FireRecord /\ eventsStack = Append(r, t)
        /\ n \in Nat /\ n > 0 /\ Len(r) = n - 1
        /\ DOMAIN eventsStack = 1 .. n /\ DOMAIN r = 1 .. Len(r)
        /\ \A k \in 1 .. n - 1 : r[k] = eventsStack[k]
    BY <1>1, <1>2, TopOfStack, LenProperties
  <1>4. t = eventsStack[n] /\ n \in DOMAIN eventsStack
    BY <1>3 DEF Fires!Last
  <1> HIDE DEF r, t, n
  <1>5. InStep(t) /\ Single(t.temp) /\ Gone(t, listeners)
    BY <1>4 DEF FiresInv
  <1>6. t.temp \in Seq(Callable) /\ Len(t.temp) \in Nat /\ t.i \in Nat
    BY <1>3, LenProperties DEF FireRecord
  <1>7. /\ Fires!Handler \notin Callable /\ "nothing" \notin Callable /\ Once \subseteq Callable
        /\ Fires!Handler # "nothing"
    BY FiresAssumption DEF Fires!EventsAssumption, Callable, Fires!Handler
  <1>8. \/ t.calling = Fires!Handler /\ t.i = 0 /\ t.temp = <<>> /\ t.called = <<>> /\ t.took = <<>>
        \/ /\ t.calling # Fires!Handler /\ t.took = t.temp /\ t.i \in 1 .. Len(t.temp)
           /\ t.calling = t.temp[t.i] /\ t.called = SubSeq(t.temp, 1, t.i)
    <2>1. ASSUME t.i \in 1 .. Len(t.temp) PROVE t.temp[t.i] \in Callable
      BY <1>6, <2>1, ElementOfSeq
    <2> QED  BY <1>1, <1>5, <1>7, <2>1 DEF InStep
  <1>9. /\ listeners' \in Seq(Callable) /\ Single(listeners')
        /\ \A w : Listens(listeners', w) => Listens(listeners, w)
        /\ t.calling \in Once => ~Listens(listeners', t.calling)
        /\ t.calling = Fires!Handler => listeners' = listeners
    <2>1. CASE t.calling \in Once
      <3>1. listeners' = Fires!RemoveFirst(listeners, t.calling) /\ t.calling # Fires!Handler
        BY <1>1, <1>7, <2>1 DEF Fires!AfterCall
      <3> QED  BY <1>2, <2>1, <3>1, RemovedFirst
    <2>2. CASE t.calling \notin Once
      <3>1. listeners' = listeners
        BY <1>1, <2>2 DEF Fires!AfterCall
      <3> QED  BY <1>2, <2>2, <3>1
    <2> QED  BY <2>1, <2>2
  <1>10. list \in Seq(Callable) /\ Single(list) /\ Len(list) \in Nat /\ DOMAIN list = 1 .. Len(list)
    BY <1>2, <1>5, <1>6, LenProperties
  <1>11. Entered(t, g, list)
    <2>1. CASE t.calling = Fires!Handler
      <3>2. t.i = 0 /\ t.called = <<>>
        BY <1>8, <2>1
      <3>3. Len(listeners) \in Nat /\ SubSeq(listeners, 1, 0) = <<>>
        BY <1>2, AllOfIt, LenProperties
      <3>1. t.i <= Len(listeners) /\ t.called = SubSeq(listeners, 1, t.i)
        BY <3>2, <3>3
      <3> QED  BY <1>2, <1>3, <2>1, <3>1, FireEnters
    <2>2. CASE t.calling # Fires!Handler
      <3>1. t.i <= Len(t.temp) /\ t.called = SubSeq(t.temp, 1, t.i) /\ t.took = t.temp
        BY <1>6, <1>8, <2>2
      <3> QED  BY <1>3, <1>6, <2>2, <3>1, FireEnters
    <2> QED  BY <2>1, <2>2
  <1>12. /\ t.calling = Fires!Handler => list = listeners
         /\ t.calling # Fires!Handler => list = t.temp
    OBVIOUS
  <1> HIDE DEF g, list
  <1>13. g \in FireRecord /\ g.temp = list /\ g.i = t.i + 1 /\ InStep(g)
    BY <1>11 DEF Entered, InStep
  <1>14. Gone(g, listeners')
    <2> SUFFICES ASSUME NEW m \in DOMAIN list, m <= t.i + 1, list[m] \in Once, list[m] # g.calling
                 PROVE  ~Listens(listeners', list[m])
      BY <1>13 DEF Gone
    <2>1. m <= t.i /\ m \in Nat /\ m >= 1
      <3>1. g.calling = list[g.i] \/ g.i = Len(list) + 1
        BY <1>11 DEF Entered
      <3> QED  BY <1>6, <1>10, <1>13, <3>1
    <2>2. t.calling # Fires!Handler /\ list = t.temp
      BY <1>6, <1>8, <1>12, <2>1
    <2>3. list[m] # t.calling => ~Listens(listeners, list[m])
      BY <1>5, <2>1, <2>2 DEF Gone
    <2> QED  BY <1>9, <2>3
  <1>15. \A k \in DOMAIN r : InStep(r[k]) /\ Single(r[k].temp) /\ Gone(r[k], listeners')
    <2>1. \A k \in DOMAIN r : k \in DOMAIN eventsStack /\ r[k] = eventsStack[k]
      BY <1>3
    <2> QED  BY <1>3, <1>9, <2>1, FiresBelow
  <1>16. LET s == Append(r, g)
         IN  /\ s \in Seq(FireRecord) /\ Len(s) = Len(r) + 1
             /\ \A k \in DOMAIN s : InStep(s[k]) /\ Single(s[k].temp) /\ Gone(s[k], listeners')
    <2>1. Single(g.temp)
      BY <1>10, <1>13
    <2> QED  BY <1>3, <1>13, <1>14, <1>15, <2>1, OnTop
  <1>17. /\ eventsCalls' \in [Once -> Nat]
         /\ \A w \in Once : eventsCalls'[w] = eventsCalls[w] + (IF g.calling = w THEN 1 ELSE 0)
    BY <1>1, <1>2 DEF Fires!Counted
  <1>18. FireTypes'
    <2>1. Len(Append(r, g)) <= deepest
      BY <1>2, <1>3, <1>16
    <2> QED  BY <1>1, <1>2, <1>9, <1>16, <1>17, <2>1 DEF FireTypes
  <1>19. ASSUME NEW w \in Once PROVE CallBound(w)'
    <2> DEFINE c == eventsCalls[w]
               k == Cardinality(Waiting(r, w))
               v == Cardinality(Holding(r, w))
               l == Listens(listeners, w)
               m == Listens(listeners', w)
               d == deepest
               p == deepest * thrown
               x == IF g.calling = w THEN 1 ELSE 0
               y == IF Waits(g, w) THEN 1 ELSE 0
               z == IF Holds(g, w) THEN 1 ELSE 0
               i == IF Waits(t, w) THEN 1 ELSE 0
               j == IF Holds(t, w) THEN 1 ELSE 0
    <2>1. /\ k \in Nat /\ v \in Nat /\ v <= Len(r)
          /\ Cardinality(Waiting(Append(r, g), w)) = k + y /\ Cardinality(Holding(Append(r, g), w)) = v + z
      BY <1>3, <1>13, OneMoreFire
    <2>2. Cardinality(Waiting(eventsStack, w)) = k + i /\ Cardinality(Holding(eventsStack, w)) = v + j
      BY <1>3, OneMoreFire
    <2>3. c + (k + i) <= p + (IF l THEN v + j ELSE d)
      BY <2>2 DEF FiresInv, CallBound
    <2>4. CallBound(w)' <=> (c + x) + (k + y) <= p + (IF m THEN v + z ELSE d)
      BY <1>1, <1>17, <2>1 DEF CallBound
    <2>5. c \in Nat /\ p \in Nat /\ d \in Nat /\ (m => l)
      <3>1. \A o, q \in Nat : o * q \in Nat
        OBVIOUS
      <3> QED  BY <1>2, <1>9, <3>1
    <2>6. /\ (\E o \in DOMAIN list : o > t.i /\ list[o] = w) <=> (Waits(g, w) \/ g.calling = w)
          /\ ~(Waits(g, w) /\ g.calling = w)
      BY <1>3, <1>10, <1>11, EnteredWaits
    <2>7. /\ x \in {0, 1} /\ y \in {0, 1} /\ z \in {0, 1} /\ i \in {0, 1} /\ j \in {0, 1}
          /\ x + y + j <= z + i
          /\ ~m => x + y <= i
      <3>1. CASE t.calling = Fires!Handler
        <4>1. list = listeners /\ (m <=> l) /\ i = 0 /\ j = 0
          BY <1>8, <1>9, <1>12, <3>1 DEF Waits, Holds
        <4>2. z = IF l THEN 1 ELSE 0
          BY <1>13, <4>1 DEF Holds, Listens
        <4>3. Waits(g, w) \/ g.calling = w => l
          BY <2>6, <4>1 DEF Listens
        <4> QED  BY <2>6, <4>1, <4>2, <4>3
      <3>2. CASE t.calling # Fires!Handler
        <4>1. list = t.temp /\ g.temp = t.temp
          BY <1>12, <1>13, <3>2
        <4>2. z = j /\ (Waits(t, w) <=> (Waits(g, w) \/ g.calling = w))
          BY <2>6, <4>1 DEF Waits, Holds
        <4> QED  BY <2>6, <4>2
      <3> QED  BY <3>1, <3>2
    <2>8. v + j <= d
      BY <1>2, <1>3, <2>1, <2>7
    <2> HIDE DEF c, k, v, l, m, d, p, x, y, z, i, j
    <2>9. CASE m
      <3>1. c + (k + i) <= p + (v + j)
        BY <2>3, <2>5, <2>9
      <3>2. (c + x) + (k + y) <= p + (v + z)
        BY <2>1, <2>5, <2>7, <3>1
      <3> QED  BY <2>4, <2>9, <3>2
    <2>10. CASE ~m
      <3>1. CASE l
        <4>1. c + (k + i) <= p + (v + j)
          BY <2>3, <3>1
        <4>2. x + y <= i
          BY <2>7, <2>10
        <4>3. (c + x) + (k + y) <= p + d
          BY <2>1, <2>5, <2>7, <2>8, <4>1, <4>2
        <4> QED  BY <2>4, <2>10, <4>3
      <3>2. CASE ~l
        <4>1. c + (k + i) <= p + d
          BY <2>3, <3>2
        <4>2. x + y <= i
          BY <2>7, <2>10
        <4>3. (c + x) + (k + y) <= p + d
          BY <2>1, <2>5, <2>7, <4>1, <4>2
        <4> QED  BY <2>4, <2>10, <4>3
      <3> QED  BY <3>1, <3>2
    <2> QED  BY <2>9, <2>10
  <1> QED  BY <1>1, <1>9, <1>16, <1>18, <1>19 DEF FiresInv

LEMMA FiresStep ==
    ASSUME FiresInv, Fires!Next
    PROVE  FiresInv'
  <1>1. listeners \in Seq(Callable) /\ Single(listeners) /\ Plain \subseteq Callable /\ Once \subseteq Callable
        /\ Plain \cap Once = {}
    BY FiresAssumption DEF FiresInv, FireTypes, Callable, Fires!EventsAssumption
  <1>2. ASSUME NEW f \in Callable, listeners' = Append(listeners, f),
               f \in Once => ~Listens(listeners, f)
        PROVE  /\ listeners' \in Seq(Callable) /\ Single(listeners')
               /\ \A w \in Once : Listens(listeners', w) => Listens(listeners, w) \/ w = f
    <2> DEFINE t == Append(listeners, f)
               n == Len(listeners)
    <2>1. /\ n \in Nat /\ DOMAIN listeners = 1 .. n /\ DOMAIN t = 1 .. n + 1
          /\ t[n + 1] = f /\ (\A k \in 1 .. n : t[k] = listeners[k]) /\ t \in Seq(Callable)
      BY <1>1, AppendProperties, LenProperties
    <2> HIDE DEF t, n
    <2>2. \A k \in DOMAIN t : (k \in DOMAIN listeners /\ t[k] = listeners[k]) \/ (k = n + 1 /\ t[k] = f)
      BY <2>1
    <2>3. \A w : Listens(t, w) => Listens(listeners, w) \/ w = f
      BY <2>2 DEF Listens
    <2>4. Single(t)
      <3> SUFFICES ASSUME NEW a \in DOMAIN t, NEW b \in DOMAIN t, t[a] = t[b], t[a] \in Once PROVE a = b
        BY DEF Single
      <3>1. CASE a \in DOMAIN listeners /\ b \in DOMAIN listeners /\ t[a] = listeners[a] /\ t[b] = listeners[b]
        BY <1>1, <3>1 DEF Single
      <3>2. CASE t[a] # f
        BY <2>2, <3>1, <3>2
      <3>3. CASE t[a] = f
        BY <1>2, <2>2, <3>3 DEF Listens
      <3> QED  BY <3>2, <3>3
    <2> QED  BY <1>2, <2>1, <2>3, <2>4 DEF t
  <1>3. ASSUME NEW f \in Plain, Fires!On(f) PROVE FiresInv'
    <2>1. listeners' = Append(listeners, f) /\ UNCHANGED <<eventsStack, deepest, thrown, eventsCalls>>
      BY <1>3 DEF Fires!On, Fires!Add, Fires!Program
    <2>2. f \in Callable /\ f \notin Once
      BY <1>1
    <2> QED  BY <1>2, <2>1, <2>2, ListChanges
  <1>4. ASSUME NEW f \in Plain, Fires!Off(f) PROVE FiresInv'
    <2>1. listeners' = Fires!RemoveFirst(listeners, f)
          /\ UNCHANGED <<eventsStack, deepest, thrown, eventsCalls>>
      BY <1>4 DEF Fires!Off, Fires!Program
    <2> QED  BY <1>1, <2>1, RemovedFirst, ListChanges
  <1>5. ASSUME NEW w \in Once, Fires!One(w) PROVE FiresInv'
    <2>1. /\ listeners' = Append(listeners, w) /\ UNCHANGED <<eventsStack, deepest, thrown, eventsCalls>>
          /\ eventsCalls[w] = 0 /\ w \notin Fires!Range(listeners)
          /\ \A k \in DOMAIN eventsStack : w \notin Fires!Range(eventsStack[k].temp)
      BY <1>5 DEF Fires!One, Fires!Add, Fires!Program
    <2>2. ~Listens(listeners, w) /\ \A k \in DOMAIN eventsStack : ~Holds(eventsStack[k], w)
      BY <2>1 DEF Listens, Holds, Fires!Range
    <2> QED  BY <1>1, <1>2, <2>1, <2>2, ListChanges
  <1>6. ASSUME Fires!Clear PROVE FiresInv'
    <2>1. listeners' = <<>> /\ UNCHANGED <<eventsStack, deepest, thrown, eventsCalls>>
      BY <1>6 DEF Fires!Clear, Fires!Program
    <2>2. <<>> \in Seq(Callable) /\ DOMAIN <<>> = {}
      OBVIOUS
    <2>3. listeners' \in Seq(Callable) /\ Single(listeners') /\ \A w : ~Listens(listeners', w)
      BY <2>1, <2>2 DEF Single, Listens
    <2> QED  BY <2>1, <2>3, ListChanges
  <1>7. ASSUME Fires!SetHandler PROVE FiresInv'
    <2>1. UNCHANGED <<listeners, eventsStack, deepest, thrown, eventsCalls>>
      BY <1>7 DEF Fires!SetHandler, Fires!Program
    <2> QED  BY <1>1, <2>1, ListChanges
  <1> QED
    BY <1>3, <1>4, <1>5, <1>6, <1>7, FiresBegin, FiresGoOn, FiresReturn, FiresUnwind
    DEF Fires!Next, Fires!Throw, Fires!OffUnknown

LEMMA FiresReach ==
    ASSUME FiresInv
    PROVE  Fires!CallsThoseOfItsStart /\ Fires!OneIsOnce
  <1>1. ASSUME NEW k \in DOMAIN eventsStack
        PROVE  LET f == eventsStack[k]
               IN  IF f.calling = "nothing" THEN f.called = f.took ELSE Fires!IsPrefix(f.called, f.took)
    <2> DEFINE f == eventsStack[k]
    <2>1. f \in FireRecord /\ InStep(f)
      BY ElementOfSeq, LenProperties DEF FiresInv, FireTypes
    <2> HIDE DEF f
    <2>2. /\ f.temp \in Seq(Callable) /\ Len(f.temp) \in Nat
          /\ \A i \in 1 .. Len(f.temp) : f.temp[i] \in Callable
      BY <2>1, ElementOfSeq, LenProperties DEF FireRecord
    <2>3. "nothing" \notin Callable /\ Fires!Handler # "nothing"
      BY FiresAssumption DEF Fires!EventsAssumption, Callable, Fires!Handler
    <2>4. CASE f.calling = Fires!Handler /\ f.called = <<>> /\ f.took = <<>>
      <3>1. Fires!IsPrefix(<<>>, <<>>)
        BY DEF Fires!IsPrefix
      <3> QED  BY <2>3, <2>4, <3>1 DEF f
    <2>5. CASE /\ f.took = f.temp /\ f.i \in 1 .. Len(f.temp) /\ f.calling = f.temp[f.i]
               /\ f.called = SubSeq(f.temp, 1, f.i)
      <3> DEFINE s == f.temp
                 i == f.i
      <3>1. s \in Seq(Callable) /\ i \in 1 .. Len(s) /\ Len(s) \in Nat
        BY <2>2, <2>5
      <3> HIDE DEF s, i
      <3>2. Len(SubSeq(s, 1, i)) = i
        BY <3>1
      <3>3. SubSeq(SubSeq(s, 1, i), 1, i) = SubSeq(s, 1, i)
        <4> DEFINE q == SubSeq(s, 1, i)
        <4>1. q \in Seq(Callable) /\ Len(q) = i
          BY <3>1
        <4> HIDE DEF q
        <4>2. SubSeq(q, 1, i) = q
          BY <4>1, AllOfIt
        <4> QED  BY <4>2 DEF q
      <3>4. Fires!IsPrefix(SubSeq(s, 1, i), s)
        BY <3>1, <3>2, <3>3 DEF Fires!IsPrefix
      <3>5. f.calling # "nothing"
        BY <2>2, <2>3, <2>5
      <3> QED  BY <2>5, <3>4, <3>5 DEF s, i, f
    <2>6. CASE f.took = f.temp /\ f.calling = "nothing" /\ f.called = f.temp
      BY <2>6 DEF f
    <2> QED  BY <2>1, <2>4, <2>5, <2>6 DEF InStep, f
  <1>2. ASSUME NEW w \in Once
        PROVE  eventsCalls[w] <= deepest * (thrown + 1)
    <2> DEFINE c == eventsCalls[w]
               a == Cardinality(Waiting(eventsStack, w))
               h == Cardinality(Holding(eventsStack, w))
               l == Listens(listeners, w)
    <2>1. c \in Nat /\ deepest \in Nat /\ thrown \in Nat /\ Len(eventsStack) <= deepest
          /\ eventsStack \in Seq(FireRecord)
      BY DEF FiresInv, FireTypes
    <2>2. a \in Nat /\ h \in Nat /\ h <= deepest
      <3>1. a \in Nat /\ h \in Nat /\ h <= Len(eventsStack) /\ Len(eventsStack) \in Nat
        BY <2>1, HoldingBound, LenProperties
      <3> HIDE DEF a, h
      <3> QED  BY <2>1, <3>1
    <2>3. c + a <= deepest * thrown + (IF l THEN h ELSE deepest)
      BY DEF FiresInv, CallBound
    <2>4. deepest * (thrown + 1) = deepest * thrown + deepest /\ deepest * thrown \in Nat
      <3>1. \A x, y \in Nat : x * (y + 1) = x * y + x /\ x * y \in Nat
        OBVIOUS
      <3> QED  BY <2>1, <3>1
    <2> HIDE DEF c, a, h, l
    <2>5. c + a <= deepest * thrown + deepest
      BY <2>1, <2>2, <2>3, <2>4
    <2> QED  BY <2>1, <2>2, <2>4, <2>5 DEF c
  <1> QED  BY <1>1, <1>2 DEF Fires!CallsThoseOfItsStart, Fires!OneIsOnce

\* A fire calls those that listened when it began, in their order, and a wrapper that one
\* made is called once for each of the fires that can be under way (phina.js:3178, 3203).
THEOREM FiresAlwaysReach == Spec => []FiresReachListeners
  <1> DEFINE Inv == part = "events" => FiresInv
  <1>1. Init => Inv
    BY FiresStart DEF Init
  <1>2. Inv /\ [Next]_vars => Inv'
    <2>1. ASSUME Inv, Next PROVE Inv'
      BY <2>1, FiresStep DEF Next
    <2>2. ASSUME Inv, UNCHANGED vars PROVE Inv'
      BY <2>2, FiresStay DEF vars
    <2> QED  BY <2>1, <2>2
  <1>3. Inv => FiresReachListeners
    BY FiresReach DEF FiresReachListeners
  <1> QED  BY <1>1, <1>2, <1>3, PTL DEF Spec

-----------------------------------------------------------------------------
(* Tweens *)

\* One call, if it is called again.
OnceMore(r) == IF r.again THEN Tween!UpdateTask(r) ELSE r

\* The states after each of the calls one inside the other.
CallsFrom(s, N, g) == g = [n \in 0 .. N |-> IF n = 0 THEN s ELSE OnceMore(g[n - 1])]

LEMMA CallsExist ==
    ASSUME NEW N \in Nat, NEW s
    PROVE  \E g : CallsFrom(s, N, g)
  <1> DEFINE B == {u \in Nat : ~ \E g : CallsFrom(s, u, g)}
  <1>1. SUFFICES ASSUME B # {} PROVE FALSE
    BY <1>1
  <1>2. PICK u \in B : \A v \in B : ~ (<<v, u>> \in OpToRel(<, Nat))
    <2>1. B \in SUBSET Nat
      OBVIOUS
    <2> HIDE DEF B
    <2> QED  BY <1>1, <2>1, WFMin, NatLessThanWellFounded
  <1>3. u \in Nat /\ ~ \E g : CallsFrom(s, u, g)
    OBVIOUS
  <1>4. \A v \in B : ~(v < u)
    BY <1>2 DEF OpToRel
  <1>5. \E h : u > 0 => CallsFrom(s, u - 1, h)
    BY <1>3, <1>4
  <1>6. PICK h : u > 0 => CallsFrom(s, u - 1, h)
    BY <1>5
  <1> DEFINE g == [n \in 0 .. u |-> IF n = 0 THEN s ELSE OnceMore(h[n - 1])]
  <1>7. ASSUME NEW n \in 0 .. u, n # 0
        PROVE  OnceMore(h[n - 1]) = OnceMore(g[n - 1])
    <2>1. n - 1 \in 0 .. u - 1 /\ n - 1 \in 0 .. u /\ u > 0
      BY <1>3, <1>7
    <2>2. h[n - 1] = IF n - 1 = 0 THEN s ELSE OnceMore(h[(n - 1) - 1])
      BY <1>6, <2>1 DEF CallsFrom
    <2> QED BY <2>1, <2>2
  <1>8. CallsFrom(s, u, g)
    BY <1>7 DEF CallsFrom
  <1> QED  BY <1>3, <1>8

LEMMA CallsAre ==
    ASSUME NEW s, StackDepth \in Nat
    PROVE  \E g : CallsFrom(s, StackDepth, g) /\ Tween!Calls(s) = g[StackDepth]
  <1> DEFINE A == CHOOSE g : CallsFrom(s, StackDepth, g)
  <1>1. CallsFrom(s, StackDepth, A)
    BY CallsExist
  <1>2. Tween!Calls(s) = A[StackDepth]
    BY DEF Tween!Calls, CallsFrom, OnceMore
  <1> QED BY <1>1, <1>2
-----------------------------------------------------------------------------
\* What a call does to what, for each of the reasons it may have.
TweenRecord == [begin : Int, finish : Int, duration : Nat, time : Nat]
QueueRecord == [tasks : Seq(Task), index : Nat, playing : BOOLEAN, loop : BOOLEAN,
                update : {"task", "tween", "wait"}, tween : TweenRecord]
CallState == [t : QueueRecord, v : Int, again : BOOLEAN]

QueueOK(t) ==
    /\ t \in QueueRecord /\ t.index \in 1 .. Len(t.tasks) + 1 /\ Len(t.tasks) <= MaxTasks
    /\ t.tween.time <= t.tween.duration
    /\ t.update = "tween" => t.tween.duration > 0

TaskOf(t) == t.tasks[t.index]

SameQueue(t, n) == n.tasks = t.tasks /\ n.loop = t.loop

NotPlaying(r, u) == ~ r.t.playing /\ u.t = r.t /\ ~ u.again
AtEnd(r, u) ==
    /\ r.t.playing /\ r.t.index > Len(r.t.tasks) /\ ~ r.t.loop
    /\ SameQueue(r.t, u.t) /\ u.t.index = r.t.index /\ ~ u.again
AtLoop(r, u) ==
    /\ r.t.playing /\ r.t.index > Len(r.t.tasks) /\ r.t.loop
    /\ SameQueue(r.t, u.t) /\ u.t.index = 1 /\ u.t.playing /\ u.again
Takes(r, u) ==
    /\ r.t.playing /\ r.t.index <= Len(r.t.tasks) /\ TaskOf(r.t).type \in {"tween", "wait"}
    /\ SameQueue(r.t, u.t) /\ u.t.index = r.t.index + 1 /\ ~ u.again
GoesOnAt(r, u) ==
    /\ r.t.playing /\ r.t.index <= Len(r.t.tasks)
    /\ \/ TaskOf(r.t).type = "set"
       \/ TaskOf(r.t).type = "call" /\ TaskOf(r.t).do = "play"
    /\ SameQueue(r.t, u.t) /\ u.t.index = r.t.index + 1 /\ u.t.playing /\ u.again
Pauses(r, u) ==
    /\ r.t.playing /\ r.t.index <= Len(r.t.tasks)
    /\ TaskOf(r.t).type = "call" /\ TaskOf(r.t).do \in {"pause", "stop"}
    /\ SameQueue(r.t, u.t) /\ u.t.index \in {1, r.t.index + 1} /\ ~ u.t.playing /\ u.again
RewindsAt(r, u) ==
    /\ r.t.playing /\ r.t.index <= Len(r.t.tasks)
    /\ TaskOf(r.t).type = "call" /\ TaskOf(r.t).do = "rewind"
    /\ SameQueue(r.t, u.t) /\ u.t.index = 1 /\ u.t.playing /\ u.again
ClearsAt(r, u) ==
    /\ r.t.playing /\ r.t.index <= Len(r.t.tasks)
    /\ TaskOf(r.t).type = "call" /\ TaskOf(r.t).do = "clear"
    /\ u.t.tasks = <<>> /\ ~ u.t.loop /\ u.t.index = 1 /\ u.t.playing /\ u.again

CallDoes(r, u) ==
    /\ u \in CallState /\ QueueOK(u.t) /\ (u.again => u.t.update = "task")
    /\ \/ NotPlaying(r, u) \/ AtEnd(r, u) \/ AtLoop(r, u) \/ Takes(r, u) \/ GoesOnAt(r, u)
       \/ Pauses(r, u) \/ RewindsAt(r, u) \/ ClearsAt(r, u)

LEMMA NextOf ==
    ASSUME NEW r \in CallState, QueueOK(r.t), r.t.index <= Len(r.t.tasks)
    PROVE  LET n == Tween!NextTask(r.t)
           IN  /\ n \in QueueRecord /\ SameQueue(r.t, n) /\ n.index = r.t.index + 1
               /\ n.index \in 1 .. Len(r.t.tasks) + 1
               /\ n.playing = r.t.playing /\ n.update = r.t.update /\ n.tween = r.t.tween
               /\ QueueOK(n)
  <1>1. r.t \in QueueRecord /\ r.t.index \in Nat
    BY DEF CallState, QueueRecord
  <1>2. Len(r.t.tasks) \in Nat
    BY <1>1, LenProperties DEF QueueRecord
  <1> QED BY <1>1, <1>2 DEF Tween!NextTask, QueueRecord, SameQueue, QueueOK

LEMMA RewoundIs ==
    ASSUME NEW t, QueueOK(t)
    PROVE  LET n == Tween!Rewound(t)
           IN  /\ n \in QueueRecord /\ SameQueue(t, n) /\ n.index = 1
               /\ n.playing = t.playing /\ n.update = "task" /\ n.tween = t.tween
               /\ QueueOK(n)
  <1>1. t \in QueueRecord /\ t.index \in Nat
    BY DEF QueueRecord, QueueOK
  <1>2. Len(t.tasks) \in Nat
    BY <1>1, LenProperties DEF QueueRecord
  <1> DEFINE n == Tween!Rewound(t)
  <1>3. n \in QueueRecord /\ n.index = 1 /\ n.update = "task"
    BY <1>1 DEF Tween!Rewound, QueueRecord
  <1>4. n.tasks = t.tasks /\ n.loop = t.loop /\ n.playing = t.playing /\ n.tween = t.tween
    BY <1>1 DEF Tween!Rewound, QueueRecord
  <1> QED BY <1>2, <1>3, <1>4 DEF SameQueue, QueueOK

LEMMA PlayedIs ==
    ASSUME NEW t, QueueOK(t)
    PROVE  LET p == Tween!Playing(t)
               n == Tween!Paused(t)
           IN  /\ p \in QueueRecord /\ SameQueue(t, p) /\ p.index = t.index /\ p.playing
               /\ p.update = t.update /\ p.tween = t.tween /\ QueueOK(p)
               /\ n \in QueueRecord /\ SameQueue(t, n) /\ n.index = t.index /\ ~ n.playing
               /\ n.update = t.update /\ n.tween = t.tween /\ QueueOK(n)
  <1>1. t \in QueueRecord
    BY DEF QueueOK
  <1> QED BY <1>1 DEF Tween!Playing, Tween!Paused, QueueRecord, SameQueue, QueueOK

LEMMA FreshIs ==
    LET n == Tween!Fresh
    IN  /\ n \in QueueRecord /\ n.tasks = <<>> /\ ~ n.loop /\ n.index = 1
        /\ n.playing /\ n.update = "task" /\ QueueOK(n)
  <1>1. <<>> \in Seq(Task) /\ Len(<<>>) = 0
    BY EmptySeq
  <1>2. MaxTasks \in Nat
    BY TweenAssumption DEF Tween!TweenerAssumption
  <1> QED BY <1>1, <1>2 DEF Tween!Fresh, Tween!NoTween, QueueRecord, TweenRecord, QueueOK

Worked(r, y, p, v) == [r EXCEPT !.t.tween = y, !.t.update = p, !.v = v]

\* What is under way, and the value, are the only things that a frame of it changes.
LEMMA WorkedOn ==
    ASSUME NEW r \in CallState, NEW y \in TweenRecord, NEW p \in {"task", "tween", "wait"},
           NEW v \in Int
    PROVE  LET w == Worked(r, y, p, v)
           IN  /\ w \in CallState /\ SameQueue(r.t, w.t) /\ w.t.index = r.t.index
               /\ w.t.playing = r.t.playing /\ w.again = r.again
               /\ w.t.tween = y /\ w.t.update = p /\ w.v = v
  <1>1. r.t \in QueueRecord
    BY DEF CallState
  <1> DEFINE q == [[r.t EXCEPT !.tween = y] EXCEPT !.update = p]
  <1>2. q \in QueueRecord /\ q.tasks = r.t.tasks /\ q.loop = r.t.loop
        /\ q.index = r.t.index /\ q.playing = r.t.playing /\ q.tween = y /\ q.update = p
    BY <1>1 DEF QueueRecord
  <1>3. Worked(r, y, p, v) = [[r EXCEPT !.t = q] EXCEPT !.v = v]
    BY <1>1 DEF Worked, CallState, QueueRecord
  <1> HIDE DEF q
  <1> QED BY <1>2, <1>3 DEF CallState, SameQueue

\* The time of a tween after one more frame.
LEMMA Forwards ==
    ASSUME NEW x \in TweenRecord, x.time <= x.duration
    PROVE  LET y == Tween!Forwarded(x)
           IN  /\ y \in TweenRecord /\ y.begin = x.begin /\ y.finish = x.finish
               /\ y.duration = x.duration /\ y.time <= y.duration
  <1>1. Unit \in Nat \ {0}
    BY TweenAssumption DEF Tween!TweenerAssumption
  <1> QED BY <1>1 DEF Tween!Forwarded, Tween!Clamped, TweenRecord

\* A tween and a wait move on by a frame, and leave the queue alone.
LEMMA MovesOn ==
    ASSUME NEW r \in CallState, QueueOK(r.t)
    PROVE  LET w == Tween!UpdateTween(r)
               n == Tween!UpdateWait(r)
           IN  /\ r.t.update = "tween" =>
                    /\ w \in CallState /\ QueueOK(w.t) /\ SameQueue(r.t, w.t)
                    /\ w.t.index = r.t.index /\ w.t.playing = r.t.playing
                    /\ w.again = r.again
               /\ r.t.update # "tween" =>
                    /\ n \in CallState /\ QueueOK(n.t) /\ SameQueue(r.t, n.t)
                    /\ n.t.index = r.t.index /\ n.t.playing = r.t.playing
                    /\ n.again = r.again
  <1> DEFINE x == r.t.tween
  <1>1. /\ r.t \in QueueRecord /\ x \in TweenRecord /\ r.v \in Int /\ x.time <= x.duration
        /\ r.t.update \in {"task", "tween", "wait"}
    BY DEF CallState, QueueRecord, QueueOK
  <1>2. Unit \in Nat \ {0}
    BY TweenAssumption DEF Tween!TweenerAssumption
  <1>3. Tween!NoTween \in TweenRecord /\ Tween!NoTween.time = 0 /\ Tween!NoTween.duration = 1
    BY DEF Tween!NoTween, TweenRecord
  <1>4. ASSUME r.t.update = "tween"
        PROVE  LET w == Tween!UpdateTween(r)
               IN  /\ w \in CallState /\ QueueOK(w.t) /\ SameQueue(r.t, w.t)
                   /\ w.t.index = r.t.index /\ w.t.playing = r.t.playing
                   /\ w.again = r.again
    <2> DEFINE y == Tween!Forwarded(x)
               z == IF Tween!Over(y) THEN Tween!NoTween ELSE y
               p == IF Tween!Over(y) THEN "task" ELSE r.t.update
               v == Tween!ValueOf(y)
    <2>1. y \in TweenRecord /\ y.duration > 0 /\ y.time <= y.duration
      BY <1>1, <1>4, Forwards DEF QueueOK
    <2>2. v \in Int
      <3> HIDE DEF y
      <3>1. y.begin \in Int /\ y.finish \in Int /\ y.time \in Nat /\ y.duration \in Nat \ {0}
        BY <2>1 DEF TweenRecord
      <3>2. (y.finish - y.begin) * y.time \in Int
        BY <3>1
      <3> QED BY <3>1, <3>2 DEF Tween!ValueOf
    <2>3. z \in TweenRecord /\ z.time <= z.duration /\ z.duration > 0 /\ p \in {"task", "tween", "wait"}
      <3> HIDE DEF y
      <3> QED BY <1>1, <1>3, <2>1
    <2>4. Tween!UpdateTween(r) = Worked(r, z, p, v)
      BY <1>1 DEF Worked, Tween!UpdateTween, CallState, QueueRecord
    <2> HIDE DEF z, p, v, y
    <2> DEFINE w == Tween!UpdateTween(r)
    <2>5. /\ w \in CallState /\ SameQueue(r.t, w.t) /\ w.t.index = r.t.index
          /\ w.t.playing = r.t.playing /\ w.again = r.again /\ w.t.tween = z
      <3>1. z \in TweenRecord /\ p \in {"task", "tween", "wait"}
        BY <2>3
      <3>2. LET u == Worked(r, z, p, v)
            IN  /\ u \in CallState /\ SameQueue(r.t, u.t) /\ u.t.index = r.t.index
                /\ u.t.playing = r.t.playing /\ u.again = r.again /\ u.t.tween = z
        BY <2>2, <3>1, WorkedOn
      <3> QED BY <2>4, <3>2
    <2>6. w.t \in QueueRecord
      BY <2>5 DEF CallState
    <2> QED BY <2>3, <2>5, <2>6 DEF QueueOK, SameQueue
  <1>5. ASSUME r.t.update # "tween"
        PROVE  LET n == Tween!UpdateWait(r)
               IN  /\ n \in CallState /\ QueueOK(n.t) /\ SameQueue(r.t, n.t)
                   /\ n.t.index = r.t.index /\ n.t.playing = r.t.playing
                   /\ n.again = r.again
    <2> DEFINE y == [x EXCEPT !.time = @ + Unit]
               z == IF Tween!Over(y) THEN Tween!NoTween ELSE y
               p == IF Tween!Over(y) THEN "task" ELSE r.t.update
    <2>1. y \in TweenRecord /\ (~ Tween!Over(y) => y.time <= y.duration)
      BY <1>1, <1>2 DEF TweenRecord, Tween!Over
    <2>2. z \in TweenRecord /\ z.time <= z.duration /\ p \in {"task", "wait"}
      <3> HIDE DEF y
      <3> QED BY <1>1, <1>3, <1>5, <2>1
    <2>3. Tween!UpdateWait(r) = Worked(r, z, p, r.v)
      BY <1>1 DEF Worked, Tween!UpdateWait, CallState, QueueRecord
    <2> HIDE DEF z, p, y
    <2> DEFINE w == Tween!UpdateWait(r)
    <2>4. /\ w \in CallState /\ SameQueue(r.t, w.t) /\ w.t.index = r.t.index
          /\ w.t.playing = r.t.playing /\ w.again = r.again /\ w.t.tween = z
          /\ w.t.update = p
      BY <1>1, <2>2, <2>3, WorkedOn
    <2>5. w.t \in QueueRecord
      BY <2>4 DEF CallState
    <2> QED BY <2>2, <2>4, <2>5 DEF QueueOK, SameQueue
  <1> QED BY <1>4, <1>5

\* A call does one of these.
LEMMA CallsDo ==
    ASSUME NEW r \in CallState, QueueOK(r.t), r.again, r.t.update = "task"
    PROVE  CallDoes(r, Tween!UpdateTask(r))
  <1> DEFINE t == r.t
             u == Tween!UpdateTask(r)
             task == TaskOf(t)
             n == Tween!NextTask(t)
  <1>1. /\ t \in QueueRecord /\ r.v \in Int /\ t.tasks \in Seq(Task) /\ t.index \in Nat
        /\ Len(t.tasks) \in Nat /\ t.index > 0
    <2>1. t \in QueueRecord /\ r.v \in Int
      BY DEF CallState
    <2>2. t.tasks \in Seq(Task) /\ t.index \in Nat
      BY <2>1 DEF QueueRecord
    <2> QED BY <2>1, <2>2, LenProperties DEF QueueOK
  <1>2. CASE ~ t.playing
    <2>1. u = [r EXCEPT !.again = FALSE]
      BY <1>2 DEF Tween!UpdateTask
    <2>2. u \in CallState /\ u.t = t /\ ~ u.again
      BY <2>1 DEF CallState
    <2> QED BY <1>2, <2>2 DEF CallDoes, NotPlaying
  <1>3. CASE t.playing /\ t.index > Len(t.tasks) /\ t.loop
    <2> DEFINE w == Tween!Rewound(t)
    <2>1. u = [r EXCEPT !.t = w]
      BY <1>3 DEF Tween!UpdateTask
    <2>2. w \in QueueRecord /\ SameQueue(t, w) /\ w.index = 1 /\ w.playing /\ w.update = "task"
          /\ QueueOK(w)
      BY <1>3, RewoundIs
    <2>3. u \in CallState /\ u.t = w /\ u.again
      BY <2>1, <2>2 DEF CallState
    <2> HIDE DEF w
    <2> QED BY <1>3, <2>2, <2>3 DEF CallDoes, AtLoop
  <1>4. CASE t.playing /\ t.index > Len(t.tasks) /\ ~ t.loop
    <2> DEFINE w == [t EXCEPT !.playing = FALSE]
    <2>1. u = [[r EXCEPT !.t = w] EXCEPT !.again = FALSE]
      BY <1>4 DEF Tween!UpdateTask, CallState, QueueRecord
    <2>2. w \in QueueRecord /\ SameQueue(t, w) /\ w.index = t.index /\ w.update = "task"
          /\ QueueOK(w)
      BY <1>4, PlayedIs DEF Tween!Paused
    <2>3. u \in CallState /\ u.t = w /\ ~ u.again
      BY <2>1, <2>2 DEF CallState
    <2> HIDE DEF w
    <2> QED BY <1>4, <2>2, <2>3 DEF CallDoes, AtEnd
  <1>5. CASE t.playing /\ t.index <= Len(t.tasks)
    <2>1. task \in Task
      BY <1>1, <1>5, ElementOfSeq DEF TaskOf
    <2>2. /\ n \in QueueRecord /\ SameQueue(t, n) /\ n.index = t.index + 1
          /\ n.index \in 1 .. Len(t.tasks) + 1
          /\ n.playing /\ n.update = "task" /\ QueueOK(n)
      BY <1>5, NextOf
    <2>3. ~ (~ t.playing) /\ ~ (t.index > Len(t.tasks))
      BY <1>1, <1>5
    <2> DEFINE onward == [r EXCEPT !.t = n]
               ends == [onward EXCEPT !.again = FALSE]
    <2>4. CASE task.type = "set"
      <3>1. task.to \in Int
        BY <2>1, <2>4, TweenAssumption DEF Tween!TweenerAssumption
      <3>2. u = [[r EXCEPT !.t = n] EXCEPT !.v = task.to]
        BY <2>3, <2>4 DEF Tween!UpdateTask, TaskOf
      <3>3. u \in CallState /\ u.t = n /\ u.again
        BY <2>2, <3>1, <3>2 DEF CallState
      <3> HIDE DEF n
      <3> QED BY <1>5, <2>2, <2>4, <3>3 DEF CallDoes, GoesOnAt
    <2>5. CASE task.type = "call"
      <3> DEFINE do == task.do
                 c == Tween!Controlled(n, do)
      <3>1. do \in {"play", "pause", "rewind", "stop", "clear"}
        BY <2>1, <2>5, TweenAssumption DEF Tween!TweenerAssumption
      <3>2. u = [r EXCEPT !.t = c]
        BY <2>3, <2>5 DEF Tween!UpdateTask, TaskOf, CallState
      <3>3. ASSUME c \in QueueRecord PROVE u \in CallState /\ u.t = c /\ u.again
        <4> HIDE DEF c
        <4> QED BY <3>2, <3>3 DEF CallState
      <3>4. CASE do = "play"
        <4>1. c = Tween!Playing(n)
          BY <3>4 DEF Tween!Controlled
        <4>2. c \in QueueRecord /\ SameQueue(n, c) /\ c.index = n.index /\ c.playing
              /\ c.update = "task" /\ QueueOK(c)
          <5> HIDE DEF n
          <5> QED BY <2>2, <4>1, PlayedIs
        <4> HIDE DEF n, c
        <4> QED BY <1>5, <2>2, <2>5, <3>3, <3>4, <4>2 DEF CallDoes, GoesOnAt, SameQueue
      <3>5. CASE do = "pause"
        <4>1. c = Tween!Paused(n)
          BY <3>5 DEF Tween!Controlled
        <4>2. c \in QueueRecord /\ SameQueue(n, c) /\ c.index = n.index /\ ~ c.playing
              /\ c.update = "task" /\ QueueOK(c)
          <5> HIDE DEF n
          <5> QED BY <2>2, <4>1, PlayedIs
        <4> HIDE DEF n, c
        <4> QED BY <1>5, <2>2, <2>5, <3>3, <3>5, <4>2 DEF CallDoes, Pauses, SameQueue
      <3>6. CASE do = "rewind"
        <4>1. c = Tween!Rewound(n)
          BY <3>6 DEF Tween!Controlled
        <4>2. c \in QueueRecord /\ SameQueue(n, c) /\ c.index = 1 /\ c.playing
              /\ c.update = "task" /\ QueueOK(c)
          <5> HIDE DEF n
          <5> QED BY <2>2, <4>1, RewoundIs
        <4> HIDE DEF n, c
        <4> QED BY <1>5, <2>2, <2>5, <3>3, <3>6, <4>2 DEF CallDoes, RewindsAt, SameQueue
      <3>7. CASE do = "stop"
        <4> DEFINE o == Tween!Paused(n)
        <4>1. c = Tween!Rewound(o)
          BY <3>7 DEF Tween!Controlled, Tween!Stopped
        <4>2. o \in QueueRecord /\ SameQueue(n, o) /\ ~ o.playing /\ QueueOK(o)
          <5> HIDE DEF n
          <5> QED BY <2>2, PlayedIs
        <4>3. c \in QueueRecord /\ SameQueue(n, c) /\ c.index = 1 /\ ~ c.playing
              /\ c.update = "task" /\ QueueOK(c)
          <5> HIDE DEF n, o, c
          <5> QED BY <4>1, <4>2, RewoundIs DEF SameQueue
        <4> HIDE DEF n, c
        <4> QED BY <1>5, <2>2, <2>5, <3>3, <3>7, <4>3 DEF CallDoes, Pauses, SameQueue
      <3>8. CASE do = "clear"
        <4>1. c = Tween!Fresh
          BY <3>8 DEF Tween!Controlled, Tween!Cleared
        <4>2. c \in QueueRecord /\ c.tasks = <<>> /\ ~ c.loop /\ c.index = 1 /\ c.playing
              /\ c.update = "task" /\ QueueOK(c)
          BY <4>1, FreshIs
        <4> HIDE DEF n, c
        <4> QED BY <1>5, <2>2, <2>5, <3>3, <3>8, <4>2 DEF CallDoes, ClearsAt
      <3> QED BY <3>1, <3>4, <3>5, <3>6, <3>7, <3>8
    <2>6. CASE task.type \in {"wait", "tween"}
      <3>1. ends \in CallState /\ ends.t = n /\ ~ ends.again /\ ends.v = r.v
        <4> HIDE DEF n
        <4> QED BY <2>2 DEF CallState
      <3>2. ASSUME NEW y \in TweenRecord, NEW p \in {"tween", "wait"},
                   NEW q, q = [ends EXCEPT !.t.update = p, !.t.tween = y],
                   y.time <= y.duration, p = "tween" => y.duration > 0
            PROVE  /\ q \in CallState /\ QueueOK(q.t) /\ SameQueue(t, q.t) /\ q.t.index = t.index + 1
                   /\ ~ q.again /\ q.t.update = p
        <4> HIDE DEF ends, n
        <4>1. q = Worked(ends, y, p, r.v)
          BY <2>2, <3>1, <3>2 DEF Worked, CallState, QueueRecord
        <4>2. p \in {"task", "tween", "wait"}
          OBVIOUS
        <4>3. /\ q \in CallState /\ SameQueue(ends.t, q.t) /\ q.t.index = ends.t.index
              /\ q.again = ends.again /\ q.t.tween = y /\ q.t.update = p
          <5> DEFINE w == Worked(ends, y, p, r.v)
          <5>1. r.v \in Int /\ ends \in CallState
            BY <1>1, <3>1
          <5>2. /\ w \in CallState /\ SameQueue(ends.t, w.t) /\ w.t.index = ends.t.index
                /\ w.again = ends.again /\ w.t.tween = y /\ w.t.update = p
            BY <5>1, <4>2, WorkedOn
          <5> HIDE DEF w
          <5> QED BY <4>1, <5>2 DEF w
        <4>4. q.t \in QueueRecord
          BY <4>3 DEF CallState
        <4> QED BY <2>2, <3>1, <3>2, <4>3, <4>4 DEF QueueOK, SameQueue
      <3>3. CASE task.type = "wait"
        <4> DEFINE y == [Tween!NoTween EXCEPT !.duration = task.duration]
                   q == [ends EXCEPT !.t.update = "wait", !.t.tween = y]
        <4>1. u = Tween!UpdateWait(q)
          BY <2>3, <3>3 DEF Tween!UpdateTask, TaskOf
        <4>2. task.duration \in Nat
          BY <2>1, <3>3, TweenAssumption DEF Tween!TweenerAssumption
        <4>3. y \in TweenRecord /\ y.time <= y.duration
          BY <4>2 DEF Tween!NoTween, TweenRecord
        <4> HIDE DEF y
        <4>4. /\ q \in CallState /\ QueueOK(q.t) /\ SameQueue(t, q.t) /\ q.t.index = t.index + 1
              /\ ~ q.again /\ q.t.update = "wait"
          BY <3>2, <4>3
        <4> HIDE DEF q, n, ends
        <4>5. /\ u \in CallState /\ QueueOK(u.t) /\ SameQueue(q.t, u.t)
              /\ u.t.index = q.t.index /\ u.again = q.again
          BY <4>1, <4>4, MovesOn
        <4> QED BY <1>5, <3>3, <4>4, <4>5 DEF CallDoes, Takes, SameQueue
      <3>4. CASE task.type = "tween"
        <4> DEFINE y == Tween!Begun(task, r.v)
                   q == [ends EXCEPT !.t.update = "tween", !.t.tween = y]
        <4>1. u = Tween!UpdateTween(q)
          BY <2>3, <3>4 DEF Tween!UpdateTask, TaskOf
        <4>2. task.duration \in Nat /\ task.to \in Int /\ task.mode \in {"to", "by", "from"}
          BY <2>1, <3>4, TweenAssumption DEF Tween!TweenerAssumption
        <4>3. y \in TweenRecord /\ y.time <= y.duration /\ y.duration > 0
          BY <1>1, <4>2, TweenAssumption
          DEF Tween!TweenerAssumption, Tween!Begun, Tween!Duration, TweenRecord
        <4> HIDE DEF y
        <4>4. /\ q \in CallState /\ QueueOK(q.t) /\ SameQueue(t, q.t) /\ q.t.index = t.index + 1
              /\ ~ q.again /\ q.t.update = "tween"
          BY <3>2, <4>3
        <4> HIDE DEF q, n, ends
        <4>5. /\ u \in CallState /\ QueueOK(u.t) /\ SameQueue(q.t, u.t)
              /\ u.t.index = q.t.index /\ u.again = q.again
          BY <4>1, <4>4, MovesOn
        <4> QED BY <1>5, <3>4, <4>4, <4>5 DEF CallDoes, Takes, SameQueue
      <3> QED BY <2>6, <3>3, <3>4
    <2> QED BY <2>1, <2>4, <2>5, <2>6, TweenAssumption DEF Tween!TweenerAssumption
  <1> QED BY <1>1, <1>2, <1>3, <1>4, <1>5
-----------------------------------------------------------------------------
\* The calls of a frame pass through the queue: up to where it is gone through again, once
\* more from its first task, and then, if nothing ended them, the same way for ever.
GoesOnly(task) == task.type = "set" \/ (task.type = "call" /\ task.do = "play")
OnlyGoes(t, e) == \A i \in 1 .. e - 1 : GoesOnly(t.tasks[i])
RewindsThere(t, e) ==
    \/ e = Len(t.tasks) + 1 /\ t.loop
    \/ e <= Len(t.tasks) /\ t.tasks[e].type = "call" /\ t.tasks[e].do = "rewind"

AboutToEnd(s, n, r) ==
    /\ n <= 2 * Len(s.t.tasks) + 1
    /\ ~ r.t.playing \/ (r.t.tasks = <<>> /\ ~ r.t.loop)
FirstTime(s, n, r) == SameQueue(s.t, r.t) /\ r.t.index = s.t.index + n
SecondTime(s, n, r) ==
    /\ SameQueue(s.t, r.t) /\ n <= Len(s.t.tasks) + r.t.index
    /\ OnlyGoes(r.t, r.t.index)
ForEver(s, r) ==
    /\ SameQueue(s.t, r.t)
    /\ \E e \in r.t.index .. Len(r.t.tasks) + 1 : OnlyGoes(r.t, e) /\ RewindsThere(r.t, e)

PassedInOrder(s, r) ==
    /\ r.t.tasks = s.t.tasks \/ (r.t.tasks = <<>> /\ r.t.index = 1)
    /\ r.t.tasks = s.t.tasks =>
         /\ \A i \in s.t.index .. r.t.index - 2 : Tween!TakesNoTime(s.t.tasks[i])
         /\ r.again =>
              \A i \in s.t.index .. r.t.index - 1 : Tween!TakesNoTime(s.t.tasks[i])

CallInv(s, n, r) ==
    /\ r \in CallState /\ QueueOK(r.t) /\ (r.again => r.t.update = "task")
    /\ PassedInOrder(s, r)
    /\ r.again =>
         AboutToEnd(s, n, r) \/ FirstTime(s, n, r) \/ SecondTime(s, n, r) \/ ForEver(s, r)

LEMMA CallMovesOn ==
    ASSUME NEW s, s \in CallState, QueueOK(s.t), NEW n \in Nat, NEW r, CallInv(s, n, r), r.again,
           NEW u, CallDoes(r, u)
    PROVE  CallInv(s, n + 1, u)
  <1> DEFINE L == Len(s.t.tasks)
  <1>1. /\ L \in Nat /\ s.t.index \in 1 .. L + 1 /\ s.t.tasks \in Seq(Task)
        /\ Len(r.t.tasks) \in Nat /\ r.t.index \in 1 .. Len(r.t.tasks) + 1
        /\ r.t.tasks \in Seq(Task) /\ Len(<<>>) = 0
        /\ Len(u.t.tasks) \in Nat /\ u.t.index \in 1 .. Len(u.t.tasks) + 1
    <2>1. s.t \in QueueRecord /\ r.t \in QueueRecord /\ u.t \in QueueRecord
      BY DEF CallInv, CallDoes, QueueOK
    <2>2. s.t.tasks \in Seq(Task) /\ r.t.tasks \in Seq(Task) /\ u.t.tasks \in Seq(Task)
      BY <2>1 DEF QueueRecord
    <2> QED BY <2>2, LenProperties, EmptySeq DEF CallInv, CallDoes, QueueOK
  <1>2. u \in CallState /\ QueueOK(u.t) /\ (u.again => u.t.update = "task")
    BY DEF CallDoes
  <1>3. PassedInOrder(s, r) /\ (AboutToEnd(s, n, r) \/ FirstTime(s, n, r) \/ SecondTime(s, n, r) \/ ForEver(s, r))
    BY DEF CallInv
  <1>4. PassedInOrder(s, u)
    <2>1. CASE u.t.index = 1 /\ (u.t.tasks = s.t.tasks \/ u.t.tasks = <<>>)
      BY <1>1, <2>1 DEF PassedInOrder
    <2>2. CASE u.t.tasks = r.t.tasks /\ u.t.index = r.t.index /\ ~ u.again
      BY <1>1, <1>3, <2>2 DEF PassedInOrder
    <2>3. CASE /\ r.t.index <= Len(r.t.tasks) /\ u.t.index = r.t.index + 1 /\ u.t.tasks = r.t.tasks
               /\ Tween!TakesNoTime(r.t.tasks[r.t.index]) \/ ~ u.again
      <3>1. r.t.tasks = s.t.tasks
        BY <1>1, <1>3, <2>3 DEF PassedInOrder
      <3>2. \A i \in s.t.index .. r.t.index - 1 : Tween!TakesNoTime(s.t.tasks[i])
        BY <1>3, <3>1 DEF PassedInOrder
      <3>3. u.again => Tween!TakesNoTime(s.t.tasks[r.t.index])
        BY <2>3, <3>1
      <3>4. \A i \in s.t.index .. u.t.index - 2 : i \in s.t.index .. r.t.index - 1
        BY <1>1, <2>3
      <3>5. \A i \in s.t.index .. u.t.index - 1 : i \in s.t.index .. r.t.index - 1 \/ i = r.t.index
        BY <1>1, <2>3
      <3> QED BY <2>3, <3>1, <3>2, <3>3, <3>4, <3>5 DEF PassedInOrder
    <2>4. CASE NotPlaying(r, u)
      BY <2>2, <2>4 DEF NotPlaying
    <2>5. CASE AtEnd(r, u)
      BY <2>2, <2>5 DEF AtEnd, SameQueue
    <2>6. CASE AtLoop(r, u) \/ RewindsAt(r, u)
      BY <1>3, <2>1, <2>6 DEF AtLoop, RewindsAt, SameQueue, PassedInOrder
    <2>7. CASE Takes(r, u)
      BY <2>3, <2>7 DEF Takes, SameQueue
    <2>8. CASE GoesOnAt(r, u)
      BY <2>3, <2>8 DEF GoesOnAt, SameQueue, TaskOf, Tween!TakesNoTime
    <2>9. CASE Pauses(r, u)
      <3>1. u.t.tasks = s.t.tasks \/ u.t.tasks = <<>>
        BY <1>3, <2>9 DEF Pauses, SameQueue, PassedInOrder
      <3> QED BY <2>1, <2>3, <2>9, <3>1 DEF Pauses, SameQueue, TaskOf, Tween!TakesNoTime
    <2>10. CASE ClearsAt(r, u)
      BY <2>1, <2>10 DEF ClearsAt
    <2> QED BY <2>4, <2>5, <2>6, <2>7, <2>8, <2>9, <2>10 DEF CallDoes
  <1>5. ASSUME u.again
        PROVE  AboutToEnd(s, n + 1, u) \/ FirstTime(s, n + 1, u) \/ SecondTime(s, n + 1, u)
               \/ ForEver(s, u)
    <2> USE <1>5
    <2>1. CASE AboutToEnd(s, n, r)
      <3>1. ~ r.t.playing \/ (r.t.index > Len(r.t.tasks) /\ ~ r.t.loop)
        BY <1>1, <2>1 DEF AboutToEnd
      <3>2. ~ (r.t.index <= Len(r.t.tasks)) \/ ~ r.t.playing
        BY <1>1, <3>1
      <3> QED BY <3>1, <3>2
          DEF CallDoes, NotPlaying, AtEnd, AtLoop, Takes, GoesOnAt, Pauses, RewindsAt, ClearsAt
    <2>2. CASE FirstTime(s, n, r)
      <3>1. SameQueue(s.t, r.t) /\ r.t.index = s.t.index + n /\ Len(r.t.tasks) = L
        BY <2>2 DEF FirstTime, SameQueue
      <3>2. n <= L
        BY <1>1, <3>1
      <3>3. CASE AtLoop(r, u) \/ RewindsAt(r, u)
        <4>1. SameQueue(r.t, u.t) /\ u.t.index = 1
          BY <3>3 DEF AtLoop, RewindsAt
        <4>2. OnlyGoes(u.t, 1)
          BY DEF OnlyGoes
        <4>3. n + 1 <= L + u.t.index
          BY <1>1, <3>2, <4>1
        <4> QED BY <3>1, <4>1, <4>2, <4>3 DEF SecondTime, SameQueue
      <3>4. CASE GoesOnAt(r, u)
        <4>1. u.t.index = s.t.index + (n + 1)
          BY <1>1, <3>1, <3>4 DEF GoesOnAt
        <4> QED BY <3>1, <3>4, <4>1 DEF GoesOnAt, FirstTime, SameQueue
      <3>5. CASE Pauses(r, u) \/ ClearsAt(r, u)
        <4>1. n + 1 <= 2 * L + 1
          BY <1>1, <3>2
        <4> QED BY <3>5, <4>1 DEF Pauses, ClearsAt, AboutToEnd
      <3> QED BY <3>3, <3>4, <3>5 DEF CallDoes, NotPlaying, AtEnd, Takes
    <2>3. CASE SecondTime(s, n, r)
      <3>1. SameQueue(s.t, r.t) /\ n <= L + r.t.index /\ Len(r.t.tasks) = L /\ OnlyGoes(r.t, r.t.index)
        BY <2>3 DEF SecondTime, SameQueue
      <3>2. CASE AtLoop(r, u) \/ RewindsAt(r, u)
        <4>1. SameQueue(r.t, u.t) /\ u.t.index = 1 /\ RewindsThere(r.t, r.t.index)
          BY <1>1, <3>2 DEF AtLoop, RewindsAt, RewindsThere, TaskOf
        <4>2. r.t.index \in u.t.index .. Len(u.t.tasks) + 1
          BY <1>1, <3>1, <4>1 DEF SameQueue
        <4>3. OnlyGoes(u.t, r.t.index) /\ RewindsThere(u.t, r.t.index)
          BY <3>1, <4>1 DEF OnlyGoes, RewindsThere, SameQueue
        <4> QED BY <3>1, <4>1, <4>2, <4>3 DEF ForEver, SameQueue
      <3>3. CASE GoesOnAt(r, u)
        <4>1. SameQueue(r.t, u.t) /\ u.t.index = r.t.index + 1 /\ GoesOnly(r.t.tasks[r.t.index])
          BY <3>3 DEF GoesOnAt, GoesOnly, TaskOf
        <4>2. \A i \in 1 .. u.t.index - 1 : i \in 1 .. r.t.index - 1 \/ i = r.t.index
          BY <1>1, <4>1
        <4>3. OnlyGoes(u.t, u.t.index)
          BY <3>1, <4>1, <4>2 DEF OnlyGoes, SameQueue
        <4>4. n + 1 <= L + u.t.index
          BY <1>1, <3>1, <4>1
        <4> QED BY <3>1, <4>1, <4>3, <4>4 DEF SecondTime, SameQueue
      <3>4. CASE Pauses(r, u) \/ ClearsAt(r, u)
        <4>1. r.t.index <= L
          BY <3>1, <3>4 DEF Pauses, ClearsAt
        <4>2. n + 1 <= 2 * L + 1
          BY <1>1, <3>1, <4>1
        <4> QED BY <3>4, <4>2 DEF Pauses, ClearsAt, AboutToEnd
      <3> QED BY <3>2, <3>3, <3>4 DEF CallDoes, NotPlaying, AtEnd, Takes
    <2>4. CASE ForEver(s, r)
      <3>1. SameQueue(s.t, r.t) /\ Len(r.t.tasks) = L
        BY <2>4 DEF ForEver, SameQueue
      <3>2. PICK e \in r.t.index .. L + 1 : OnlyGoes(r.t, e) /\ RewindsThere(r.t, e)
        BY <2>4, <3>1 DEF ForEver
      <3>3. e \in 1 .. L + 1 /\ r.t.index <= e
        BY <1>1, <3>2
      <3>4. CASE AtLoop(r, u) \/ RewindsAt(r, u)
        <4>1. SameQueue(r.t, u.t) /\ u.t.index = 1
          BY <3>4 DEF AtLoop, RewindsAt
        <4>2. e \in u.t.index .. Len(u.t.tasks) + 1
          BY <1>1, <3>1, <3>3, <4>1 DEF SameQueue
        <4>3. OnlyGoes(u.t, e) /\ RewindsThere(u.t, e)
          BY <3>2, <4>1 DEF OnlyGoes, RewindsThere, SameQueue
        <4> QED BY <3>1, <4>1, <4>2, <4>3 DEF ForEver, SameQueue
      <3>5. CASE r.t.index = e
        <4>1. ~ (GoesOnAt(r, u) \/ Pauses(r, u) \/ ClearsAt(r, u))
          BY <1>1, <3>1, <3>2, <3>5 DEF RewindsThere, GoesOnAt, Pauses, ClearsAt, TaskOf
        <4> QED BY <3>4, <4>1 DEF CallDoes, NotPlaying, AtEnd, Takes
      <3>6. CASE r.t.index < e
        <4>1. r.t.index \in 1 .. e - 1
          BY <1>1, <3>3, <3>6
        <4>2. GoesOnly(r.t.tasks[r.t.index])
          BY <3>2, <4>1 DEF OnlyGoes
        <4>3. ~ (Pauses(r, u) \/ ClearsAt(r, u))
          BY <4>2 DEF GoesOnly, Pauses, ClearsAt, TaskOf
        <4>4. CASE GoesOnAt(r, u)
          <5>1. SameQueue(r.t, u.t) /\ u.t.index = r.t.index + 1
            BY <4>4 DEF GoesOnAt
          <5>2. e \in u.t.index .. Len(u.t.tasks) + 1
            BY <1>1, <3>1, <3>3, <3>6, <5>1 DEF SameQueue
          <5>3. OnlyGoes(u.t, e) /\ RewindsThere(u.t, e)
            BY <3>2, <5>1 DEF OnlyGoes, RewindsThere, SameQueue
          <5> QED BY <3>1, <5>1, <5>2, <5>3 DEF ForEver, SameQueue
        <4> QED BY <3>4, <4>3, <4>4 DEF CallDoes, NotPlaying, AtEnd, Takes
      <3> QED BY <1>1, <3>3, <3>5, <3>6
    <2> QED BY <1>3, <2>1, <2>2, <2>3, <2>4
  <1> QED BY <1>2, <1>4, <1>5 DEF CallInv

\* What holds after a call holds after all of them.
LEMMA AllCallsKeep ==
    ASSUME NEW s, s \in CallState, QueueOK(s.t), s.t.update = "task", s.again
    PROVE  CallInv(s, StackDepth, Tween!Calls(s))
  <1>1. StackDepth \in Nat
    BY TweenAssumption DEF Tween!TweenerAssumption
  <1>2. PICK g : CallsFrom(s, StackDepth, g) /\ Tween!Calls(s) = g[StackDepth]
    BY <1>1, CallsAre
  <1>3. CallInv(s, 0, s)
    <2>1. s.t \in QueueRecord /\ s.t.index \in Nat
      BY DEF QueueOK, QueueRecord
    <2>2. PassedInOrder(s, s)
      BY <2>1 DEF PassedInOrder
    <2>3. FirstTime(s, 0, s)
      BY <2>1 DEF FirstTime, SameQueue
    <2> QED BY <2>2, <2>3 DEF CallInv
  <1>4. ASSUME NEW n \in Nat, NEW r, CallInv(s, n, r) PROVE CallInv(s, n + 1, OnceMore(r))
    <2>1. CASE r.again
      <3>1. r \in CallState /\ QueueOK(r.t) /\ r.t.update = "task"
        BY <1>4, <2>1 DEF CallInv
      <3>2. CallDoes(r, Tween!UpdateTask(r))
        BY <2>1, <3>1, CallsDo
      <3> QED BY <1>4, <2>1, <3>2, CallMovesOn DEF OnceMore
    <2>2. CASE ~ r.again
      BY <1>4, <2>2 DEF CallInv, OnceMore
    <2> QED BY <2>1, <2>2
  <1> DEFINE B == {n \in 0 .. StackDepth : ~ CallInv(s, n, g[n])}
  <1>5. ASSUME B # {} PROVE FALSE
    <2>1. B \in SUBSET Nat
      BY <1>1
    <2>2. PICK u \in B : \A v \in B : ~ (<<v, u>> \in OpToRel(<, Nat))
      <3> HIDE DEF B
      <3> QED  BY <1>5, <2>1, WFMin, NatLessThanWellFounded
    <2>3. u \in Nat /\ u <= StackDepth /\ ~ CallInv(s, u, g[u])
      BY <1>1
    <2>4. \A v \in B : ~(v < u)
      <3> HIDE DEF B
      <3> QED  BY <2>1, <2>2, <2>3 DEF OpToRel
    <2>5. g[0] = s
      BY <1>1, <1>2 DEF CallsFrom
    <2>6. u # 0
      BY <1>3, <2>3, <2>5
    <2>7. u - 1 \in 0 .. StackDepth /\ u - 1 < u /\ u - 1 \in Nat /\ (u - 1) + 1 = u
      BY <1>1, <2>3, <2>6
    <2>8. CallInv(s, u - 1, g[u - 1])
      BY <2>4, <2>7
    <2>9. g[u] = OnceMore(g[u - 1])
      BY <1>1, <1>2, <2>3, <2>6 DEF CallsFrom
    <2>10. CallInv(s, (u - 1) + 1, OnceMore(g[u - 1]))
      BY <1>4, <2>7, <2>8
    <2> QED BY <2>3, <2>7, <2>9, <2>10
  <1>6. StackDepth \in 0 .. StackDepth
    BY <1>1
  <1> QED BY <1>2, <1>5, <1>6

\* A frame that overflows the stack goes through tasks that take no time.
LEMMA CrashesForEver ==
    ASSUME NEW s, s \in CallState, QueueOK(s.t), NEW r, CallInv(s, StackDepth, r), r.again
    PROVE  Tween!Rewinds(r.t) /\ (r.t.tasks # <<>> => Tween!TakesNoTime(r.t.tasks[1]))
  <1> DEFINE L == Len(s.t.tasks)
  <1>1. /\ L \in Nat /\ L <= MaxTasks /\ s.t.index \in 1 .. L + 1
        /\ Len(r.t.tasks) \in Nat /\ r.t.index \in 1 .. Len(r.t.tasks) + 1
        /\ r.t.tasks \in Seq(Task)
    <2>1. s.t \in QueueRecord /\ r.t \in QueueRecord
      BY DEF CallInv, QueueOK
    <2>2. s.t.tasks \in Seq(Task) /\ r.t.tasks \in Seq(Task)
      BY <2>1 DEF QueueRecord
    <2> QED BY <2>2, LenProperties DEF CallInv, QueueOK
  <1>2. StackDepth \in Nat /\ StackDepth > 2 * MaxTasks + 2 /\ MaxTasks \in Nat
    BY TweenAssumption DEF Tween!TweenerAssumption
  <1>3. StackDepth > 2 * L + 2
    BY <1>1, <1>2
  <1>4. ~ AboutToEnd(s, StackDepth, r)
    BY <1>1, <1>2, <1>3 DEF AboutToEnd
  <1>5. ~ FirstTime(s, StackDepth, r)
    <2>1. SUFFICES ASSUME FirstTime(s, StackDepth, r) PROVE FALSE
      OBVIOUS
    <2>2. r.t.index = s.t.index + StackDepth /\ Len(r.t.tasks) = L
      BY <2>1 DEF FirstTime, SameQueue
    <2> QED BY <1>1, <1>2, <1>3, <2>2
  <1>6. ~ SecondTime(s, StackDepth, r)
    <2>1. SUFFICES ASSUME SecondTime(s, StackDepth, r) PROVE FALSE
      OBVIOUS
    <2>2. StackDepth <= L + r.t.index /\ Len(r.t.tasks) = L
      BY <2>1 DEF SecondTime, SameQueue
    <2> QED BY <1>1, <1>2, <1>3, <2>2
  <1>7. ForEver(s, r)
    BY <1>4, <1>5, <1>6 DEF CallInv
  <1>8. PICK e \in r.t.index .. Len(r.t.tasks) + 1 : OnlyGoes(r.t, e) /\ RewindsThere(r.t, e)
    BY <1>7 DEF ForEver
  <1>9. e \in 1 .. Len(r.t.tasks) + 1 /\ DOMAIN r.t.tasks = 1 .. Len(r.t.tasks)
    BY <1>1, <1>8, LenProperties
  <1>10. Tween!Rewinds(r.t)
    <2>1. CASE r.t.loop
      BY <2>1 DEF Tween!Rewinds
    <2>2. CASE e <= Len(r.t.tasks) /\ r.t.tasks[e].type = "call" /\ r.t.tasks[e].do = "rewind"
      <3>1. e \in DOMAIN r.t.tasks
        BY <1>1, <1>9, <2>2
      <3> QED BY <2>2, <3>1 DEF Tween!Rewinds
    <2> QED BY <1>8, <2>1, <2>2 DEF RewindsThere
  <1>11. ASSUME r.t.tasks # <<>> PROVE Tween!TakesNoTime(r.t.tasks[1])
    <2>1. Len(r.t.tasks) # 0
      BY <1>1, <1>11, EmptySeq
    <2>2. CASE e = 1
      BY <1>1, <1>8, <2>1, <2>2 DEF RewindsThere, Tween!TakesNoTime
    <2>3. CASE e # 1
      <3>1. 1 \in 1 .. e - 1
        BY <1>1, <1>9, <2>3
      <3> QED BY <1>8, <3>1 DEF OnlyGoes, GoesOnly, Tween!TakesNoTime
    <2> QED BY <2>2, <2>3
  <1> QED BY <1>10, <1>11
-----------------------------------------------------------------------------
TweenInv ==
    /\ QueueOK(tweener) /\ tweenerValue \in Int /\ crashed \in BOOLEAN /\ controls \in Nat

FrameEndsNow ==
    crashed' /\ ~ crashed =>
        /\ Tween!Rewinds(tweener')
        /\ tweener'.tasks # <<>> => Tween!TakesNoTime(tweener'.tasks[1])
EndsExactNow ==
    /\ tweener.update = "tween" /\ controls' = controls =>
         Tween!Between(tweenerValue', tweener.tween.begin, tweener.tween.finish)
    /\ tweener.update = "tween" /\ tweener'.update = "task" /\ controls' = controls =>
         tweenerValue' = tweener.tween.finish
InOrderNow ==
    controls' = controls /\ tweener'.tasks = tweener.tasks /\ tweener'.index > tweener.index =>
        \A i \in tweener.index .. tweener'.index - 2 : Tween!TakesNoTime(tweener.tasks[i])

LEMMA TweenStarts == ASSUME Tween!Init PROVE TweenInv
  <1>1. QueueOK(tweener)
    BY FreshIs DEF Tween!Init
  <1>2. tweenerValue \in Int /\ controls \in Nat
    BY DEF Tween!Init
  <1>3. crashed \in BOOLEAN
    BY DEF Tween!Init
  <1> QED BY <1>1, <1>2, <1>3 DEF TweenInv

\* A quotient of a part of a number is between nought and that number.
LEMMA PartBetween ==
    ASSUME NEW c \in Int, NEW t \in Nat, NEW d \in Nat \ {0}, t <= d
    PROVE  /\ c >= 0 => (c * t) \div d \in 0 .. c
           /\ c <= 0 => (c * t) \div d \in c .. 0
           /\ t = d => (c * t) \div d = c
  <1> DEFINE q == (c * t) \div d
  <1>1. q \in Int /\ d * q <= c * t /\ c * t < d * q + d
    OBVIOUS
  <1>2. c >= 0 => 0 <= c * t /\ c * t <= c * d
    OBVIOUS
  <1>3. c <= 0 => c * d <= c * t /\ c * t <= 0
    OBVIOUS
  <1>4. \A x \in Int : x > c => d * x >= d * c + d
    OBVIOUS
  <1> QED OBVIOUS

\* A tween that moves on shows a value between its ends, and ends at its end.
LEMMA TweenEnds ==
    ASSUME NEW x \in TweenRecord, x.time <= x.duration, x.duration > 0
    PROVE  LET y == Tween!Forwarded(x)
           IN  /\ Tween!Between(Tween!ValueOf(y), x.begin, x.finish)
               /\ Tween!Over(y) => Tween!ValueOf(y) = x.finish
  <1> DEFINE y == Tween!Forwarded(x)
             c == y.finish - y.begin
             q == (c * y.time) \div y.duration
  <1>1. /\ y \in TweenRecord /\ y.begin = x.begin /\ y.finish = x.finish
        /\ y.duration = x.duration /\ y.time <= y.duration
    BY Forwards
  <1> HIDE DEF y
  <1>2. c \in Int /\ y.time \in Nat /\ y.duration \in Nat \ {0} /\ y.begin \in Int /\ y.finish \in Int
    BY <1>1 DEF TweenRecord
  <1>3. /\ c >= 0 => q \in 0 .. c
        /\ c <= 0 => q \in c .. 0
        /\ y.time = y.duration => q = c
    <2> HIDE DEF c
    <2> QED BY <1>1, <1>2, PartBetween
  <1>4. Tween!ValueOf(y) = y.begin + q
    BY DEF Tween!ValueOf
  <1>5. Tween!Over(y) => y.time = y.duration
    <2>1. y.time \in Nat /\ y.duration \in Nat /\ y.time <= y.duration
      BY <1>1, <1>2
    <2> QED BY <2>1 DEF Tween!Over
  <1>6. q \in Int
    <2> HIDE DEF q
    <2> QED BY <1>2, <1>3
  <1> HIDE DEF q
  <1>7. Tween!Over(y) => Tween!ValueOf(y) = x.finish
    BY <1>1, <1>2, <1>3, <1>4, <1>5, <1>6
  <1>8. Tween!Between(Tween!ValueOf(y), x.begin, x.finish)
    <2>1. CASE c >= 0
      BY <1>1, <1>2, <1>3, <1>4, <1>6, <2>1 DEF Tween!Between
    <2>2. CASE c <= 0
      BY <1>1, <1>2, <1>3, <1>4, <1>6, <2>2 DEF Tween!Between
    <2> QED BY <1>2, <2>1, <2>2
  <1> QED BY <1>7, <1>8 DEF y

\* What a frame does to the invariant and says of the properties.
LEMMA TweenFrame ==
    ASSUME TweenInv, Tween!Frame
    PROVE  TweenInv' /\ FrameEndsNow /\ EndsExactNow /\ InOrderNow
  <1> DEFINE s == [t |-> tweener, v |-> tweenerValue, again |-> tweener.update = "task"]
  <1>1. /\ s \in CallState /\ s.t = tweener /\ s.v = tweenerValue /\ QueueOK(s.t)
        /\ s.again = (tweener.update = "task") /\ tweener \in QueueRecord
        /\ tweener.update \in {"task", "tween", "wait"} /\ tweener.index \in Nat
    <2>1. tweener \in QueueRecord /\ tweenerValue \in Int
      BY DEF TweenInv, QueueOK
    <2>2. tweener.update \in {"task", "tween", "wait"} /\ tweener.index \in Nat
      BY <2>1 DEF QueueRecord
    <2>3. s \in CallState
      BY <2>1 DEF CallState
    <2> QED BY <2>1, <2>2, <2>3 DEF TweenInv
  <1>2. CASE tweener.update = "task"
    <2> DEFINE r == Tween!Calls(s)
    <2>1. tweener' = r.t /\ tweenerValue' = r.v /\ crashed' = r.again /\ controls' = controls
      BY <1>2 DEF Tween!Frame
    <2>2. CallInv(s, StackDepth, r)
      <3> HIDE DEF s
      <3> QED BY <1>1, <1>2, AllCallsKeep
    <2>3. r.again => Tween!Rewinds(r.t) /\ (r.t.tasks # <<>> => Tween!TakesNoTime(r.t.tasks[1]))
      <3> HIDE DEF s
      <3> QED BY <1>1, <2>2, CrashesForEver
    <2> HIDE DEF s, r
    <2>4. QueueOK(r.t) /\ r.v \in Int /\ r.again \in BOOLEAN
      BY <2>2 DEF CallInv, CallState
    <2>5. TweenInv'
      BY <2>1, <2>4 DEF TweenInv, QueueOK
    <2>6. FrameEndsNow
      BY <2>1, <2>3 DEF FrameEndsNow
    <2>7. EndsExactNow
      BY <1>2 DEF EndsExactNow
    <2>8. InOrderNow
      BY <1>1, <2>1, <2>2 DEF InOrderNow, CallInv, PassedInOrder
    <2> QED BY <2>5, <2>6, <2>7, <2>8
  <1>3. CASE tweener.update = "tween"
    <2> DEFINE r == Tween!UpdateTween(s)
               x == tweener.tween
               y == Tween!Forwarded(x)
    <2>1. tweener' = r.t /\ tweenerValue' = r.v /\ crashed' = r.again /\ controls' = controls
      BY <1>3 DEF Tween!Frame
    <2>2. /\ r \in CallState /\ QueueOK(r.t) /\ SameQueue(s.t, r.t) /\ r.t.index = s.t.index
          /\ r.again = s.again
      <3> HIDE DEF s
      <3> QED BY <1>1, <1>3, MovesOn
    <2>3. x \in TweenRecord /\ x.time <= x.duration /\ x.duration > 0
      BY <1>1, <1>3 DEF QueueOK, QueueRecord
    <2>4. r.v = Tween!ValueOf(y)
      <3> HIDE DEF s
      <3> QED BY <1>1 DEF Tween!UpdateTween, CallState, QueueRecord
    <2>5. r.t.update = "task" => Tween!Over(y)
      <3> HIDE DEF s
      <3> QED BY <1>1, <1>3 DEF Tween!UpdateTween, CallState, QueueRecord
    <2>6. Tween!Between(r.v, x.begin, x.finish) /\ (r.t.update = "task" => r.v = x.finish)
      BY <2>3, <2>4, <2>5, TweenEnds
    <2> HIDE DEF s, r
    <2>7. TweenInv'
      <3>1. QueueOK(r.t) /\ r.v \in Int /\ r.again \in BOOLEAN
        BY <2>2 DEF CallState
      <3> QED BY <2>1, <3>1 DEF TweenInv, QueueOK
    <2>8. EndsExactNow
      BY <2>1, <2>6 DEF EndsExactNow
    <2>9. InOrderNow /\ FrameEndsNow
      <3>1. tweener'.index = tweener.index /\ ~ (tweener'.index > tweener.index)
        BY <1>1, <2>1, <2>2
      <3>2. ~ crashed'
        BY <1>1, <1>3, <2>1, <2>2
      <3> QED BY <3>1, <3>2 DEF InOrderNow, FrameEndsNow
    <2> QED BY <2>7, <2>8, <2>9
  <1>4. CASE tweener.update = "wait"
    <2> DEFINE r == Tween!UpdateWait(s)
    <2>1. tweener' = r.t /\ tweenerValue' = r.v /\ crashed' = r.again /\ controls' = controls
      BY <1>4 DEF Tween!Frame
    <2>2. /\ r \in CallState /\ QueueOK(r.t) /\ SameQueue(s.t, r.t) /\ r.t.index = s.t.index
          /\ r.again = s.again
      <3> HIDE DEF s
      <3> QED BY <1>1, <1>4, MovesOn
    <2> HIDE DEF s, r
    <2>3. TweenInv'
      <3>1. QueueOK(r.t) /\ r.v \in Int /\ r.again \in BOOLEAN
        BY <2>2 DEF CallState
      <3> QED BY <2>1, <3>1 DEF TweenInv, QueueOK
    <2>4. EndsExactNow /\ InOrderNow /\ FrameEndsNow
      <3>1. tweener'.index = tweener.index /\ ~ (tweener'.index > tweener.index)
        BY <1>1, <2>1, <2>2
      <3>2. ~ crashed'
        BY <1>1, <1>4, <2>1, <2>2
      <3> QED BY <1>4, <3>1, <3>2 DEF InOrderNow, FrameEndsNow, EndsExactNow
    <2> QED BY <2>3, <2>4
  <1> QED BY <1>1, <1>2, <1>3, <1>4

\* What is added and steered between two frames.
LEMMA TweenControlled ==
    ASSUME NEW t, QueueOK(t), NEW c \in Tween!Control
    PROVE  QueueOK(Tween!Controlled(t, c))
  <1>1. QueueOK(Tween!Playing(t)) /\ QueueOK(Tween!Paused(t)) /\ QueueOK(Tween!Rewound(t))
    BY PlayedIs, RewoundIs
  <1>2. QueueOK(Tween!Stopped(t))
    BY <1>1, RewoundIs DEF Tween!Stopped
  <1>3. QueueOK(Tween!Cleared(t))
    BY FreshIs DEF Tween!Cleared
  <1> QED BY <1>1, <1>2, <1>3 DEF Tween!Control, Tween!Controlled

LEMMA TweenMoves ==
    ASSUME TweenInv, Tween!Next
    PROVE  TweenInv' /\ FrameEndsNow /\ EndsExactNow /\ InOrderNow
  <1>1. CASE Tween!Frame
    BY <1>1, TweenFrame
  <1>2. ASSUME Tween!Steered, QueueOK(tweener'), UNCHANGED <<tweenerValue, crashed>>
        PROVE  TweenInv' /\ FrameEndsNow /\ EndsExactNow /\ InOrderNow
    <2>1. controls' # controls /\ controls' \in Nat
      BY <1>2 DEF TweenInv, Tween!Steered
    <2>2. TweenInv'
      BY <1>2, <2>1 DEF TweenInv, QueueOK
    <2> QED BY <1>2, <2>1, <2>2 DEF FrameEndsNow, EndsExactNow, InOrderNow
  <1>3. tweener \in QueueRecord /\ QueueOK(tweener) /\ tweener.tasks \in Seq(Task) /\ Len(tweener.tasks) \in Nat
    <2>1. tweener \in QueueRecord /\ QueueOK(tweener)
      BY DEF TweenInv, QueueOK
    <2>2. tweener.tasks \in Seq(Task)
      BY <2>1 DEF QueueRecord
    <2> QED BY <2>1, <2>2, LenProperties
  <1>4. CASE \E task \in Task : Tween!Add(task)
    <2>1. PICK task \in Task : Tween!Add(task)
      BY <1>4
    <2> DEFINE q == Append(tweener.tasks, task)
               t == [tweener EXCEPT !.tasks = q]
    <2>2. q \in Seq(Task) /\ Len(q) = Len(tweener.tasks) + 1
      BY <1>3, AppendProperties
    <2>3. Len(tweener.tasks) < MaxTasks
      BY <2>1 DEF Tween!Add
    <2>4. tweener' = t
      BY <2>1 DEF Tween!Add
    <2> HIDE DEF q
    <2>5. t \in QueueRecord /\ t.tasks = q /\ t.index = tweener.index /\ t.tween = tweener.tween
          /\ t.update = tweener.update
      BY <1>3, <2>2 DEF QueueRecord
    <2>6. MaxTasks \in Nat
      BY TweenAssumption DEF Tween!TweenerAssumption
    <2>7. t.index \in 1 .. Len(t.tasks) + 1 /\ Len(t.tasks) <= MaxTasks
      <3> HIDE DEF t
      <3> QED BY <1>3, <2>2, <2>3, <2>5, <2>6 DEF QueueOK
    <2>8. QueueOK(t)
      <3> HIDE DEF t
      <3> QED BY <1>3, <2>5, <2>7 DEF QueueOK
    <2> QED BY <1>2, <2>1, <2>4, <2>8 DEF Tween!Add
  <1>5. CASE \E c \in Tween!Control : Tween!Steer(c)
    BY <1>2, <1>3, <1>5, TweenControlled DEF Tween!Steer
  <1>6. CASE \E flag \in BOOLEAN : Tween!SetLoop(flag)
    <2>1. PICK flag \in BOOLEAN : Tween!SetLoop(flag)
      BY <1>6
    <2> DEFINE t == [tweener EXCEPT !.loop = flag]
    <2>2. t \in QueueRecord /\ t.tasks = tweener.tasks /\ t.index = tweener.index
          /\ t.tween = tweener.tween /\ t.update = tweener.update
      BY <1>3 DEF QueueRecord
    <2>3. QueueOK(t)
      <3> HIDE DEF t
      <3> QED BY <1>3, <2>2 DEF QueueOK
    <2> QED BY <1>2, <2>1, <2>3 DEF Tween!SetLoop
  <1> QED BY <1>1, <1>4, <1>5, <1>6 DEF Tween!Next

\* A tween ends exactly where it should, tasks follow each other without one skipped, and a
\* frame ends unless the queue goes round in tasks that take no time (phina.js:3343, 8487).
THEOREM TweensAlwaysInOrder == Spec => TweensRunInOrder
  <1>1. Init => TweenInv
    BY TweenStarts DEF Init
  <1>2. ASSUME TweenInv, [Next]_vars
        PROVE  /\ TweenInv'
               /\ [FrameEndsNow]_(Tween!vars) /\ [EndsExactNow]_(Tween!vars)
               /\ [InOrderNow]_(Tween!vars)
    <2>1. CASE Tween!Next
      BY <1>2, <2>1, TweenMoves
    <2>2. CASE UNCHANGED tweenerVars
      BY <1>2, <2>2 DEF tweenerVars, TweenInv, QueueOK, Tween!vars
    <2>3. Tween!Next \/ UNCHANGED tweenerVars
      BY <1>2 DEF Next, vars
    <2> QED BY <2>1, <2>2, <2>3
  <1>3. ASSUME TweenInv PROVE Tween!TypeOK
    <2>1. tweener \in QueueRecord /\ tweener.tween \in TweenRecord
      BY <1>3 DEF TweenInv, QueueOK, QueueRecord
    <2>2. tweener.tween.time \in Nat /\ tweener.tween.duration \in Nat
      BY <2>1 DEF TweenRecord
    <2>3. tweener.tween.time \in 0 .. tweener.tween.duration
      BY <1>3, <2>2 DEF TweenInv, QueueOK
    <2> QED BY <1>3, <2>1, <2>3 DEF TweenInv, QueueOK, QueueRecord, Tween!TypeOK
  <1> QED BY <1>1, <1>2, <1>3, PTL
      DEF Spec, TweensRunInOrder, Tween!FrameEnds, Tween!EndsExact, Tween!InOrder,
          FrameEndsNow, EndsExactNow, InOrderNow

-----------------------------------------------------------------------------
(* Lines of text *)

SumsTo(text, N, g) == g = [n \in 0 .. N |-> IF n = 0 THEN 0 ELSE g[n - 1] + text[n]]

LEMMA BreakConstants ==
    /\ \A c \in CharWidths : c \in Nat /\ c > 0
    /\ \A w \in AreaWidths : w \in Nat /\ w > 0
    /\ Wide \in Nat \ {0} /\ LineSize \in Nat \ {0}
    /\ \A h \in Halves : h \in Nat
    /\ \A o \in Offsets : o \in Int
  BY AreaAssumption DEF Area!LineBreaksAssumption

\* A least natural number for which something does not hold.
LEMMA LeastOf ==
    ASSUME NEW B \in SUBSET Nat, B # {}
    PROVE  \E u \in B : \A v \in B : u <= v
  <1>1. PICK u \in B : \A v \in B : ~ (<<v, u>> \in OpToRel(<, Nat))
    BY WFMin, NatLessThanWellFounded
  <1>2. \A v \in B : ~ (v < u)
    BY <1>1 DEF OpToRel
  <1> QED BY <1>2

LEMMA SumsExist ==
    ASSUME NEW N \in Nat, NEW text
    PROVE  \E g : SumsTo(text, N, g)
  <1> DEFINE B == {u \in Nat : ~ \E g : SumsTo(text, u, g)}
  <1>1. SUFFICES ASSUME B # {} PROVE FALSE
    BY <1>1
  <1>2. PICK u \in B : \A v \in B : u <= v
    <2>1. B \in SUBSET Nat
      OBVIOUS
    <2> HIDE DEF B
    <2> QED  BY <1>1, <2>1, LeastOf
  <1>3. u \in Nat /\ ~ \E g : SumsTo(text, u, g)
    OBVIOUS
  <1>4. \E h : u > 0 => SumsTo(text, u - 1, h)
    BY <1>2, <1>3
  <1>5. PICK h : u > 0 => SumsTo(text, u - 1, h)
    BY <1>4
  <1> DEFINE g == [n \in 0 .. u |-> IF n = 0 THEN 0 ELSE h[n - 1] + text[n]]
  <1>6. ASSUME NEW n \in 0 .. u, n # 0
        PROVE  h[n - 1] = g[n - 1]
    <2>1. n - 1 \in 0 .. u - 1 /\ n - 1 \in 0 .. u /\ u > 0
      BY <1>3, <1>6
    <2>2. h[n - 1] = IF n - 1 = 0 THEN 0 ELSE h[(n - 1) - 1] + text[n - 1]
      BY <1>5, <2>1 DEF SumsTo
    <2> QED BY <2>1, <2>2
  <1>7. SumsTo(text, u, g)
    BY <1>6 DEF SumsTo
  <1> QED  BY <1>3, <1>7

\* The width of one character more.
LEMMA UptoIs ==
    ASSUME NEW text \in Seq(CharWidths)
    PROVE  /\ Area!Upto(text, 0) = 0
           /\ \A n \in 1 .. Len(text) :
                 Area!Upto(text, n) = Area!Upto(text, n - 1) + text[n]
           /\ \A n \in 0 .. Len(text) : Area!Upto(text, n) \in Nat
  <1> DEFINE g == CHOOSE f : SumsTo(text, Len(text), f)
             L == Len(text)
  <1>1. L \in Nat /\ \A n \in 1 .. L : text[n] \in Nat
    <2>1. \A n \in 1 .. L : text[n] \in CharWidths
      BY ElementOfSeq
    <2> QED BY <2>1, BreakConstants, LenProperties
  <1>2. SumsTo(text, L, g)
    BY <1>1, SumsExist
  <1>3. Area!Sums(text) = g
    BY DEF Area!Sums, SumsTo
  <1>4. \A n \in 0 .. L : Area!Upto(text, n) = IF n = 0 THEN 0 ELSE Area!Upto(text, n - 1) + text[n]
    <2> HIDE DEF g
    <2> TAKE n \in 0 .. L
    <2>1. n # 0 => n - 1 \in 0 .. L
      BY <1>1
    <2> QED BY <1>2, <1>3, <2>1 DEF SumsTo, Area!Upto
  <1>5. 0 \in 0 .. L /\ \A n \in 1 .. L : n \in 0 .. L /\ n # 0
    BY <1>1
  <1> DEFINE B == {n \in 0 .. L : Area!Upto(text, n) \notin Nat}
  <1>6. ASSUME B # {} PROVE FALSE
    <2>1. PICK u \in B : \A v \in B : u <= v
      <3>1. B \in SUBSET Nat
        BY <1>1
      <3> HIDE DEF B
      <3> QED  BY <1>6, <3>1, LeastOf
    <2>2. u \in 0 .. L /\ Area!Upto(text, u) \notin Nat
      OBVIOUS
    <2>3. u # 0
      BY <1>4, <2>2
    <2>4. u - 1 \in 0 .. L /\ u - 1 < u /\ u \in 1 .. L
      BY <1>1, <2>2, <2>3
    <2>5. Area!Upto(text, u - 1) \in Nat
      BY <2>1, <2>4
    <2> QED BY <1>1, <1>4, <2>2, <2>3, <2>4, <2>5
  <1> QED BY <1>4, <1>5, <1>6

\* Texts that begin alike are as wide.
LEMMA UptoSame ==
    ASSUME NEW s \in Seq(CharWidths), NEW t \in Seq(CharWidths), NEW m \in Nat,
           m <= Len(s), m <= Len(t), \A n \in 1 .. m : s[n] = t[n]
    PROVE  Area!Upto(s, m) = Area!Upto(t, m)
  <1> DEFINE B == {n \in 0 .. m : Area!Upto(s, n) # Area!Upto(t, n)}
  <1>1. Len(s) \in Nat /\ Len(t) \in Nat
    BY LenProperties
  <1>2. ASSUME B # {} PROVE FALSE
    <2>1. PICK u \in B : \A v \in B : u <= v
      <3>1. B \in SUBSET Nat
        OBVIOUS
      <3> HIDE DEF B
      <3> QED  BY <1>2, <3>1, LeastOf
    <2>2. u \in 0 .. m /\ Area!Upto(s, u) # Area!Upto(t, u)
      OBVIOUS
    <2>3. u # 0
      BY <2>2, UptoIs
    <2>4. u - 1 \in 0 .. m /\ u - 1 < u /\ u \in 1 .. m /\ u \in 1 .. Len(s) /\ u \in 1 .. Len(t)
      BY <1>1, <2>2, <2>3
    <2>5. Area!Upto(s, u - 1) = Area!Upto(t, u - 1)
      BY <2>1, <2>4
    <2>6. Area!Upto(s, u) = Area!Upto(s, u - 1) + s[u] /\ Area!Upto(t, u) = Area!Upto(t, u - 1) + t[u]
      BY <2>4, UptoIs
    <2> QED BY <2>2, <2>4, <2>5, <2>6
  <1>3. m \in 0 .. m
    OBVIOUS
  <1> QED BY <1>2, <1>3

LEMMA LastOf ==
    ASSUME NEW N \in Nat, NEW B \in SUBSET (0 .. N), B # {}
    PROVE  Area!Max(B) \in B /\ \A v \in B : v <= Area!Max(B)
  <1> DEFINE C == {k \in Nat : N - k \in B}
  <1>1. PICK b \in B : TRUE
    OBVIOUS
  <1>2. N - b \in Nat /\ N - (N - b) = b
    BY <1>1
  <1>3. C # {}
    BY <1>1, <1>2
  <1>4. PICK k \in C : \A v \in C : k <= v
    <2>1. C \in SUBSET Nat
      OBVIOUS
    <2> HIDE DEF C
    <2> QED BY <1>3, <2>1, LeastOf
  <1>5. k \in Nat /\ N - k \in B
    OBVIOUS
  <1>6. ASSUME NEW v \in B PROVE v <= N - k
    <2>1. v \in 0 .. N
      OBVIOUS
    <2>2. N - v \in Nat /\ N - (N - v) = v
      BY <2>1
    <2>3. N - v \in C
      BY <2>2
    <2>4. k <= N - v
      BY <1>4, <2>3
    <2> QED BY <1>5, <2>1, <2>4
  <1>7. \E x \in B : \A y \in B : x >= y
    <2>1. \A y \in B : y \in 0 .. N
      OBVIOUS
    <2>2. \A y \in B : N - k >= y
      BY <1>5, <1>6, <2>1
    <2> QED BY <1>5, <2>2
  <1>8. Area!Max(B) \in B /\ \A v \in B : Area!Max(B) >= v
    BY <1>7 DEF Area!Max
  <1>9. \A v \in B : v \in 0 .. N
    OBVIOUS
  <1> HIDE DEF C
  <1> QED BY <1>8, <1>9

LEMMA FirstOf ==
    ASSUME NEW B \in SUBSET Nat, B # {}
    PROVE  Area!Min(B) \in B /\ \A v \in B : Area!Min(B) <= v
  <1>1. \E u \in B : \A v \in B : u <= v
    BY LeastOf
  <1> QED BY <1>1 DEF Area!Min

\* Where a text is broken: what is before fits, and one character more does not; or what is
\* before its last character fits.
LEMMA BreakIs ==
    ASSUME NEW text \in Seq(CharWidths), Len(text) > 0, pos \in Nat, row \in AreaWidths
    PROVE  LET b == Area!BreakOf(text)
           IN  /\ b \in 0 .. Len(text)
               /\ b < Len(text) => /\ b + 1 < Len(text)
                                   /\ Area!Upto(text, b) <= row
                                   /\ Area!Upto(text, b + 1) > row
               /\ b = Len(text) => Area!Upto(text, Len(text) - 1) <= row
  <1> DEFINE L == Len(text)
             p == IF pos >= L THEN L - 1 ELSE pos
             U(n) == Area!Upto(text, n)
             b == Area!BreakOf(text)
  <1>1. L \in Nat /\ p \in 0 .. L - 1 /\ row \in Nat /\ row > 0
    BY LenProperties, BreakConstants
  <1>2. U(0) = 0 /\ \A n \in 0 .. L : U(n) \in Nat
    BY UptoIs
  <1> HIDE DEF p, L, U
  <1>3. CASE Area!TooWide(U(p))
    <2> DEFINE S == {q \in 0 .. p - 1 : ~ Area!TooWide(U(q))}
    <2>1. b = Area!Max(S)
      BY <1>3 DEF Area!BreakOf, Area!BackFrom, p, L, U
    <2>2. p > 0 /\ p - 1 \in Nat
      BY <1>1, <1>2, <1>3 DEF Area!TooWide
    <2>3. 0 \in S /\ S \in SUBSET (0 .. p - 1)
      BY <1>1, <1>2, <2>2 DEF Area!TooWide
    <2>4. b \in S /\ \A v \in S : v <= b
      <3> HIDE DEF S
      <3> QED BY <2>1, <2>2, <2>3, LastOf
    <2>5. b \in 0 .. p - 1 /\ ~ Area!TooWide(U(b))
      BY <2>4
    <2>6. b + 1 \in 0 .. p /\ ~ (b + 1 <= b) /\ b + 1 < L /\ b < L
      BY <1>1, <2>2, <2>5
    <2>7. Area!TooWide(U(b + 1))
      <3>1. CASE b + 1 = p
        BY <1>3, <3>1
      <3>2. CASE b + 1 # p
        <4>1. b + 1 \in 0 .. p - 1
          BY <1>1, <2>6, <3>2
        <4> QED BY <2>4, <2>6, <4>1
      <3> QED BY <3>1, <3>2
    <2>8. b \in 0 .. L /\ b + 1 \in 0 .. L /\ b # L
      BY <1>1, <2>5, <2>6
    <2>9. U(b) \in Nat /\ U(b + 1) \in Nat
      BY <1>2, <2>8
    <2>10. U(b) <= row /\ U(b + 1) > row
      BY <1>1, <2>5, <2>7, <2>9 DEF Area!TooWide
    <2> QED BY <2>6, <2>8, <2>10 DEF L, U
  <1>4. CASE ~ Area!TooWide(U(p))
    <2> DEFINE S == {q \in p + 1 .. L - 1 : Area!TooWide(U(q))}
    <2>1. b = IF S = {} THEN L ELSE Area!Min(S) - 1
      BY <1>4 DEF Area!BreakOf, Area!OnFrom, p, L, U
    <2>2. CASE S = {}
      <3>1. b = L
        BY <2>1, <2>2
      <3>2. ~ Area!TooWide(U(L - 1))
        <4>1. CASE p = L - 1
          BY <1>4, <4>1
        <4>2. CASE p # L - 1
          <5>1. L - 1 \in p + 1 .. L - 1
            BY <1>1, <4>2
          <5> QED BY <2>2, <5>1
        <4> QED BY <4>1, <4>2
      <3>3. L - 1 \in 0 .. L /\ L \in 0 .. L
        BY <1>1
      <3>4. U(L - 1) <= row
        BY <1>1, <1>2, <3>2, <3>3 DEF Area!TooWide
      <3>5. ~ (b < L) /\ b \in 0 .. L
        BY <1>1, <3>1
      <3> QED BY <3>4, <3>5 DEF L, U
    <2>3. CASE S # {}
      <3> DEFINE m == Area!Min(S)
      <3>1. m \in S /\ \A v \in S : m <= v
        <4>1. S \in SUBSET Nat
          BY <1>1
        <4> HIDE DEF S
        <4> QED BY <2>3, <4>1, FirstOf
      <3>2. m \in p + 1 .. L - 1 /\ Area!TooWide(U(m)) /\ b = m - 1
        BY <2>1, <2>3, <3>1
      <3> HIDE DEF m
      <3>3. /\ b \in p .. L - 2 /\ b + 1 = m /\ b + 1 < L /\ b < L /\ b # L /\ b \in 0 .. L
            /\ m \in 0 .. L /\ ~ (m <= b)
        BY <1>1, <3>2
      <3>4. ~ Area!TooWide(U(b))
        <4>1. CASE b = p
          BY <1>4, <4>1
        <4>2. CASE b # p
          <5>1. b \in p + 1 .. L - 1
            BY <1>1, <3>3, <4>2
          <5> QED BY <3>1, <3>3, <5>1
        <4> QED BY <4>1, <4>2
      <3>5. U(b) \in Nat /\ U(m) \in Nat
        BY <1>2, <3>3
      <3>6. U(b) <= row /\ U(b + 1) > row
        BY <1>1, <3>2, <3>3, <3>4, <3>5 DEF Area!TooWide
      <3> QED BY <3>3, <3>6 DEF L, U
    <2> QED BY <2>2, <2>3
  <1> QED BY <1>3, <1>4
-----------------------------------------------------------------------------
\* A sequence of texts, written one after the other.
Joins(ss, N, g) == g = [k \in 1 .. N |-> IF k = 1 THEN ss[k] ELSE g[k - 1] \o ss[k]]

LEMMA JoinsExist ==
    ASSUME NEW N \in Nat, NEW ss
    PROVE  \E g : Joins(ss, N, g)
  <1> DEFINE B == {u \in Nat : ~ \E g : Joins(ss, u, g)}
  <1>1. SUFFICES ASSUME B # {} PROVE FALSE
    BY <1>1
  <1>2. PICK u \in B : \A v \in B : u <= v
    <2>1. B \in SUBSET Nat
      OBVIOUS
    <2> HIDE DEF B
    <2> QED  BY <1>1, <2>1, LeastOf
  <1>3. u \in Nat /\ ~ \E g : Joins(ss, u, g)
    OBVIOUS
  <1>4. \E h : u > 0 => Joins(ss, u - 1, h)
    BY <1>2, <1>3
  <1>5. PICK h : u > 0 => Joins(ss, u - 1, h)
    BY <1>4
  <1> DEFINE g == [k \in 1 .. u |-> IF k = 1 THEN ss[k] ELSE h[k - 1] \o ss[k]]
  <1>6. ASSUME NEW k \in 1 .. u, k # 1
        PROVE  h[k - 1] = g[k - 1]
    <2>1. k - 1 \in 1 .. u - 1 /\ k - 1 \in 1 .. u /\ u > 0
      BY <1>3, <1>6
    <2>2. h[k - 1] = IF k - 1 = 1 THEN ss[k - 1] ELSE h[(k - 1) - 1] \o ss[k - 1]
      BY <1>5, <2>1 DEF Joins
    <2> QED BY <2>1, <2>2
  <1>7. Joins(ss, u, g)
    BY <1>6 DEF Joins
  <1> QED  BY <1>3, <1>7

LEMMA FlatIs ==
    ASSUME NEW ss \in Seq(Seq(CharWidths)), Len(ss) > 0
    PROVE  \E g : /\ Area!FlattenSeq(ss) = g[Len(ss)] /\ g[1] = ss[1]
                  /\ \A k \in 2 .. Len(ss) : g[k] = g[k - 1] \o ss[k]
                  /\ \A k \in 1 .. Len(ss) : g[k] \in Seq(CharWidths)
  <1> DEFINE L == Len(ss)
             g == CHOOSE f : Joins(ss, L, f)
  <1>1. L \in Nat /\ L # 0 /\ \A k \in 1 .. L : ss[k] \in Seq(CharWidths)
    BY LenProperties, ElementOfSeq
  <1>2. Joins(ss, L, g)
    BY <1>1, JoinsExist
  <1>3. Area!FlattenSeq(ss) = g[L]
    BY <1>1 DEF Area!FlattenSeq, Joins
  <1> HIDE DEF g
  <1>4. \A k \in 1 .. L : g[k] = IF k = 1 THEN ss[k] ELSE g[k - 1] \o ss[k]
    BY <1>2 DEF Joins
  <1>5. 1 \in 1 .. L /\ \A k \in 2 .. L : k \in 1 .. L /\ k # 1
    BY <1>1
  <1>6. g[1] = ss[1] /\ \A k \in 2 .. L : g[k] = g[k - 1] \o ss[k]
    BY <1>4, <1>5
  <1> DEFINE B == {k \in 1 .. L : g[k] \notin Seq(CharWidths)}
  <1>7. ASSUME B # {} PROVE FALSE
    <2>1. PICK u \in B : \A v \in B : u <= v
      <3>1. B \in SUBSET Nat
        BY <1>1
      <3> HIDE DEF B
      <3> QED  BY <1>7, <3>1, LeastOf
    <2>2. u \in 1 .. L /\ g[u] \notin Seq(CharWidths)
      OBVIOUS
    <2>3. u # 1
      BY <1>1, <1>5, <1>6, <2>2
    <2>4. u - 1 \in 1 .. L /\ u - 1 < u /\ u \in 2 .. L
      BY <1>1, <2>2, <2>3
    <2>5. g[u - 1] \in Seq(CharWidths)
      BY <2>1, <2>4
    <2>6. g[u - 1] \o ss[u] \in Seq(CharWidths)
      BY <1>1, <2>2, <2>5, ConcatProperties
    <2> QED BY <1>6, <2>2, <2>4, <2>6
  <1> QED BY <1>3, <1>6, <1>7

LEMMA Associates ==
    \A a, b, c \in Seq(CharWidths) : (a \o b) \o c = a \o (b \o c)
  BY ConcatAssociative

\* A text is written as its two parts are.
LEMMA SplitsFlat ==
    ASSUME NEW s \in Seq(Seq(CharWidths)), NEW t \in Seq(Seq(CharWidths)),
           NEW m \in 1 .. Len(s), Len(t) = Len(s) + 1,
           \A k \in 1 .. m - 1 : t[k] = s[k],
           \A k \in m + 1 .. Len(s) : t[k + 1] = s[k],
           t[m] \o t[m + 1] = s[m]
    PROVE  Area!FlattenSeq(t) = Area!FlattenSeq(s)
  <1> DEFINE L == Len(s)
  <1>1. L \in Nat /\ L > 0 /\ Len(t) = L + 1 /\ m \in 1 .. L
    BY LenProperties
  <1>2. PICK g : /\ Area!FlattenSeq(s) = g[L] /\ g[1] = s[1]
                 /\ \A k \in 2 .. L : g[k] = g[k - 1] \o s[k]
                 /\ \A k \in 1 .. L : g[k] \in Seq(CharWidths)
    BY <1>1, FlatIs
  <1>3. PICK h : /\ Area!FlattenSeq(t) = h[L + 1] /\ h[1] = t[1]
                 /\ \A k \in 2 .. L + 1 : h[k] = h[k - 1] \o t[k]
                 /\ \A k \in 1 .. L + 1 : h[k] \in Seq(CharWidths)
    <2>1. Len(t) > 0
      BY <1>1
    <2> QED BY <1>1, <2>1, FlatIs
  <1>4. \A k \in 1 .. L + 1 : t[k] \in Seq(CharWidths)
    BY <1>1, ElementOfSeq
  <1> DEFINE Same(k) == (k < m => h[k] = g[k]) /\ (k >= m => h[k + 1] = g[k])
             B == {k \in 1 .. L : ~ Same(k)}
  <1>5. ASSUME B # {} PROVE FALSE
    <2>1. PICK u \in B : \A v \in B : u <= v
      <3>1. B \in SUBSET Nat
        BY <1>1
      <3> HIDE DEF B
      <3> QED  BY <1>5, <3>1, LeastOf
    <2>2. u \in 1 .. L /\ ~ Same(u)
      OBVIOUS
    <2>3. u # 1 => u - 1 \in 1 .. L /\ u - 1 < u /\ u \in 2 .. L /\ u \in 2 .. L + 1 /\ u + 1 \in 2 .. L + 1
                   /\ (u + 1) - 1 = u /\ (u - 1) + 1 = u /\ u \in Nat
      BY <1>1, <2>2
    <2>4. u # 1 => Same(u - 1)
      <3> HIDE DEF Same
      <3> QED BY <2>1, <2>3
    <2>5. CASE u < m
      <3>1. u \in 1 .. m - 1
        BY <1>1, <2>2, <2>5
      <3>2. t[u] = s[u]
        BY <3>1
      <3>3. CASE u = 1
        BY <1>1, <1>2, <1>3, <2>2, <2>5, <3>2, <3>3
      <3>4. CASE u # 1
        <4>1. u - 1 < m
          BY <1>1, <2>2, <2>5
        <4>2. h[u - 1] = g[u - 1]
          BY <2>4, <3>4, <4>1
        <4>3. h[u] = g[u]
          BY <1>2, <1>3, <2>3, <3>2, <3>4, <4>2
        <4>4. ~ (u >= m)
          BY <1>1, <2>2, <2>5
        <4> QED BY <2>2, <4>3, <4>4
      <3> QED BY <3>3, <3>4
    <2>6. CASE u = m
      <3>1. s[u] = t[u] \o t[u + 1] /\ t[u] \in Seq(CharWidths) /\ t[u + 1] \in Seq(CharWidths)
        <4>1. u \in 1 .. L + 1 /\ u + 1 \in 1 .. L + 1
          BY <1>1, <2>2
        <4> QED BY <1>4, <2>6, <4>1
      <3>2. h[u + 1] = h[u] \o t[u + 1]
        <4>1. u + 1 \in 2 .. L + 1 /\ (u + 1) - 1 = u
          BY <1>1, <2>2
        <4> QED BY <1>3, <4>1
      <3>3. ~ (u < m)
        BY <1>1, <2>2, <2>6
      <3>4. CASE u = 1
        <4>1. h[u + 1] = g[u]
          BY <1>2, <1>3, <3>1, <3>2, <3>4
        <4> QED BY <2>2, <3>3, <4>1
      <3>5. CASE u # 1
        <4>1. u - 1 < m
          BY <1>1, <2>2, <2>6
        <4>2. h[u - 1] = g[u - 1] /\ g[u - 1] \in Seq(CharWidths)
          BY <1>2, <2>3, <2>4, <3>5, <4>1
        <4>3. h[u] = g[u - 1] \o t[u]
          BY <1>3, <2>3, <3>5, <4>2
        <4>4. g[u] = g[u - 1] \o (t[u] \o t[u + 1])
          BY <1>2, <2>3, <3>1, <3>5
        <4>5. (g[u - 1] \o t[u]) \o t[u + 1] = g[u - 1] \o (t[u] \o t[u + 1])
          <5>1. t[u] \in Seq(CharWidths) /\ t[u + 1] \in Seq(CharWidths)
            BY <3>1
          <5> QED BY <4>2, <5>1, Associates
        <4>6. h[u + 1] = g[u]
          BY <3>2, <4>3, <4>4, <4>5
        <4> QED BY <2>2, <3>3, <4>6
      <3> QED BY <3>4, <3>5
    <2>7. CASE u > m
      <3>1. u # 1 /\ u \in m + 1 .. L /\ u - 1 >= m /\ ~ (u < m)
        BY <1>1, <2>2, <2>7
      <3>2. h[u] = g[u - 1]
        BY <2>3, <2>4, <3>1
      <3>3. t[u + 1] = s[u]
        BY <3>1
      <3>4. h[u + 1] = h[u] \o t[u + 1] /\ g[u] = g[u - 1] \o s[u]
        BY <1>2, <1>3, <2>3, <3>1
      <3> QED BY <2>2, <3>1, <3>2, <3>3, <3>4
    <2> QED BY <1>1, <2>2, <2>5, <2>6, <2>7
  <1>6. L \in 1 .. L /\ L >= m
    BY <1>1
  <1>7. Same(L)
    BY <1>5, <1>6
  <1> QED BY <1>2, <1>3, <1>6, <1>7
-----------------------------------------------------------------------------
\* The two parts of a text that is broken, and the width of the first.
LEMMA PartsOf ==
    ASSUME NEW text \in Seq(CharWidths), NEW p \in 1 .. Len(text) - 1
    PROVE  LET a == SubSeq(text, 1, p)
               r == Area!Rest(text, p)
           IN  /\ a \in Seq(CharWidths) /\ r \in Seq(CharWidths)
               /\ Len(a) = p /\ a # <<>> /\ r # <<>> /\ a \o r = text
               /\ Head(a) = Head(text) /\ Head(r) = text[p + 1]
               /\ Area!Total(a) = Area!Upto(text, p)
  <1> DEFINE L == Len(text)
             a == SubSeq(text, 1, p)
             r == SubSeq(text, p + 1, L)
  <1>1. L \in Nat /\ p \in Nat /\ p <= L /\ p + 1 <= L /\ \A n \in 1 .. L : text[n] \in CharWidths
    BY LenProperties, ElementOfSeq
  <1>2. a \in Seq(CharWidths) /\ Len(a) = p /\ \A n \in 1 .. p : a[n] = text[n]
    <2>1. \A n \in 1 .. p : text[n] \in CharWidths /\ 1 + n - 1 = n
      BY <1>1
    <2>2. p - 1 + 1 = p /\ 1 <= p
      BY <1>1
    <2>3. /\ SubSeq(text, 1, p) \in Seq(CharWidths)
          /\ Len(SubSeq(text, 1, p)) = IF 1 <= p THEN p - 1 + 1 ELSE 0
          /\ \A n \in 1 .. p - 1 + 1 : SubSeq(text, 1, p)[n] = text[1 + n - 1]
      BY <1>1, <2>1, SubSeqProperties
    <2> QED BY <2>1, <2>2, <2>3
  <1>3. r \in Seq(CharWidths) /\ Len(r) = L - p /\ r[1] = text[p + 1]
    <2>1. \A n \in p + 1 .. L : text[n] \in CharWidths
      BY <1>1
    <2>2. p + 1 <= L /\ L - (p + 1) + 1 = L - p /\ 1 \in 1 .. L - (p + 1) + 1 /\ (p + 1) + 1 - 1 = p + 1
      BY <1>1
    <2>3. /\ SubSeq(text, p + 1, L) \in Seq(CharWidths)
          /\ Len(SubSeq(text, p + 1, L)) = IF p + 1 <= L THEN L - (p + 1) + 1 ELSE 0
          /\ \A n \in 1 .. L - (p + 1) + 1 : SubSeq(text, p + 1, L)[n] = text[(p + 1) + n - 1]
      BY <1>1, <2>1, SubSeqProperties
    <2> QED BY <2>2, <2>3
  <1>4. a \o r = text
    <2>1. 1 \in 1 .. L + 1 /\ p \in 1 - 1 .. L /\ L \in p .. L
      BY <1>1
    <2>2. SubSeq(text, 1, p) \o SubSeq(text, p + 1, L) = SubSeq(text, 1, L)
      BY <2>1, ConcatAdjacentSubSeq
    <2> QED BY <2>2, SubSeqFull
  <1> HIDE DEF a, r
  <1>5. a # <<>> /\ r # <<>>
    BY <1>1, <1>2, <1>3, EmptySeq
  <1>6. Area!Upto(a, p) = Area!Upto(text, p)
    BY <1>1, <1>2, UptoSame
  <1>7. Head(a) = Head(text) /\ Head(r) = text[p + 1]
    <2>1. Head(a) = a[1] /\ Head(text) = text[1] /\ Head(r) = r[1]
      OBVIOUS
    <2>2. 1 \in 1 .. p
      BY <1>1
    <2> QED BY <1>2, <1>3, <2>1, <2>2
  <1> QED BY <1>2, <1>3, <1>4, <1>5, <1>6, <1>7 DEF Area!Rest, Area!Total, a, r

\* The lines when one of them is broken in two.
Splice(s, m, a, r) == SubSeq(s, 1, m - 1) \o <<a, r>> \o SubSeq(s, m + 1, Len(s))

Spliced(t, s, m, a, r) ==
    /\ t \in Seq(Seq(CharWidths)) /\ Len(t) = Len(s) + 1
    /\ \A k \in 1 .. m - 1 : t[k] = s[k]
    /\ t[m] = a /\ t[m + 1] = r
    /\ \A k \in m + 1 .. Len(s) : t[k + 1] = s[k]

LEMMA SpliceIs ==
    ASSUME NEW s \in Seq(Seq(CharWidths)), NEW m \in 1 .. Len(s),
           NEW a \in Seq(CharWidths), NEW r \in Seq(CharWidths)
    PROVE  Spliced(Splice(s, m, a, r), s, m, a, r)
  <1> DEFINE L == Len(s)
             x == SubSeq(s, 1, m - 1)
             y == <<a, r>>
             z == SubSeq(s, m + 1, L)
             w == x \o y
             t == w \o z
  <1>1. L \in Nat /\ m \in Nat /\ m >= 1 /\ m <= L /\ \A n \in 1 .. L : s[n] \in Seq(CharWidths)
    BY LenProperties, ElementOfSeq
  <1>2. x \in Seq(Seq(CharWidths)) /\ Len(x) = m - 1 /\ \A n \in 1 .. m - 1 : x[n] = s[n]
    <2>1. \A n \in 1 .. m - 1 : s[n] \in Seq(CharWidths) /\ 1 + n - 1 = n
      BY <1>1
    <2>2. (m - 1) - 1 + 1 = m - 1 /\ (1 > m - 1 => m - 1 = 0)
      BY <1>1
    <2>3. /\ SubSeq(s, 1, m - 1) \in Seq(Seq(CharWidths))
          /\ Len(SubSeq(s, 1, m - 1)) = IF 1 <= m - 1 THEN (m - 1) - 1 + 1 ELSE 0
          /\ \A n \in 1 .. (m - 1) - 1 + 1 : SubSeq(s, 1, m - 1)[n] = s[1 + n - 1]
      BY <1>1, <2>1, SubSeqProperties
    <2>4. Len(x) = m - 1
      BY <1>1, <2>3
    <2> QED BY <2>1, <2>2, <2>3, <2>4
  <1>3. z \in Seq(Seq(CharWidths)) /\ Len(z) = L - m /\ \A n \in 1 .. L - m : z[n] = s[m + n]
    <2>1. \A n \in m + 1 .. L : s[n] \in Seq(CharWidths)
      BY <1>1
    <2>2. L - (m + 1) + 1 = L - m /\ \A n \in 1 .. L - m : (m + 1) + n - 1 = m + n
      BY <1>1
    <2>3. /\ SubSeq(s, m + 1, L) \in Seq(Seq(CharWidths))
          /\ Len(SubSeq(s, m + 1, L)) = IF m + 1 <= L THEN L - (m + 1) + 1 ELSE 0
          /\ \A n \in 1 .. L - (m + 1) + 1 : SubSeq(s, m + 1, L)[n] = s[(m + 1) + n - 1]
      BY <1>1, <2>1, SubSeqProperties
    <2>4. Len(z) = L - m
      BY <1>1, <2>3
    <2> QED BY <2>2, <2>3, <2>4
  <1>4. y \in Seq(Seq(CharWidths)) /\ Len(y) = 2 /\ y[1] = a /\ y[2] = r
    OBVIOUS
  <1> HIDE DEF x, y, z
  <1>5. w \in Seq(Seq(CharWidths)) /\ Len(w) = (m - 1) + 2
        /\ \A n \in 1 .. (m - 1) + 2 : w[n] = IF n <= m - 1 THEN x[n] ELSE y[n - (m - 1)]
    <2> DEFINE S == Seq(CharWidths)
    <2>1. x \in Seq(S) /\ y \in Seq(S)
      BY <1>2, <1>4
    <2> HIDE DEF S
    <2>2. x \o y \in Seq(S) /\ Len(x \o y) = Len(x) + Len(y)
          /\ \A n \in 1 .. Len(x) + Len(y) : (x \o y)[n] = IF n <= Len(x) THEN x[n] ELSE y[n - Len(x)]
      BY <2>1, ConcatProperties
    <2> QED BY <1>2, <1>4, <2>2 DEF S
  <1> HIDE DEF w
  <1>6. t \in Seq(Seq(CharWidths)) /\ Len(t) = ((m - 1) + 2) + (L - m)
        /\ \A n \in 1 .. ((m - 1) + 2) + (L - m) :
              t[n] = IF n <= (m - 1) + 2 THEN w[n] ELSE z[n - ((m - 1) + 2)]
    <2> DEFINE S == Seq(CharWidths)
    <2>1. w \in Seq(S) /\ z \in Seq(S)
      BY <1>3, <1>5
    <2> HIDE DEF S
    <2>2. w \o z \in Seq(S) /\ Len(w \o z) = Len(w) + Len(z)
          /\ \A n \in 1 .. Len(w) + Len(z) : (w \o z)[n] = IF n <= Len(w) THEN w[n] ELSE z[n - Len(w)]
      BY <2>1, ConcatProperties
    <2>3. Len(w) = (m - 1) + 2 /\ Len(z) = L - m
      BY <1>3, <1>5
    <2> QED BY <2>2, <2>3 DEF S
  <1> HIDE DEF t
  <1>7. Len(t) = L + 1
    BY <1>1, <1>6
  <1>8. ASSUME NEW k \in 1 .. m - 1 PROVE t[k] = s[k]
    <2>1. k \in 1 .. (m - 1) + 2 /\ k <= m - 1 /\ k <= (m - 1) + 2 /\ k \in 1 .. ((m - 1) + 2) + (L - m)
      BY <1>1
    <2>2. t[k] = w[k] /\ w[k] = x[k] /\ x[k] = s[k]
      BY <1>2, <1>5, <1>6, <2>1
    <2> QED BY <2>2
  <1>9. t[m] = a
    <2>1. m \in 1 .. (m - 1) + 2 /\ ~ (m <= m - 1) /\ m <= (m - 1) + 2 /\ m \in 1 .. ((m - 1) + 2) + (L - m)
          /\ m - (m - 1) = 1
      BY <1>1
    <2>2. t[m] = w[m] /\ w[m] = y[m - (m - 1)]
      BY <1>5, <1>6, <2>1
    <2> QED BY <1>4, <2>1, <2>2
  <1>10. t[m + 1] = r
    <2>1. m + 1 \in 1 .. (m - 1) + 2 /\ ~ (m + 1 <= m - 1) /\ m + 1 <= (m - 1) + 2
          /\ m + 1 \in 1 .. ((m - 1) + 2) + (L - m) /\ (m + 1) - (m - 1) = 2
      BY <1>1
    <2>2. t[m + 1] = w[m + 1] /\ w[m + 1] = y[(m + 1) - (m - 1)]
      BY <1>5, <1>6, <2>1
    <2> QED BY <1>4, <2>1, <2>2
  <1>11. ASSUME NEW k \in m + 1 .. L PROVE t[k + 1] = s[k]
    <2>1. ~ (k + 1 <= (m - 1) + 2) /\ k + 1 \in 1 .. ((m - 1) + 2) + (L - m)
          /\ (k + 1) - ((m - 1) + 2) = k - m /\ k - m \in 1 .. L - m /\ m + (k - m) = k
      BY <1>1
    <2>2. t[k + 1] = z[(k + 1) - ((m - 1) + 2)] /\ z[k - m] = s[m + (k - m)]
      BY <1>3, <1>6, <2>1
    <2> QED BY <2>1, <2>2
  <1> QED BY <1>6, <1>7, <1>8, <1>9, <1>10, <1>11 DEF Splice, Spliced, t, w, x, y, z

\* A line that reaches into the area is drawn.
LEMMA NoneIsMissing ==
    ASSUME NEW k \in Nat, NEW o \in Int, NEW h \in Nat, Area!ReachesInto(k, o, h)
    PROVE  Area!Drawn(k, o, h)
  <1> DEFINE q == LineSize
             e == h - o + q * 2
             s == -(o + h)
             n == k * q
  <1>1. q \in Nat /\ q > 0 /\ n \in Nat
    <2>1. q \in Nat /\ q > 0
      BY BreakConstants
    <2> QED BY <2>1
  <1> HIDE DEF n
  <1>2. (n + o) - q < h /\ n + o + q > -h
    BY DEF Area!ReachesInto, n
  <1>3. e >= 0 /\ e \in Nat /\ e > n + q /\ s \in Int /\ s < n + q
    <2> HIDE DEF q
    <2> QED BY <1>1, <1>2
  <1>4. n = k * q /\ (k + 1) * q = n + q
    <2> HIDE DEF q
    <2> QED BY <1>1 DEF n
  <1> HIDE DEF q, e, s
  <1>5. Area!Cut(e, q) = e \div q
    BY <1>3 DEF Area!Cut
  <1>6. e \div q > k
    <2> DEFINE d == e \div q
               m == e % q
    <2>1. d \in Nat /\ m \in 0 .. q - 1 /\ e = q * d + m
      BY <1>1, <1>3, Division
    <2> HIDE DEF d, m
    <2>2. ASSUME d <= k PROVE FALSE
      <3>1. PICK c \in Nat : k = d + c
        <4>1. k - d \in Nat /\ k = d + (k - d)
          BY <2>1, <2>2
        <4> QED BY <4>1
      <3>2. k * q = d * q + c * q /\ c * q \in Nat /\ q * d = d * q
        BY <1>1, <2>1, <3>1
      <3> QED BY <1>1, <1>3, <1>4, <2>1, <3>2
    <2> QED BY <2>1, <2>2 DEF d
  <1>7. Area!StartLine(o, h) <= k
    <2>1. CASE s >= 0
      <3>1. Area!Cut(s, q) = s \div q
        BY <2>1 DEF Area!Cut
      <3> DEFINE d == s \div q
                 m == s % q
      <3>2. d \in Nat /\ m \in 0 .. q - 1 /\ s = q * d + m
        <4>1. s \in Nat
          BY <1>3, <2>1
        <4> QED BY <1>1, <4>1, Division
      <3> HIDE DEF d, m
      <3>3. ASSUME d > k PROVE FALSE
        <4>1. PICK c \in Nat : d = k + 1 + c
          <5>1. d - (k + 1) \in Nat /\ d = k + 1 + (d - (k + 1))
            BY <3>2, <3>3
          <5> QED BY <5>1
        <4>2. d * q = k * q + q + c * q /\ c * q \in Nat /\ q * d = d * q
          BY <1>1, <3>2, <4>1
        <4> QED BY <1>1, <1>3, <1>4, <3>2, <4>2
      <3>4. d <= k
        BY <3>2, <3>3
      <3> QED BY <3>1, <3>2, <3>4 DEF Area!StartLine, d, q, s
    <2>2. CASE s < 0
      <3>1. Area!Cut(s, q) = -((-s) \div q)
        BY <1>3, <2>2 DEF Area!Cut
      <3>2. (-s) \div q \in Nat
        <4>1. -s \in Nat
          BY <1>3, <2>2
        <4> QED BY <1>1, <4>1, Division
      <3> DEFINE d == (-s) \div q
      <3> HIDE DEF d
      <3>3. -d <= k /\ (-d < 0 \/ -d <= k)
        BY <3>2 DEF d
      <3> QED BY <3>1, <3>2, <3>3 DEF Area!StartLine, d, q, s
    <2> QED BY <1>3, <2>1, <2>2
  <1>8. Area!EndLine(o, h) = e \div q
    BY <1>5 DEF Area!EndLine, e, q
  <1> QED BY <1>6, <1>7, <1>8 DEF Area!Drawn
-----------------------------------------------------------------------------
\* A line of a broken paragraph fits, or is one character, or fits but for its last.
Alone(w, l) == Len(l) <= 1 \/ Area!Total(l) <= w
Fits(w, l) == Alone(w, l) \/ Alone(w, Area!Front(l))

\* What is known while a text is broken: of the lines behind the one that is being broken
\* that they fit, and of one paragraph that its last line is the one that is being broken,
\* and the lines before it are full.
BreaksInv ==
    /\ row \in AreaWidths /\ pos \in Nat
    /\ given \in Seq(Seq(CharWidths)) /\ Len(given) > 0
    /\ lines \in Seq(Seq(CharWidths)) /\ Len(lines) > 0
    /\ breaksI \in Nat /\ breaksJ \in Nat
    /\ breaksState \in {"break", "next", "done"}
    /\ IF breaksState = "done" THEN breaksI = 0
       ELSE breaksI > 0 /\ breaksI + breaksJ <= Len(lines)
    /\ Area!FlattenSeq(lines) = Area!FlattenSeq(given)
    /\ \A l \in 1 .. Len(lines) : lines[l] = <<>> => <<>> \in Area!ToSet(given)
    /\ \A l \in 1 .. Len(lines) :
          l >= breaksI /\ (breaksState = "break" => l # breaksI + breaksJ) => Fits(row, lines[l])
    /\ Len(given) = 1 =>
          /\ breaksState # "done" => breaksI = 1 /\ breaksI + breaksJ = Len(lines)
          /\ \A l \in 1 .. Len(lines) - 1 :
                Area!Total(lines[l]) + Head(lines[l + 1]) > row

LEMMA BreaksStart == ASSUME Area!Init PROVE BreaksInv
  <1>1. PICK n \in 1 .. MaxParagraphs : given \in [1 .. n -> Area!Paragraph]
    BY DEF Area!Init
  <1>2. MaxParagraphs \in Nat /\ MaxChars \in Nat
    BY AreaAssumption DEF Area!LineBreaksAssumption
  <1>3. \A p \in Area!Paragraph : p \in Seq(CharWidths)
    <2> TAKE p \in Area!Paragraph
    <2>1. PICK c \in 0 .. MaxChars : p \in [1 .. c -> CharWidths]
      BY DEF Area!Paragraph
    <2>2. c \in Nat
      BY <1>2
    <2> QED BY <2>1, <2>2
  <1>4. given \in Seq(Seq(CharWidths)) /\ Len(given) = n
    <2>1. n \in Nat
      BY <1>2
    <2>2. given \in [1 .. n -> Seq(CharWidths)]
      <3> HIDE <1>2
      <3> QED BY <1>1, <1>3
    <2> QED BY <2>1, <2>2
  <1>5. n \in Nat /\ n > 0
    BY <1>2
  <1>6. row \in AreaWidths /\ pos = row \div Wide /\ lines = given /\ breaksI = Len(given)
        /\ breaksJ = 0 /\ breaksState = "break"
    BY DEF Area!Init
  <1>7. pos \in Nat
    <2>1. row \in Nat /\ Wide \in Nat \ {0}
      BY <1>6, BreakConstants
    <2> QED BY <1>6, <2>1, Division
  <1>8. \A l \in 1 .. Len(lines) : lines[l] = <<>> => <<>> \in Area!ToSet(given)
    <2>1. DOMAIN given = 1 .. Len(given)
      BY <1>4, LenProperties
    <2> QED BY <1>6, <2>1 DEF Area!ToSet
  <1>9. \A l \in 1 .. Len(lines) : ~ (l >= breaksI /\ l # breaksI + breaksJ)
    BY <1>4, <1>5, <1>6
  <1>10. Len(given) = 1 => breaksI = 1 /\ breaksI + breaksJ = Len(lines) /\ 1 .. Len(lines) - 1 = {}
    <2>1. \A x : x = 1 => 1 + 0 = x /\ 1 .. x - 1 = {}
      OBVIOUS
    <2> QED BY <1>6, <2>1
  <1>11. breaksI \in Nat /\ breaksJ \in Nat /\ breaksI > 0 /\ breaksI + breaksJ <= Len(lines) /\ Len(lines) > 0
    BY <1>4, <1>5, <1>6
  <1> QED BY <1>4, <1>5, <1>6, <1>7, <1>8, <1>9, <1>10, <1>11 DEF BreaksInv

\* A line at whose end nothing is broken fits but for its last character.
LEMMA EndFits ==
    ASSUME NEW text \in Seq(CharWidths), row \in AreaWidths,
           Len(text) > 0 => Area!Upto(text, Len(text) - 1) <= row
    PROVE  Fits(row, text)
  <1> DEFINE L == Len(text)
             f == SubSeq(text, 1, L - 1)
  <1>1. L \in Nat /\ \A n \in 1 .. L : text[n] \in CharWidths
    BY LenProperties, ElementOfSeq
  <1>2. CASE L <= 1
    BY <1>2 DEF Fits, Alone
  <1>3. CASE L > 1
    <2>1. f \in Seq(CharWidths) /\ Len(f) = L - 1 /\ \A n \in 1 .. L - 1 : f[n] = text[n]
      <3>1. \A n \in 1 .. L - 1 : text[n] \in CharWidths /\ 1 + n - 1 = n
        BY <1>1
      <3>2. (L - 1) - 1 + 1 = L - 1 /\ 1 <= L - 1
        BY <1>1, <1>3
      <3>3. /\ SubSeq(text, 1, L - 1) \in Seq(CharWidths)
            /\ Len(SubSeq(text, 1, L - 1)) = IF 1 <= L - 1 THEN (L - 1) - 1 + 1 ELSE 0
            /\ \A n \in 1 .. (L - 1) - 1 + 1 : SubSeq(text, 1, L - 1)[n] = text[1 + n - 1]
        BY <1>1, <3>1, SubSeqProperties
      <3> QED BY <3>1, <3>2, <3>3
    <2> HIDE DEF f
    <2>2. Area!Upto(f, L - 1) = Area!Upto(text, L - 1)
      <3>1. L - 1 \in Nat /\ L - 1 <= Len(f) /\ L - 1 <= Len(text)
        BY <1>1, <1>3, <2>1
      <3> HIDE DEF L
      <3> QED BY <2>1, <3>1, UptoSame
    <2>3. Area!Total(f) <= row
      BY <1>3, <2>1, <2>2 DEF Area!Total
    <2>4. f = Area!Front(text)
      BY DEF f, Area!Front
    <2> QED BY <2>3, <2>4 DEF Fits, Alone
  <1> QED BY <1>1, <1>2, <1>3

\* A line that is broken is what BreaksInv says, and so is what is left of it.
LEMMA BrokenLine ==
    ASSUME NEW text \in Seq(CharWidths), text # <<>>, row \in AreaWidths, pos \in Nat,
           NEW b, b = Area!BreakOf(text), b < Len(text),
           NEW p, p = Area!OneAtLeast(b)
    PROVE  /\ p \in 1 .. Len(text) - 1
           /\ Fits(row, SubSeq(text, 1, p))
           /\ Area!Total(SubSeq(text, 1, p)) + Head(Area!Rest(text, p)) > row
  <1> DEFINE L == Len(text)
             a == SubSeq(text, 1, p)
  <1>1. L \in Nat /\ L > 0 /\ \A n \in 1 .. L : text[n] \in CharWidths
    BY LenProperties, ElementOfSeq, EmptySeq
  <1>2. b \in 0 .. L /\ b + 1 < L /\ Area!Upto(text, b) <= row /\ Area!Upto(text, b + 1) > row
    BY <1>1, BreakIs
  <1>3. row \in Nat /\ b \in Nat
    BY <1>1, <1>2, BreakConstants
  <1>4. p \in 1 .. L - 1 /\ p + 1 \in 1 .. L /\ p \in 0 .. L /\ (b # 0 => p = b) /\ (b = 0 => p = 1)
    BY <1>1, <1>2, <1>3 DEF Area!OneAtLeast
  <1>5. Len(a) = p /\ Area!Total(a) = Area!Upto(text, p) /\ Head(Area!Rest(text, p)) = text[p + 1]
    BY <1>4, PartsOf
  <1> HIDE DEF a
  <1>6. Fits(row, a)
    <2>1. CASE b = 0
      BY <1>4, <1>5, <2>1 DEF Fits, Alone
    <2>2. CASE b # 0
      BY <1>2, <1>4, <1>5, <2>2 DEF Fits, Alone
    <2> QED BY <2>1, <2>2
  <1>7. Area!Upto(text, p + 1) = Area!Upto(text, p) + text[p + 1]
        /\ Area!Upto(text, p) \in Nat /\ Area!Upto(text, p + 1) \in Nat
    <2>1. (p + 1) - 1 = p /\ p + 1 \in 0 .. L
      BY <1>1, <1>4
    <2> HIDE DEF L
    <2>2. Area!Upto(text, p + 1) = Area!Upto(text, (p + 1) - 1) + text[p + 1]
      BY <1>4, UptoIs DEF L
    <2> QED BY <1>4, <2>1, <2>2, UptoIs DEF L
  <1>8. Area!Upto(text, p + 1) > row
    <2>1. CASE b # 0
      BY <1>2, <1>4, <2>1
    <2>2. CASE b = 0
      <3>1. Area!Upto(text, 1) > row /\ p = 1 /\ 1 \in 0 .. L /\ text[2] \in CharWidths
        BY <1>1, <1>2, <1>4, <2>2
      <3>2. text[2] \in Nat
        BY <3>1, BreakConstants
      <3>3. Area!Upto(text, 2) = Area!Upto(text, 1) + text[2] /\ p + 1 = 2
        BY <1>7, <3>1
      <3> QED BY <1>3, <1>7, <3>1, <3>2, <3>3
    <2> QED BY <2>1, <2>2
  <1> QED BY <1>4, <1>5, <1>6, <1>7, <1>8 DEF a

LEMMA BreakKeeps == ASSUME BreaksInv, Area!Break PROVE BreaksInv'
  <1> DEFINE m == breaksI + breaksJ
             text == lines[m]
             L == Len(text)
             b == Area!BreakOf(text)
             N == Len(lines)
  <1>1. breaksState = "break" /\ row' = row /\ given' = given /\ breaksI' = breaksI
    BY DEF Area!Break
  <1>2. /\ row \in AreaWidths /\ pos \in Nat /\ lines \in Seq(Seq(CharWidths)) /\ N \in Nat
        /\ breaksI \in Nat /\ breaksJ \in Nat /\ breaksI > 0 /\ m \in 1 .. N
    BY <1>1, LenProperties DEF BreaksInv
  <1>3. text \in Seq(CharWidths) /\ L \in Nat /\ (text # <<>> => L > 0)
    <2>1. text \in Seq(CharWidths)
      BY <1>2, ElementOfSeq
    <2> HIDE DEF text
    <2> QED BY <2>1, LenProperties, EmptySeq
  <1>4. text # <<>> => b \in 0 .. L /\ (b = L => Area!Upto(text, L - 1) <= row)
    <2> HIDE DEF text
    <2> QED BY <1>2, <1>3, BreakIs
  <1>5. CASE text = <<>> \/ b >= L
    <2>1. pos' = (IF text = <<>> THEN pos ELSE b) /\ breaksState' = "next" /\ lines' = lines
          /\ breaksJ' = breaksJ
      BY <1>1, <1>5 DEF Area!Break
    <2>2. Fits(row, text)
      <3>1. CASE text = <<>>
        <4>1. L <= 1
          BY <3>1
        <4> QED BY <4>1 DEF Fits, Alone
      <3>2. CASE text # <<>>
        <4>1. b = L /\ Area!Upto(text, L - 1) <= row
          BY <1>3, <1>4, <1>5, <3>2
        <4> HIDE DEF text, b
        <4> QED BY <1>2, <1>3, <4>1, EndFits
      <3> QED BY <3>1, <3>2
    <2>3. pos' \in Nat
      BY <1>2, <1>3, <1>4, <2>1
    <2>4. \A l \in 1 .. N : l >= breaksI => Fits(row, lines[l])
      BY <1>1, <2>2 DEF BreaksInv
    <2>5. (\A l \in 1 .. Len(lines) :
              l >= breaksI /\ (breaksState = "break" => l # breaksI + breaksJ) => Fits(row, lines[l]))'
      <3> HIDE DEF text, b, m
      <3> QED BY <1>1, <2>1, <2>4
    <2> HIDE DEF b, text
    <2>6. breaksJ' \in Nat /\ breaksI' > 0 /\ breaksI' + breaksJ' <= Len(lines') /\ breaksI' \in Nat
      BY <1>1, <1>2, <2>1
    <2> HIDE DEF m
    <2>7. (Len(given) = 1 =>
            /\ breaksState # "done" => breaksI = 1 /\ breaksI + breaksJ = Len(lines)
            /\ \A l \in 1 .. Len(lines) - 1 :
                  Area!Total(lines[l]) + Head(lines[l + 1]) > row)'
      BY <1>1, <2>1 DEF BreaksInv
    <2>8. breaksState' = "next" /\ row' \in AreaWidths
      BY <1>1, <1>2, <2>1
    <2>9. given' \in Seq(Seq(CharWidths)) /\ Len(given') > 0 /\ lines' \in Seq(Seq(CharWidths)) /\ Len(lines') > 0
          /\ Area!FlattenSeq(lines') = Area!FlattenSeq(given')
          /\ \A l \in 1 .. Len(lines') : lines'[l] = <<>> => <<>> \in Area!ToSet(given')
      BY <1>1, <2>1 DEF BreaksInv
    <2> QED
      BY <2>3, <2>5, <2>6, <2>7, <2>8, <2>9 DEF BreaksInv
  <1>6. CASE ~ (text = <<>> \/ b >= L)
    <2> DEFINE p == Area!OneAtLeast(b)
               a == SubSeq(text, 1, p)
               r == Area!Rest(text, p)
               t == Splice(lines, m, a, r)
    <2>1. pos' = p /\ breaksJ' = breaksJ + 1 /\ breaksState' = "break" /\ lines' = t
      <3>1. (IF text = <<>> THEN 0 ELSE Area!BreakOf(text)) = b
        BY <1>6
      <3>2. pos' = p /\ breaksJ' = breaksJ + 1 /\ breaksState' = "break"
        BY <1>1, <1>6, <3>1 DEF Area!Break
      <3>3. lines' = SubSeq(lines, 1, m - 1) \o <<SubSeq(text, 1, pos'), Area!Rest(text, pos')>>
                       \o SubSeq(lines, m + 1, N)
        <4>1. lines' = SubSeq(lines, 1, breaksI + breaksJ - 1)
                         \o <<SubSeq(text, 1, pos'), Area!Rest(text, pos')>>
                         \o SubSeq(lines, breaksI + breaksJ + 1, N)
          BY <1>1, <1>6, <3>1 DEF Area!Break
        <4>2. breaksI + breaksJ - 1 = m - 1
          BY <1>2
        <4> QED BY <4>1, <4>2
      <3>4. <<SubSeq(text, 1, pos'), Area!Rest(text, pos')>> = <<a, r>>
        BY <3>2
      <3> HIDE DEF a, r, p, b, text
      <3> QED BY <3>2, <3>3, <3>4 DEF Splice
    <2>2. text # <<>> /\ b < L
      BY <1>3, <1>4, <1>6
    <2>3. p \in 1 .. L - 1 /\ Fits(row, a) /\ Area!Total(a) + Head(r) > row
      <3> HIDE DEF text, b, p
      <3> QED BY <1>2, <1>3, <2>2, BrokenLine DEF b, p
    <2>4. /\ a \in Seq(CharWidths) /\ r \in Seq(CharWidths) /\ a # <<>> /\ r # <<>>
          /\ a \o r = text /\ Head(a) = Head(text)
      <3> HIDE DEF text, p
      <3> QED BY <1>3, <2>3, PartsOf
    <2> HIDE DEF a, r, p, b
    <2>5. /\ t \in Seq(Seq(CharWidths)) /\ Len(t) = N + 1
          /\ \A k \in 1 .. m - 1 : t[k] = lines[k]
          /\ t[m] = a /\ t[m + 1] = r
          /\ \A k \in m + 1 .. N : t[k + 1] = lines[k]
      <3>1. Spliced(t, lines, m, a, r)
        <4> HIDE DEF m, text
        <4> QED BY <1>2, <2>4, SpliceIs
      <3> HIDE DEF t, m
      <3> QED BY <3>1 DEF Spliced
    <2> HIDE DEF t
    <2>6. Area!FlattenSeq(t) = Area!FlattenSeq(lines)
      <3> HIDE DEF m
      <3> QED BY <1>2, <2>4, <2>5, SplitsFlat DEF text
    <2>7. \A l \in 1 .. N + 1 : \/ l \in 1 .. m - 1 \/ l = m \/ l = m + 1
                               \/ (l - 1 \in m + 1 .. N /\ (l - 1) + 1 = l)
      <3> HIDE DEF m
      <3> QED BY <1>2
    <2>8. ASSUME NEW l \in 1 .. N + 1, t[l] = <<>> PROVE <<>> \in Area!ToSet(given)
      <3>0. \A k \in 1 .. N : lines[k] = <<>> => <<>> \in Area!ToSet(given)
        BY DEF BreaksInv
      <3>1. CASE l \in 1 .. m - 1
        <4>1. l \in 1 .. N
          BY <1>2, <3>1
        <4> QED BY <2>5, <2>8, <3>0, <3>1, <4>1
      <3>2. CASE l - 1 \in m + 1 .. N /\ (l - 1) + 1 = l
        <4>1. l - 1 \in 1 .. N
          BY <1>2, <3>2
        <4>2. t[l] = lines[l - 1]
          BY <2>5, <3>2
        <4> QED BY <2>8, <3>0, <4>1, <4>2
      <3> QED BY <2>4, <2>5, <2>7, <2>8, <3>1, <3>2
    <2>9. ASSUME NEW l \in 1 .. N + 1, l >= breaksI, l # m + 1 PROVE Fits(row, t[l])
      <3>0. \A k \in 1 .. N : k >= breaksI /\ k # m => Fits(row, lines[k])
        BY <1>1 DEF BreaksInv
      <3>1. CASE l \in 1 .. m - 1
        <4>1. l \in 1 .. N /\ l # m
          BY <1>2, <3>1
        <4> QED BY <2>5, <2>9, <3>0, <3>1, <4>1
      <3>2. CASE l - 1 \in m + 1 .. N /\ (l - 1) + 1 = l
        <4>1. l - 1 \in 1 .. N /\ l - 1 # m /\ l - 1 >= breaksI
          BY <1>2, <3>2
        <4>2. t[l] = lines[l - 1]
          BY <2>5, <3>2
        <4> QED BY <3>0, <4>1, <4>2
      <3> QED BY <2>3, <2>5, <2>7, <2>9, <3>1, <3>2
    <2>10. Len(given) = 1 => breaksI = 1 /\ m = N
      BY <1>1 DEF BreaksInv
    <2>11. ASSUME Len(given) = 1, NEW l \in 1 .. (N + 1) - 1
           PROVE  Area!Total(t[l]) + Head(t[l + 1]) > row
      <3>0. \A k \in 1 .. N - 1 : Area!Total(lines[k]) + Head(lines[k + 1]) > row
        BY <2>11 DEF BreaksInv
      <3>1. CASE l = m
        BY <2>3, <2>5, <3>1
      <3>2. CASE l # m
        <4>1. l \in 1 .. N - 1 /\ l \in 1 .. m - 1 /\ (l + 1 \in 1 .. m - 1 \/ l + 1 = m)
          <5> HIDE DEF m
          <5> QED BY <1>2, <2>10, <2>11, <3>2
        <4>2. Head(t[l + 1]) = Head(lines[l + 1])
          BY <2>4, <2>5, <4>1
        <4> QED BY <2>5, <3>0, <4>1, <4>2
      <3> QED BY <3>1, <3>2
    <2>12. /\ breaksI' \in Nat /\ breaksJ' \in Nat /\ breaksI' > 0
           /\ breaksI' + breaksJ' = m + 1 /\ m + 1 <= Len(lines') /\ Len(lines') = N + 1 /\ Len(lines') > 0
           /\ pos' \in Nat
      BY <1>1, <1>2, <1>3, <2>1, <2>3, <2>5
    <2>13. Area!FlattenSeq(lines)' = Area!FlattenSeq(given)'
      BY <1>1, <2>1, <2>6 DEF BreaksInv
    <2>14. (\A l \in 1 .. Len(lines) : lines[l] = <<>> => <<>> \in Area!ToSet(given))'
      BY <1>1, <2>1, <2>8, <2>12
    <2>15. (\A l \in 1 .. Len(lines) :
              l >= breaksI /\ (breaksState = "break" => l # breaksI + breaksJ) => Fits(row, lines[l]))'
      <3>1. \A l \in 1 .. N + 1 : l >= breaksI /\ l # m + 1 => Fits(row, t[l])
        BY <2>9
      <3> HIDE DEF m
      <3> QED BY <1>1, <2>1, <2>12, <3>1
    <2>16. Len(given') = 1 => \A l \in 1 .. Len(lines') - 1 :
                                 (Area!Total(lines[l]) + Head(lines[l + 1]) > row)'
      <3>1. Len(given) = 1 => \A l \in 1 .. (N + 1) - 1 : Area!Total(t[l]) + Head(t[l + 1]) > row
        BY <2>11
      <3> HIDE DEF m
      <3> QED BY <1>1, <2>1, <2>12, <3>1
    <2>17. Len(given') = 1 => breaksI' = 1 /\ breaksI' + breaksJ' = Len(lines')
      <3>1. Len(given') = 1 => breaksI = 1 /\ m = N
        BY <1>1, <2>10
      <3> HIDE DEF m
      <3> QED BY <1>1, <2>12, <3>1
    <2> QED
      BY <1>1, <1>2, <2>1, <2>5, <2>12, <2>13, <2>14, <2>15, <2>16, <2>17 DEF BreaksInv
  <1> QED BY <1>5, <1>6

LEMMA NextKeeps == ASSUME BreaksInv, Area!NextParagraph PROVE BreaksInv'
  <1>1. breaksState = "next" /\ breaksJ' = 0 /\ breaksI' = breaksI - 1
        /\ breaksState' = (IF breaksI' = 0 THEN "done" ELSE "break")
        /\ row' = row /\ given' = given /\ lines' = lines /\ pos' = pos
    BY DEF Area!NextParagraph, Area!NextIndex
  <1>2. breaksI \in Nat /\ breaksI > 0 /\ breaksJ \in Nat /\ Len(lines) \in Nat
        /\ breaksI + breaksJ <= Len(lines)
    BY <1>1, LenProperties DEF BreaksInv
  <1>3. breaksI' \in Nat /\ breaksJ' \in Nat /\ (breaksI' # 0 => breaksI' > 0)
        /\ breaksI' + breaksJ' <= Len(lines)
    BY <1>1, <1>2
  <1>4. breaksState' \in {"break", "next", "done"}
        /\ (breaksState' = "done" => breaksI' = 0) /\ (breaksState' # "done" => breaksI' # 0)
    BY <1>1
  <1>5. (\A l \in 1 .. Len(lines) :
            l >= breaksI /\ (breaksState = "break" => l # breaksI + breaksJ) => Fits(row, lines[l]))'
    <2>1. \A l \in 1 .. Len(lines) : l >= breaksI => Fits(row, lines[l])
      BY <1>1 DEF BreaksInv
    <2>2. \A l \in 1 .. Len(lines) :
              l >= breaksI' /\ (breaksState' = "break" => l # breaksI' + breaksJ') => l >= breaksI
      BY <1>1, <1>2, <1>3
    <2> QED BY <1>1, <2>1, <2>2
  <1>6. Len(given') = 1 =>
            /\ breaksState' # "done" => breaksI' = 1 /\ breaksI' + breaksJ' = Len(lines')
            /\ \A l \in 1 .. Len(lines') - 1 : (Area!Total(lines[l]) + Head(lines[l + 1]) > row)'
    <2>1. Len(given) = 1 => breaksI = 1 /\ \A l \in 1 .. Len(lines) - 1 :
                                              Area!Total(lines[l]) + Head(lines[l + 1]) > row
      BY <1>1 DEF BreaksInv
    <2>2. Len(given) = 1 => breaksI' = 0
      BY <1>1, <2>1
    <2> QED BY <1>1, <1>4, <2>1, <2>2
  <1>7. /\ row' \in AreaWidths /\ pos' \in Nat
        /\ given' \in Seq(Seq(CharWidths)) /\ Len(given') > 0
        /\ lines' \in Seq(Seq(CharWidths)) /\ Len(lines') > 0
        /\ Area!FlattenSeq(lines') = Area!FlattenSeq(given')
        /\ \A l \in 1 .. Len(lines') : lines'[l] = <<>> => <<>> \in Area!ToSet(given')
    BY <1>1 DEF BreaksInv
  <1> QED BY <1>1, <1>3, <1>4, <1>5, <1>6, <1>7 DEF BreaksInv

LEMMA BreaksStay == ASSUME BreaksInv, UNCHANGED breaksVars PROVE BreaksInv'
  <1>1. row' = row /\ given' = given /\ lines' = lines /\ breaksI' = breaksI /\ breaksJ' = breaksJ
        /\ pos' = pos /\ breaksState' = breaksState
    BY DEF breaksVars
  <1> QED BY <1>1 DEF BreaksInv

LEMMA BreaksStep == ASSUME BreaksInv, Area!Next PROVE BreaksInv'
  <1>1. CASE breaksState = "done" /\ UNCHANGED <<row, given, lines, breaksI, breaksJ, pos, breaksState>>
    BY <1>1, BreaksStay DEF breaksVars
  <1> QED BY <1>1, BreakKeeps, NextKeeps DEF Area!Next, Area!vars

LEMMA BreaksAreRight ==
    ASSUME BreaksInv
    PROVE  Area!NothingLost /\ Area!LinesFit /\ Area!LinesFull /\ Area!NoneMissing
  <1>1. lines \in Seq(Seq(CharWidths)) /\ Len(lines) \in Nat /\ DOMAIN lines = 1 .. Len(lines)
    BY LenProperties DEF BreaksInv
  <1>2. Area!NothingLost
    BY <1>1 DEF BreaksInv, Area!NothingLost
  <1>3. Area!LinesFit
    <2> SUFFICES ASSUME breaksState = "done", NEW l \in Area!ToSet(lines)
                 PROVE  Area!LineFits(l) \/ Area!LineFits(Area!Front(l))
      BY DEF Area!LinesFit
    <2>1. PICK k \in 1 .. Len(lines) : l = lines[k]
      BY <1>1 DEF Area!ToSet
    <2>2. k >= breaksI
      <3>1. breaksI = 0
        BY DEF BreaksInv
      <3> QED BY <1>1, <3>1
    <2>3. Fits(row, l)
      BY <2>1, <2>2 DEF BreaksInv
    <2> QED BY <2>3 DEF Fits, Alone, Area!LineFits
  <1>4. Area!LinesFull
    BY DEF BreaksInv, Area!LinesFull
  <1>5. Area!NoneMissing
    <2> SUFFICES ASSUME NEW k \in 0 .. Len(lines) - 1, NEW o \in Offsets, NEW h \in Halves,
                        Area!ReachesInto(k, o, h)
                 PROVE  Area!Drawn(k, o, h)
      BY DEF Area!NoneMissing
    <2>1. k \in Nat
      BY <1>1
    <2>2. o \in Int /\ h \in Nat
      BY BreakConstants
    <2> QED BY <2>1, <2>2, NoneIsMissing
  <1> QED BY <1>2, <1>3, <1>4, <1>5

\* A label shows what it is set to, and a text that is broken into the lines of an area loses
\* no character, fits and is shown as far as it reaches into the area, whatever the text, the
\* widths of its characters and the area are (phina.js:10298, 11754, 11736).
THEOREM TextAlwaysShown == Spec => []TextIsShown
  <1> DEFINE Inv == /\ part = "labels" => LabelInv
                    /\ part = "breaks" => BreaksInv
  <1>1. Init => Inv
    BY LabelStarts, BreaksStart DEF Init
  <1>2. Inv /\ [Next]_vars => Inv'
    <2>1. ASSUME Inv, Next PROVE Inv'
      <3>1. part = "labels" => LabelInv'
        BY <2>1, LabelSteps DEF Next
      <3>2. part = "breaks" => BreaksInv'
        BY <2>1, BreaksStep DEF Next
      <3>3. part' = part
        BY <2>1 DEF Next
      <3> QED BY <3>1, <3>2, <3>3
    <2>2. ASSUME Inv, UNCHANGED vars PROVE Inv'
      <3>1. part' = part /\ UNCHANGED labelsVars /\ UNCHANGED breaksVars
        BY <2>2 DEF vars
      <3> QED BY <2>2, <3>1, LabelStays, BreaksStay
    <2> QED  BY <2>1, <2>2
  <1>3. Inv => TextIsShown
    BY LabelCentres, BreaksAreRight DEF LabelInv, TextIsShown
  <1> QED  BY <1>1, <1>2, <1>3, PTL DEF Spec

-----------------------------------------------------------------------------
(* Scenes *)

\* What is proved of the scenes, of these.
StackFacts == INSTANCE ScenesProofs WITH
    List <- SceneList, Eager <- {}, Debug <- FALSE, MaxDepth <- SceneDepth,
    scene <- scenesScene, app <- scenesApp,
    suspended <- scenesSuspended, stack <- scenesStack, sceneIndex <- scenesSceneIndex,
    todo <- scenesTodo, astray <- scenesAstray
PanelFacts == INSTANCE ScenesProofs WITH
    List <- SceneList, Eager <- {}, Debug <- TRUE, MaxDepth <- PanelDepth,
    scene <- panelScene, app <- panelApp,
    suspended <- panelSuspended, stack <- panelStack, sceneIndex <- panelSceneIndex,
    todo <- panelTodo, astray <- panelAstray

\* The module that proves the theorems about scenes means the same by each of its names.
LEMMA StackSameStart == Stack!Init <=> StackFacts!Init
  BY DEF Stack!Init, StackFacts!Init, Stack!Id, StackFacts!Id, Stack!Blank, StackFacts!Blank

LEMMA StackSameStep == (Stack!Next <=> StackFacts!Next) /\ Stack!vars = StackFacts!vars
  BY DEF Stack!Next, StackFacts!Next,
        Stack!vars, Stack!Label, Stack!Id, Stack!Blank, Stack!Depth, Stack!Current,
        Stack!Is, Stack!Fresh, Stack!IndexOf, Stack!Content, Stack!Call, Stack!Enter,
        Stack!SetIndex, Stack!PushScene, Stack!TellBelow, Stack!PopScene, Stack!LosesApp,
        Stack!ReplaceScene, Stack!MayExit, Stack!Exit, Stack!LabelToIndex, Stack!GotoScene,
        Stack!Following, Stack!OnNext, Stack!Step, Stack!EnterManager, Stack!EnterScene,
        Stack!SetsIndex, Stack!ResumeManager, Stack!NextScene, Stack!ResumeScene,
        Stack!Idle, Stack!Loaded, Stack!SceneExits, Stack!TouchPause, Stack!Blur,
        Stack!PanelReplaces, StackFacts!vars, StackFacts!Label, StackFacts!Id,
        StackFacts!Blank, StackFacts!Depth, StackFacts!Current, StackFacts!Is,
        StackFacts!Fresh, StackFacts!IndexOf, StackFacts!Content, StackFacts!Call,
        StackFacts!Enter, StackFacts!SetIndex, StackFacts!PushScene, StackFacts!TellBelow,
        StackFacts!PopScene, StackFacts!LosesApp, StackFacts!ReplaceScene,
        StackFacts!MayExit, StackFacts!Exit, StackFacts!LabelToIndex, StackFacts!GotoScene,
        StackFacts!Following, StackFacts!OnNext, StackFacts!Step, StackFacts!EnterManager,
        StackFacts!EnterScene, StackFacts!SetsIndex, StackFacts!ResumeManager,
        StackFacts!NextScene, StackFacts!ResumeScene, StackFacts!Idle, StackFacts!Loaded,
        StackFacts!SceneExits, StackFacts!TouchPause, StackFacts!Blur,
        StackFacts!PanelReplaces

LEMMA StackSameAssumption == StackFacts!ScenesAssumption
  BY StackAssumption DEF Stack!ScenesAssumption, StackFacts!ScenesAssumption, Stack!Label, StackFacts!Label

LEMMA StackSameFacts ==
    /\ StackFacts!TypeOK <=> Stack!TypeOK
    /\ StackFacts!AppBound <=> Stack!AppBound
    /\ StackFacts!SuspendedIsCovered <=> Stack!SuspendedIsCovered
    /\ StackFacts!IndexIsShown <=> Stack!IndexIsShown
  BY DEF Stack!Label, Stack!Id, Stack!Blank, Stack!Depth, Stack!Current, Stack!Is,
         Stack!Kinds, Stack!OnStack, Stack!Idle, Stack!TypeOK, Stack!AppBound,
         Stack!SuspendedIsCovered, Stack!IndexIsShown, Stack!Cardinality, StackFacts!Label,
         StackFacts!Id, StackFacts!Blank, StackFacts!Depth, StackFacts!Current,
         StackFacts!Is, StackFacts!Kinds, StackFacts!OnStack, StackFacts!Idle,
         StackFacts!TypeOK, StackFacts!AppBound, StackFacts!SuspendedIsCovered,
         StackFacts!IndexIsShown, StackFacts!Cardinality

\* The module that proves the theorems about scenes means the same by each of its names.
LEMMA PanelSameStart == Panel!Init <=> PanelFacts!Init
  BY DEF Panel!Init, PanelFacts!Init, Panel!Id, PanelFacts!Id, Panel!Blank, PanelFacts!Blank

LEMMA PanelSameStep == (Panel!Next <=> PanelFacts!Next) /\ Panel!vars = PanelFacts!vars
  BY DEF Panel!Next, PanelFacts!Next,
        Panel!vars, Panel!Label, Panel!Id, Panel!Blank, Panel!Depth, Panel!Current,
        Panel!Is, Panel!Fresh, Panel!IndexOf, Panel!Content, Panel!Call, Panel!Enter,
        Panel!SetIndex, Panel!PushScene, Panel!TellBelow, Panel!PopScene, Panel!LosesApp,
        Panel!ReplaceScene, Panel!MayExit, Panel!Exit, Panel!LabelToIndex, Panel!GotoScene,
        Panel!Following, Panel!OnNext, Panel!Step, Panel!EnterManager, Panel!EnterScene,
        Panel!SetsIndex, Panel!ResumeManager, Panel!NextScene, Panel!ResumeScene,
        Panel!Idle, Panel!Loaded, Panel!SceneExits, Panel!TouchPause, Panel!Blur,
        Panel!PanelReplaces, PanelFacts!vars, PanelFacts!Label, PanelFacts!Id,
        PanelFacts!Blank, PanelFacts!Depth, PanelFacts!Current, PanelFacts!Is,
        PanelFacts!Fresh, PanelFacts!IndexOf, PanelFacts!Content, PanelFacts!Call,
        PanelFacts!Enter, PanelFacts!SetIndex, PanelFacts!PushScene, PanelFacts!TellBelow,
        PanelFacts!PopScene, PanelFacts!LosesApp, PanelFacts!ReplaceScene,
        PanelFacts!MayExit, PanelFacts!Exit, PanelFacts!LabelToIndex, PanelFacts!GotoScene,
        PanelFacts!Following, PanelFacts!OnNext, PanelFacts!Step, PanelFacts!EnterManager,
        PanelFacts!EnterScene, PanelFacts!SetsIndex, PanelFacts!ResumeManager,
        PanelFacts!NextScene, PanelFacts!ResumeScene, PanelFacts!Idle, PanelFacts!Loaded,
        PanelFacts!SceneExits, PanelFacts!TouchPause, PanelFacts!Blur,
        PanelFacts!PanelReplaces

LEMMA PanelSameAssumption == PanelFacts!ScenesAssumption
  BY PanelAssumption DEF Panel!ScenesAssumption, PanelFacts!ScenesAssumption, Panel!Label, PanelFacts!Label

LEMMA PanelSameFacts ==
    /\ PanelFacts!TypeOK <=> Panel!TypeOK
    /\ PanelFacts!AppBound <=> Panel!AppBound
    /\ PanelFacts!SuspendedIsCovered <=> Panel!SuspendedIsCovered
    /\ PanelFacts!IndexIsShown <=> Panel!IndexIsShown
  BY DEF Panel!Label, Panel!Id, Panel!Blank, Panel!Depth, Panel!Current, Panel!Is,
         Panel!Kinds, Panel!OnStack, Panel!Idle, Panel!TypeOK, Panel!AppBound,
         Panel!SuspendedIsCovered, Panel!IndexIsShown, Panel!Cardinality, PanelFacts!Label,
         PanelFacts!Id, PanelFacts!Blank, PanelFacts!Depth, PanelFacts!Current,
         PanelFacts!Is, PanelFacts!Kinds, PanelFacts!OnStack, PanelFacts!Idle,
         PanelFacts!TypeOK, PanelFacts!AppBound, PanelFacts!SuspendedIsCovered,
         PanelFacts!IndexIsShown, PanelFacts!Cardinality

\* The scenes are those of the specification the theorems are about.
LEMMA ScenesRun ==
    Spec => StackFacts!Spec /\ PanelFacts!Spec
  <1>1. ASSUME Init PROVE StackFacts!Init /\ PanelFacts!Init
    <2>1. Stack!Init /\ Panel!Init
      BY <1>1 DEF Init
    <2> QED BY <2>1, StackSameStart, PanelSameStart
  <1>2. ASSUME [Next]_vars
        PROVE [StackFacts!Next]_(StackFacts!vars) /\ [PanelFacts!Next]_(PanelFacts!vars)
    <2>1. (Stack!Next \/ UNCHANGED scenesVars) /\ (Panel!Next \/ UNCHANGED panelVars)
      BY <1>2 DEF Next, vars
    <2>2. Stack!vars = scenesVars /\ Panel!vars = panelVars
      BY DEF Stack!vars, scenesVars, Panel!vars, panelVars
    <2>3. (UNCHANGED scenesVars => UNCHANGED StackFacts!vars)
          /\ (UNCHANGED panelVars => UNCHANGED PanelFacts!vars)
      BY DEF StackFacts!vars, scenesVars, PanelFacts!vars, panelVars
    <2> QED BY <2>1, <2>3, StackSameStep, PanelSameStep
  <1> QED BY <1>1, <1>2, PTL DEF Spec, StackFacts!Spec, PanelFacts!Spec

LEMMA SameScreen == Stack!Shown = StackFacts!Shown
  BY DEF Stack!Shown, Stack!Left, Stack!OnStack, Stack!Is, Stack!Blank, Stack!Screen,
         Stack!Enter, Stack!Call, StackFacts!Shown, StackFacts!Left, StackFacts!OnStack,
         StackFacts!Is, StackFacts!Blank, StackFacts!Screen, StackFacts!Enter,
         StackFacts!Call

LEMMA SameScreenAfter == Stack!Shown' = StackFacts!Shown'
  BY DEF Stack!Shown, Stack!Left, Stack!OnStack, Stack!Is, Stack!Blank, Stack!Screen,
         Stack!Enter, Stack!Call, StackFacts!Shown, StackFacts!Left, StackFacts!OnStack,
         StackFacts!Is, StackFacts!Blank, StackFacts!Screen, StackFacts!Enter,
         StackFacts!Call

LEMMA SameFlow ==
    /\ Stack!Flow!Init <=> StackFacts!Flow!Init
    /\ Stack!Flow!Next <=> StackFacts!Flow!Next
    /\ Stack!Flow!vars = StackFacts!Flow!vars
  BY SameScreen, SameScreenAfter DEF
        Stack!Flow!Init, Stack!Flow!Next, Stack!Flow!vars, Stack!Flow!Label,
        Stack!Flow!IndexOf, Stack!Flow!Show, Stack!Flow!Start, Stack!Flow!Ask,
        Stack!Flow!Leave, StackFacts!Flow!Init, StackFacts!Flow!Next, StackFacts!Flow!vars,
        StackFacts!Flow!Label, StackFacts!Flow!IndexOf, StackFacts!Flow!Show,
        StackFacts!Flow!Start, StackFacts!Flow!Ask, StackFacts!Flow!Leave

LEMMA SameFlowAfter == Stack!Flow!vars' = StackFacts!Flow!vars'
  BY SameScreenAfter DEF Stack!Flow!vars, StackFacts!Flow!vars

\* What is proved of the scenes holds of both stacks, from the values the run is given on.
THEOREM ScenesAlwaysFollow == Spec => ScenesFollow
  <1>1. StackFacts!Spec => [](StackFacts!TypeOK /\ StackFacts!AppBound
                              /\ StackFacts!SuspendedIsCovered)
    BY StackFacts!StackCorrect, StackSameAssumption
  <1>2. StackFacts!Spec => []StackFacts!IndexIsShown
    BY StackFacts!IndexCorrect, StackSameAssumption
  <1>3. StackFacts!Spec => StackFacts!ImplementsFlow
    BY StackFacts!FlowCorrect, StackSameAssumption
  <1>4. PanelFacts!Spec => [](PanelFacts!TypeOK /\ PanelFacts!AppBound
                              /\ PanelFacts!SuspendedIsCovered)
    BY PanelFacts!StackCorrect, PanelSameAssumption
  <1>5. ([Stack!Flow!Next]_(Stack!Flow!vars) <=> [StackFacts!Flow!Next]_(StackFacts!Flow!vars))
    BY SameFlow, SameFlowAfter
  <1> QED
    BY <1>1, <1>2, <1>3, <1>4, <1>5, SameFlow, ScenesRun, StackSameFacts, PanelSameFacts, PTL
    DEF ScenesFollow, Stack!ImplementsFlow, Stack!Flow!Spec, StackFacts!ImplementsFlow,
        StackFacts!Flow!Spec

-----------------------------------------------------------------------------
(* The tree of elements *)

Elem(list) == {list[k] : k \in DOMAIN list}
OnceIn(list, c) == \A k, l \in DOMAIN list : list[k] = c /\ list[l] = c => k = l

\* erase takes one out and leaves the others as they are.
LEMMA ErasedIs ==
    ASSUME NEW N, NEW m, NEW S, NEW list \in Seq(S), NEW c
    PROVE  LET e == Tree(N, m)!Erased(list, c)
           IN  /\ e \in Seq(S)
               /\ \A x : x \in Elem(e) => x \in Elem(list)
               /\ \A x : x # c /\ x \in Elem(list) => x \in Elem(e)
               /\ \A x : OnceIn(list, x) => OnceIn(e, x)
               /\ OnceIn(list, c) => c \notin Elem(e)
  <1> DEFINE e == Tree(N, m)!Erased(list, c)
             at == Tree(N, m)!First(list, c)
             Here(k) == list[k] = c /\ \A l \in 1 .. k - 1 : list[l] # c
  <1>1. CASE c \notin Elem(list)
    <2>1. e = list  BY <1>1 DEF Tree!Erased, Tree!Members, Elem
    <2> QED  BY <1>1, <2>1
  <1>2. CASE c \in Elem(list)
    <2>1. PICK k \in DOMAIN list : list[k] = c  BY <1>2 DEF Elem
    <2>2. \E q \in DOMAIN list : Here(q)
      <3> DEFINE Q == {q \in DOMAIN list : list[q] = c}
      <3>1. Q # {} /\ Q \subseteq Nat  BY <2>1
      <3>2. PICK q \in Q : \A l \in Q : q <= l
        <4> HIDE DEF Q
        <4>1. PICK q \in Q : \A y \in Q : <<y, q>> \notin OpToRel(<, Nat)
          BY <3>1, NatLessThanWellFounded, WFMin
        <4>2. ASSUME NEW l \in Q PROVE q <= l
          <5>1. <<l, q>> \notin OpToRel(<, Nat)  BY <4>1
          <5>2. l \in Nat /\ q \in Nat  BY <3>1
          <5> QED  BY <5>1, <5>2 DEF OpToRel
        <4> QED  BY <4>2
      <3>3. Here(q)  BY <3>2
      <3> QED  BY <3>3
    <2>3. at \in DOMAIN list /\ Here(at)
      <3>1. at = CHOOSE q \in DOMAIN list : Here(q)  BY DEF Tree!First
      <3> HIDE DEF Here
      <3> QED  BY <2>2, <3>1
    <2> HIDE DEF at
    <2>4. e = [q \in 1 .. Len(list) - 1 |-> IF q < at THEN list[q] ELSE list[q + 1]]
      BY <1>2 DEF Tree!Erased, Tree!Members, Elem, at
    <2> HIDE DEF e
    <2>5. at \in 1 .. Len(list) /\ Len(list) \in Nat /\ DOMAIN list = 1 .. Len(list)  BY <2>3
    <2>6. e \in Seq(S) /\ DOMAIN e = 1 .. Len(list) - 1
      BY <2>4, <2>5
    <2>7. \A q \in 1 .. Len(list) - 1 : e[q] = IF q < at THEN list[q] ELSE list[q + 1]
      BY <2>4
    <2>8. \A x : x \in Elem(e) => x \in Elem(list)
      <3> TAKE x
      <3> HAVE x \in Elem(e)
      <3>1. PICK q \in DOMAIN e : e[q] = x  BY DEF Elem
      <3>2. x = list[q] \/ x = list[q + 1]  BY <2>6, <2>7, <3>1
      <3>3. q \in DOMAIN list /\ q + 1 \in DOMAIN list  BY <2>5, <2>6, <3>1
      <3> QED  BY <3>2, <3>3 DEF Elem
    <2>9. \A q \in DOMAIN list : q # at => \E r \in DOMAIN e : e[r] = list[q]
      <3> TAKE q \in DOMAIN list
      <3> HAVE q # at
      <3>1. CASE q < at
        <4>1. q \in DOMAIN e /\ e[q] = list[q]  BY <2>5, <2>6, <2>7, <3>1
        <4> QED  BY <4>1
      <3>2. CASE at < q
        <4>1. q - 1 \in DOMAIN e /\ e[q - 1] = list[q]  BY <2>5, <2>6, <2>7, <3>2
        <4> QED  BY <4>1
      <3> QED  BY <2>5, <3>1, <3>2
    <2>10. \A x : x # c /\ x \in Elem(list) => x \in Elem(e)
      BY <2>3, <2>9 DEF Elem
    <2>11. \A x : OnceIn(list, x) => OnceIn(e, x)
      <3> SUFFICES ASSUME NEW x, OnceIn(list, x), NEW q \in DOMAIN e, NEW r \in DOMAIN e,
                          e[q] = x, e[r] = x
                   PROVE  q = r
        BY DEF OnceIn
      <3> DEFINE u == IF q < at THEN q ELSE q + 1
                 v == IF r < at THEN r ELSE r + 1
      <3>1. u \in DOMAIN list /\ v \in DOMAIN list  BY <2>5, <2>6
      <3>2. list[u] = x /\ list[v] = x  BY <2>6, <2>7
      <3>3. u = v  BY <3>1, <3>2 DEF OnceIn
      <3> QED  BY <2>5, <2>6, <3>3
    <2>12. OnceIn(list, c) => c \notin Elem(e)
      <3> SUFFICES ASSUME OnceIn(list, c), NEW q \in DOMAIN e, e[q] = c
                   PROVE  FALSE
        BY DEF Elem
      <3> DEFINE u == IF q < at THEN q ELSE q + 1
      <3>1. u \in DOMAIN list /\ u # at  BY <2>5, <2>6
      <3>2. list[u] = c  BY <2>6, <2>7
      <3> QED  BY <2>3, <3>1, <3>2 DEF OnceIn
    <2> QED  BY <2>6, <2>8, <2>10, <2>11, <2>12 DEF e
  <1> QED  BY <1>1, <1>2

\* splice puts one in and leaves the others as they are.
PutIn(S, list, c, e) ==
    /\ e \in Seq(S)
    /\ \A x : x \in Elem(e) <=> x \in Elem(list) \/ x = c
    /\ \A x : x # c /\ OnceIn(list, x) => OnceIn(e, x)
    /\ c \notin Elem(list) => OnceIn(e, c)

LEMMA InsertedIs ==
    ASSUME NEW N, NEW m, NEW S, NEW list \in Seq(S), NEW c \in S, NEW i \in Nat \ {0}
    PROVE  PutIn(S, list, c, Tree(N, m)!Inserted(list, i, c))
  <1> DEFINE e == Tree(N, m)!Inserted(list, i, c)
             at == IF i > Len(list) + 1 THEN Len(list) + 1 ELSE i
  <1>1. at \in 1 .. Len(list) + 1 /\ Len(list) \in Nat /\ DOMAIN list = 1 .. Len(list)  OBVIOUS
  <1>2. e = [k \in 1 .. Len(list) + 1 |->
                 IF k < at THEN list[k] ELSE IF k = at THEN c ELSE list[k - 1]]
    BY DEF Tree!Inserted
  <1> HIDE DEF e, at
  <1>3. DOMAIN e = 1 .. Len(list) + 1
    BY <1>2
  <1>4. \A k \in 1 .. Len(list) + 1 :
            e[k] = IF k < at THEN list[k] ELSE IF k = at THEN c ELSE list[k - 1]
    BY <1>2
  <1>5. e \in Seq(S)
    <2>1. \A k \in 1 .. Len(list) + 1 : e[k] \in S  BY <1>1, <1>4
    <2> QED  BY <1>1, <1>2, <2>1
  <1>6. \A x : x \in Elem(e) <=> x \in Elem(list) \/ x = c
    <2> TAKE x
    <2>1. ASSUME x \in Elem(e) PROVE x \in Elem(list) \/ x = c
      <3>1. PICK k \in DOMAIN e : e[k] = x  BY <2>1 DEF Elem
      <3>2. CASE k < at
        <4>1. k \in DOMAIN list /\ list[k] = x  BY <1>1, <1>3, <1>4, <3>1, <3>2
        <4> QED  BY <4>1 DEF Elem
      <3>3. CASE k = at
        BY <1>1, <1>3, <1>4, <3>1, <3>3
      <3>4. CASE k > at
        <4>1. k - 1 \in DOMAIN list /\ list[k - 1] = x  BY <1>1, <1>3, <1>4, <3>1, <3>4
        <4> QED  BY <4>1 DEF Elem
      <3> QED  BY <1>1, <1>3, <3>2, <3>3, <3>4
    <2>2. ASSUME x \in Elem(list) PROVE x \in Elem(e)
      <3>1. PICK k \in DOMAIN list : list[k] = x  BY <2>2 DEF Elem
      <3>2. CASE k < at
        <4>1. k \in DOMAIN e /\ e[k] = x  BY <1>1, <1>3, <1>4, <3>1, <3>2
        <4> QED  BY <4>1 DEF Elem
      <3>3. CASE k >= at
        <4>1. k + 1 \in DOMAIN e /\ e[k + 1] = x  BY <1>1, <1>3, <1>4, <3>1, <3>3
        <4> QED  BY <4>1 DEF Elem
      <3> QED  BY <1>1, <3>2, <3>3
    <2>3. c \in Elem(e)
      <3>1. at \in DOMAIN e /\ e[at] = c  BY <1>1, <1>3, <1>4
      <3> QED  BY <3>1 DEF Elem
    <2> QED  BY <2>1, <2>2, <2>3
  <1>7. \A x : x # c /\ OnceIn(list, x) => OnceIn(e, x)
    <2> SUFFICES ASSUME NEW x, x # c, OnceIn(list, x), NEW q \in DOMAIN e, NEW r \in DOMAIN e,
                        e[q] = x, e[r] = x
                 PROVE  q = r
      BY DEF OnceIn
    <2> DEFINE u == IF q < at THEN q ELSE q - 1
               v == IF r < at THEN r ELSE r - 1
    <2>1. q # at /\ r # at  BY <1>1, <1>3, <1>4
    <2>2. u \in DOMAIN list /\ v \in DOMAIN list  BY <1>1, <1>3, <2>1
    <2>3. list[u] = x /\ list[v] = x  BY <1>1, <1>3, <1>4, <2>1
    <2>4. u = v  BY <2>2, <2>3 DEF OnceIn
    <2> QED  BY <1>1, <1>3, <2>1, <2>4
  <1>8. c \notin Elem(list) => OnceIn(e, c)
    <2> SUFFICES ASSUME c \notin Elem(list), NEW q \in DOMAIN e, e[q] = c
                 PROVE  q = at
      BY DEF OnceIn
    <2>1. CASE q < at
      <3>1. q \in DOMAIN list /\ list[q] = c  BY <1>1, <1>3, <1>4, <2>1
      <3> QED  BY <3>1 DEF Elem
    <2>2. CASE q > at
      <3>1. q - 1 \in DOMAIN list /\ list[q - 1] = c  BY <1>1, <1>3, <1>4, <2>2
      <3> QED  BY <3>1 DEF Elem
    <2> QED  BY <1>1, <1>3, <2>1, <2>2
  <1> QED  BY <1>5, <1>6, <1>7, <1>8 DEF e, PutIn

\* What is under the elements of T, as far as it is attached.
Tainted(N, ch, T) ==
    {n \in N : \A S \in SUBSET N : T \subseteq S /\ (\A q \in S : Elem(ch[q]) \subseteq S) => n \in S}

Attached(N, ch) == ch \in [N -> Seq(N \ {Root})]

LEMMA AttachedIs ==
    ASSUME NEW N, NEW ch, Attached(N, ch), NEW p \in N
    PROVE  Elem(ch[p]) \subseteq N \ {Root}
  BY DEF Attached, Elem

LEMMA TaintedIs ==
    ASSUME NEW N, NEW ch, NEW T, Attached(N, ch), T \subseteq N
    PROVE  /\ Tainted(N, ch, T) \subseteq N /\ T \subseteq Tainted(N, ch, T)
           /\ \A p \in Tainted(N, ch, T) : Elem(ch[p]) \subseteq Tainted(N, ch, T)
  <1>1. Tainted(N, ch, T) \subseteq N /\ T \subseteq Tainted(N, ch, T)
    BY DEF Tainted
  <1>2. ASSUME NEW p \in Tainted(N, ch, T), NEW x \in Elem(ch[p])
        PROVE  x \in Tainted(N, ch, T)
    <2>1. x \in N  BY <1>1, AttachedIs
    <2>2. ASSUME NEW S \in SUBSET N, T \subseteq S, \A q \in S : Elem(ch[q]) \subseteq S
          PROVE  x \in S
      <3>1. p \in S  BY <2>2 DEF Tainted
      <3> QED  BY <2>2, <3>1
    <2> QED  BY <2>1, <2>2 DEF Tainted
  <1> QED  BY <1>1, <1>2

\* A change that is about elements of T2 only, and that adds them to T, leaves the others
\* where they are.
Same(N, ch, aw, ch2, aw2, T2) ==
    \A x \in N : x \notin T2 =>
        aw2[x] = aw[x] /\ \A p \in N : x \in Elem(ch2[p]) <=> x \in Elem(ch[p])

LEMMA TaintedGrows ==
    ASSUME NEW N, NEW ch, NEW aw, NEW ch2, NEW aw2, NEW T, NEW T2,
           Attached(N, ch), Attached(N, ch2), T \subseteq T2, T2 \subseteq N,
           Same(N, ch, aw, ch2, aw2, T2)
    PROVE  Tainted(N, ch, T) \subseteq Tainted(N, ch2, T2)
  <1> DEFINE S == Tainted(N, ch2, T2)
  <1>1. S \subseteq N /\ T2 \subseteq S /\ \A p \in S : Elem(ch2[p]) \subseteq S
    BY TaintedIs
  <1> HIDE DEF S
  <1>2. ASSUME NEW p \in S, NEW x \in Elem(ch[p]) PROVE x \in S
    <2>1. x \in N /\ p \in N  BY <1>1, AttachedIs
    <2> QED  BY <1>1, <2>1 DEF Same
  <1>3. S \in SUBSET N /\ T \subseteq S /\ \A q \in S : Elem(ch[q]) \subseteq S
    BY <1>1, <1>2
  <1>4. ASSUME NEW n \in Tainted(N, ch, T) PROVE n \in S
    BY <1>3 DEF Tainted
  <1> QED  BY <1>4 DEF S

Reach(N, ch, aw, n) ==
    \A S \in SUBSET N : Root \in S /\ (\A q \in S : aw[q] => Elem(ch[q]) \subseteq S) => n \in S

Kids(ch, p) == IF p = None THEN {Root} ELSE Elem(ch[p])

\* An element that is not under T is child of one element, once.
Sole(N, ch, U) ==
    \A x \in N \ U, p, q \in N : x \in Elem(ch[p]) =>
        OnceIn(ch[p], x) /\ (x \in Elem(ch[q]) => p = q)

\* A loop of the walk has the children its element still has, each once, and has updated
\* those it has passed.
LoopOK(ch, aw, f, up, U) ==
    /\ \A j \in DOMAIN f.list : f.list[j] \notin U =>
           /\ f.list[j] \in Kids(ch, f.of)
           /\ up[f.list[j]] = IF j < f.i /\ aw[f.list[j]] THEN 1 ELSE 0
           /\ \A k \in DOMAIN f.list : f.list[k] = f.list[j] => k = j
    /\ \A x \in Kids(ch, f.of) : x \notin U => x \in Elem(f.list)

LoopsOK(ch, aw, wk, up, U) == \A k \in DOMAIN wk : LoopOK(ch, aw, wk[k], up, U)

\* Only one loop is over the children of an element, and that has been updated.
Nested(N, wk, rn, up, U) ==
    /\ \A k \in DOMAIN wk : wk[k].of = None <=> k = Len(wk)
    /\ \A k, l \in DOMAIN wk : wk[k].of = wk[l].of /\ wk[k].of \notin U => k = l
    /\ \A k \in DOMAIN wk : wk[k].of \in N \ U => up[wk[k].of] = 1 /\ wk[k].of # rn

Running(N, ch, rn, up, U) ==
    rn \in N \ U => up[rn] = 1 /\ \A x \in Elem(ch[rn]) : x \notin U => up[x] = 0

\* What was updated is awake, in the tree and under what was updated.
Counted(N, ch, aw, up, U) ==
    \A x \in N \ U :
        /\ up[x] \in {0, 1}
        /\ up[x] = 1 => aw[x] /\ Reach(N, ch, aw, x)
                           /\ (x = Root \/ \E p \in N \ U : x \in Elem(ch[p]) /\ up[p] = 1)

\* The children of what was updated and is no longer walked were updated.
Passed(N, ch, aw, wk, rn, up, U) ==
    \A p \in N \ U : up[p] = 1 /\ p # rn /\ (\A k \in DOMAIN wk : wk[k].of # p) =>
        \A x \in Elem(ch[p]) : x \notin U => up[x] = IF aw[x] THEN 1 ELSE 0

WalkOK(N, ch, aw, wk, rn, up, U) ==
    /\ LoopsOK(ch, aw, wk, up, U) /\ Nested(N, wk, rn, up, U) /\ Running(N, ch, rn, up, U)
    /\ Counted(N, ch, aw, up, U) /\ Passed(N, ch, aw, wk, rn, up, U)

Loop(N) == [of : N \cup {None}, list : Seq(N), i : Nat \ {0}]

WalkTypes(N, wk) == wk \in Seq(Loop(N)) /\ \A k \in DOMAIN wk : wk[k].i <= Len(wk[k].list) + 1

LEMMA LoopIs ==
    ASSUME NEW N, NEW wk, WalkTypes(N, wk), NEW k \in DOMAIN wk
    PROVE  /\ wk[k] \in Loop(N) /\ wk[k].of \in N \cup {None} /\ wk[k].list \in Seq(N)
           /\ wk[k].i \in Nat \ {0} /\ wk[k].i <= Len(wk[k].list) + 1
           /\ Elem(wk[k].list) \subseteq N
  <1>1. wk[k] \in Loop(N) /\ wk[k].i <= Len(wk[k].list) + 1
    <2>1. wk \in Seq(Loop(N)) /\ wk[k].i <= Len(wk[k].list) + 1  BY DEF WalkTypes
    <2> HIDE DEF WalkTypes
    <2> QED  BY <2>1
  <1>2. wk[k].of \in N \cup {None} /\ wk[k].list \in Seq(N) /\ wk[k].i \in Nat \ {0}
    BY <1>1 DEF Loop
  <1> QED  BY <1>1, <1>2 DEF Elem

TreeOf(N, ch, aw, up) ==
    /\ Root \in N /\ None \notin N /\ Attached(N, ch)
    /\ aw \in [N -> BOOLEAN] /\ up \in [N -> Nat]

\* Code that adds, moves and removes elements leaves the walk of the others as it is.
LEMMA CallsKeepWalk ==
    ASSUME NEW N, NEW ch, NEW aw, NEW ch2, NEW aw2, NEW T, NEW T2, NEW wk, NEW rn, NEW up,
           TreeOf(N, ch, aw, up), TreeOf(N, ch2, aw2, up), WalkTypes(N, wk),
           T \subseteq T2, T2 \subseteq N, rn \in N \cup {None},
           Same(N, ch, aw, ch2, aw2, T2),
           WalkOK(N, ch, aw, wk, rn, up, Tainted(N, ch, T))
    PROVE  WalkOK(N, ch2, aw2, wk, rn, up, Tainted(N, ch2, T2))
  <1> DEFINE U == Tainted(N, ch, T)
             V == Tainted(N, ch2, T2)
  <1>1. U \subseteq V /\ V \subseteq N /\ T2 \subseteq V /\ \A p \in V : Elem(ch2[p]) \subseteq V
    BY TaintedGrows, TaintedIs DEF TreeOf
  <1>2. Attached(N, ch) /\ Attached(N, ch2) /\ Root \in N /\ None \notin N
    BY DEF TreeOf
  <1>3. WalkOK(N, ch, aw, wk, rn, up, U)
    OBVIOUS
  <1> HIDE DEF U, V
  <1>4. \A x \in N \ V : aw2[x] = aw[x] /\ \A p \in N : x \in Elem(ch2[p]) <=> x \in Elem(ch[p])
    BY <1>1 DEF Same
  <1>5. \A x \in N \ V, p \in N : x \in Elem(ch[p]) => p \notin V
    BY <1>1, <1>4
  <1>6. ASSUME NEW k \in DOMAIN wk
        PROVE  wk[k].of \in N \cup {None} /\ wk[k].list \in Seq(N) /\ Elem(wk[k].list) \subseteq N
    BY LoopIs
  <1>7. LoopsOK(ch2, aw2, wk, up, V)
    <2> SUFFICES ASSUME NEW k \in DOMAIN wk PROVE LoopOK(ch2, aw2, wk[k], up, V)
      BY DEF LoopsOK
    <2> DEFINE f == wk[k]
    <2>1. LoopOK(ch, aw, f, up, U)  BY <1>3 DEF WalkOK, LoopsOK
    <2>2. f.of \in N \cup {None} /\ f.list \in Seq(N) /\ \A j \in DOMAIN f.list : f.list[j] \in N
      BY <1>6 DEF Elem
    <2> HIDE DEF f
    <2>3. \A x \in N \ V : x \in Kids(ch2, f.of) <=> x \in Kids(ch, f.of)
      BY <1>2, <1>4, <2>2 DEF Kids
    <2>4. Kids(ch2, f.of) \subseteq N
      BY <1>2, <2>2, AttachedIs DEF Kids
    <2> QED  BY <1>1, <1>4, <2>1, <2>2, <2>3, <2>4 DEF LoopOK, f
  <1>8. Nested(N, wk, rn, up, V)
    BY <1>1, <1>3 DEF WalkOK, Nested
  <1>9. Running(N, ch2, rn, up, V)
    <2> SUFFICES ASSUME rn \in N \ V
                 PROVE  up[rn] = 1 /\ \A x \in Elem(ch2[rn]) : x \notin V => up[x] = 0
      BY DEF Running
    <2>1. up[rn] = 1 /\ \A x \in Elem(ch[rn]) : x \notin U => up[x] = 0
      BY <1>1, <1>3 DEF WalkOK, Running
    <2>2. Elem(ch2[rn]) \subseteq N  BY <1>2, AttachedIs
    <2> QED  BY <1>1, <1>4, <2>1, <2>2
  <1>10. Counted(N, ch2, aw2, up, V)
    <2> SUFFICES ASSUME NEW x \in N \ V
                 PROVE  /\ up[x] \in {0, 1}
                        /\ up[x] = 1 => aw2[x] /\ Reach(N, ch2, aw2, x)
                               /\ (x = Root \/ \E p \in N \ V : x \in Elem(ch2[p]) /\ up[p] = 1)
      BY DEF Counted
    <2>1. /\ up[x] \in {0, 1}
          /\ up[x] = 1 => aw[x] /\ Reach(N, ch, aw, x)
                             /\ (x = Root \/ \E p \in N \ U : x \in Elem(ch[p]) /\ up[p] = 1)
      BY <1>1, <1>3 DEF WalkOK, Counted
    <2>2. ASSUME up[x] = 1 PROVE Reach(N, ch2, aw2, x)
      <3> SUFFICES ASSUME NEW S \in SUBSET N, Root \in S,
                          \A q \in S : aw2[q] => Elem(ch2[q]) \subseteq S
                   PROVE  x \in S
        BY DEF Reach
      <3> DEFINE S2 == S \cup V
      <3>1. ASSUME NEW q \in S2, aw[q], NEW y \in Elem(ch[q]) PROVE y \in S2
        <4>1. q \in N /\ y \in N  BY <1>1, <1>2, AttachedIs
        <4>2. CASE y \notin V
          <5>1. y \in Elem(ch2[q]) /\ q \notin V  BY <1>4, <1>5, <3>1, <4>1, <4>2
          <5> QED  BY <1>4, <3>1, <4>1, <5>1
        <4> QED  BY <4>2
      <3>2. S2 \in SUBSET N /\ Root \in S2 /\ \A q \in S2 : aw[q] => Elem(ch[q]) \subseteq S2
        BY <1>1, <3>1
      <3> HIDE DEF S2
      <3>3. x \in S2  BY <2>1, <2>2, <3>2 DEF Reach
      <3> QED  BY <3>3 DEF S2
    <2>3. ASSUME up[x] = 1, x # Root PROVE \E p \in N \ V : x \in Elem(ch2[p]) /\ up[p] = 1
      <3>1. PICK p \in N \ U : x \in Elem(ch[p]) /\ up[p] = 1  BY <2>1, <2>3
      <3> QED  BY <1>4, <1>5, <3>1
    <2> QED  BY <1>4, <2>1, <2>2, <2>3
  <1>11. Passed(N, ch2, aw2, wk, rn, up, V)
    <2> SUFFICES ASSUME NEW p \in N \ V, up[p] = 1, p # rn, \A k \in DOMAIN wk : wk[k].of # p,
                        NEW x \in Elem(ch2[p]), x \notin V
                 PROVE  up[x] = IF aw2[x] THEN 1 ELSE 0
      BY DEF Passed
    <2>1. x \in N  BY <1>2, AttachedIs
    <2>2. x \in Elem(ch[p]) /\ aw2[x] = aw[x]  BY <1>4, <2>1
    <2> QED  BY <1>1, <1>3, <2>2 DEF WalkOK, Passed
  <1> QED  BY <1>7, <1>8, <1>9, <1>10, <1>11 DEF WalkOK, V

\* The next element of the loop is updated, or passed over.
LEMMA UpdateKeepsWalk ==
    ASSUME NEW N, NEW ch, NEW aw, NEW T, NEW wk, NEW up, NEW rn2, NEW up2, NEW n,
           TreeOf(N, ch, aw, up), WalkTypes(N, wk), T \subseteq N,
           Sole(N, ch, Tainted(N, ch, T)),
           WalkOK(N, ch, aw, wk, None, up, Tainted(N, ch, T)),
           wk # <<>>, wk[1].i <= Len(wk[1].list), n = wk[1].list[wk[1].i],
           rn2 = IF aw[n] THEN n ELSE None,
           up2 = IF aw[n] THEN [up EXCEPT ![n] = @ + 1] ELSE up
    PROVE  WalkOK(N, ch, aw, [wk EXCEPT ![1].i = @ + 1], rn2, up2, Tainted(N, ch, T))
  <1> DEFINE U == Tainted(N, ch, T)
             f == wk[1]
             wk2 == [wk EXCEPT ![1].i = @ + 1]
  <1>1. U \subseteq N /\ \A p \in U : Elem(ch[p]) \subseteq U
    BY TaintedIs DEF TreeOf
  <1>2. Attached(N, ch) /\ Root \in N /\ None \notin N /\ aw \in [N -> BOOLEAN] /\ up \in [N -> Nat]
    BY DEF TreeOf
  <1>3. WalkOK(N, ch, aw, wk, None, up, U) /\ Sole(N, ch, U)
    OBVIOUS
  <1> HIDE DEF U
  <1>4. 1 \in DOMAIN wk /\ DOMAIN wk = 1 .. Len(wk) /\ Len(wk) \in Nat
    BY DEF WalkTypes
  <1>5. f \in Loop(N) /\ f.of \in N \cup {None} /\ f.list \in Seq(N) /\ f.i \in Nat \ {0}
    BY <1>4, LoopIs
  <1>6. f.i \in DOMAIN f.list /\ n \in N
    BY <1>5
  <1>7. /\ DOMAIN wk2 = DOMAIN wk /\ Len(wk2) = Len(wk)
        /\ wk2[1] = [f EXCEPT !.i = @ + 1]
        /\ \A k \in DOMAIN wk : k # 1 => wk2[k] = wk[k]
    BY <1>4 DEF WalkTypes
  <1>8. wk2[1].of = f.of /\ wk2[1].list = f.list /\ wk2[1].i = f.i + 1
    BY <1>5, <1>7 DEF Loop
  <1>9. \A k \in DOMAIN wk : wk2[k].of = wk[k].of
    BY <1>7, <1>8
  <1> HIDE DEF wk2
  <1>10. LoopOK(ch, aw, f, up, U)
    BY <1>3, <1>4 DEF WalkOK, LoopsOK
  <1>11. n \notin U => n \in Kids(ch, f.of) /\ up[n] = 0
    BY <1>6, <1>10 DEF LoopOK
  <1>12. up2 \in [N -> Nat] /\ up2[n] = (IF aw[n] THEN up[n] + 1 ELSE up[n])
         /\ \A x \in N : x # n => up2[x] = up[x]
    BY <1>2, <1>6
  <1>13. f.of \in N /\ n \notin U => f.of \notin U /\ up[f.of] = 1 /\ aw[f.of] /\ f.of # n
    <2> SUFFICES ASSUME f.of \in N, n \notin U
                 PROVE  f.of \notin U /\ up[f.of] = 1 /\ aw[f.of] /\ f.of # n
      OBVIOUS
    <2>1. n \in Elem(ch[f.of]) /\ up[n] = 0  BY <1>2, <1>11 DEF Kids
    <2>2. f.of \notin U  BY <1>1, <2>1
    <2>3. up[f.of] = 1  BY <1>3, <1>4, <2>2 DEF WalkOK, Nested
    <2> QED  BY <1>3, <2>1, <2>2, <2>3 DEF WalkOK, Counted
  \* What is in two lists is under T.
  <1>14. ASSUME NEW k \in DOMAIN wk, k # 1, NEW j \in DOMAIN wk[k].list, n \notin U
         PROVE  wk[k].list[j] # n
    <2> SUFFICES ASSUME wk[k].list[j] = n PROVE FALSE
      OBVIOUS
    <2>1. wk[k].of \in N \cup {None}  BY LoopIs
    <2>2. n \in Kids(ch, wk[k].of)  BY <1>3, <1>14 DEF WalkOK, LoopsOK, LoopOK
    <2>3. wk[k].of # f.of
      <3>1. wk[k].of \in U \/ wk[k].of # f.of
        BY <1>3, <1>4, <1>14 DEF WalkOK, Nested
      <3>2. wk[k].of \notin U
        BY <1>1, <1>2, <1>14, <2>1, <2>2 DEF Kids
      <3> QED  BY <3>1, <3>2
    <2>4. CASE f.of = None
      <3>1. n = Root /\ n \in Elem(ch[wk[k].of]) /\ wk[k].of \in N
        BY <1>11, <1>14, <2>1, <2>2, <2>3, <2>4 DEF Kids
      <3> QED  BY <1>2, <3>1, AttachedIs
    <2>5. CASE wk[k].of = None
      <3>1. n = Root /\ n \in Elem(ch[f.of]) /\ f.of \in N
        BY <1>5, <1>11, <1>14, <2>2, <2>3, <2>5 DEF Kids
      <3> QED  BY <1>2, <3>1, AttachedIs
    <2>6. CASE f.of # None /\ wk[k].of # None
      <3>1. n \in Elem(ch[f.of]) /\ n \in Elem(ch[wk[k].of])
        BY <1>11, <1>14, <2>2, <2>6 DEF Kids
      <3>2. f.of \in N /\ wk[k].of \in N  BY <1>5, <2>1, <2>6
      <3> QED  BY <1>3, <1>6, <1>14, <2>3, <3>1, <3>2 DEF Sole
    <2> QED  BY <2>4, <2>5, <2>6
  <1>15. LoopsOK(ch, aw, wk2, up2, U)
    <2> SUFFICES ASSUME NEW k \in DOMAIN wk PROVE LoopOK(ch, aw, wk2[k], up2, U)
      BY <1>7 DEF LoopsOK
    <2>1. CASE k = 1
      <3>1. ASSUME NEW j \in DOMAIN f.list, f.list[j] \notin U
            PROVE  up2[f.list[j]] = IF j < f.i + 1 /\ aw[f.list[j]] THEN 1 ELSE 0
        <4>1. up[f.list[j]] = IF j < f.i /\ aw[f.list[j]] THEN 1 ELSE 0
          BY <1>10, <3>1 DEF LoopOK
        <4>2. f.list[j] \in N /\ j \in Nat  BY <1>5
        <4>3. CASE j = f.i
          BY <1>11, <1>12, <3>1, <4>3
        <4>4. CASE j # f.i
          <5>1. f.list[j] # n  BY <1>6, <1>10, <3>1, <4>4 DEF LoopOK
          <5>2. up2[f.list[j]] = up[f.list[j]]  BY <1>12, <4>2, <5>1
          <5>3. j < f.i <=> j < f.i + 1  BY <1>5, <4>2, <4>4
          <5> QED  BY <4>1, <5>2, <5>3
        <4> QED  BY <4>3, <4>4
      <3>2. \A j \in DOMAIN f.list : f.list[j] \notin U =>
               /\ f.list[j] \in Kids(ch, f.of)
               /\ \A q \in DOMAIN f.list : f.list[q] = f.list[j] => q = j
        BY <1>10 DEF LoopOK
      <3>3. \A x \in Kids(ch, f.of) : x \notin U => x \in Elem(f.list)
        BY <1>10 DEF LoopOK
      <3> HIDE DEF f
      <3> QED  BY <1>8, <2>1, <3>1, <3>2, <3>3 DEF LoopOK
    <2>2. CASE k # 1
      <3> DEFINE g == wk[k]
      <3>1. LoopOK(ch, aw, g, up, U)  BY <1>3 DEF WalkOK, LoopsOK
      <3>2. g.list \in Seq(N)  BY LoopIs
      <3>3. \A j \in DOMAIN g.list : g.list[j] \notin U => up2[g.list[j]] = up[g.list[j]]
        BY <1>12, <1>14, <2>2, <3>2
      <3>4. wk2[k] = g  BY <1>7, <2>2
      <3> HIDE DEF g
      <3>5. LoopOK(ch, aw, g, up2, U)  BY <3>1, <3>3 DEF LoopOK
      <3> QED  BY <3>4, <3>5
    <2> QED  BY <2>1, <2>2
  <1>16. \A k \in DOMAIN wk : wk[k].of \in N \ U => wk[k].of # n
    <2> SUFFICES ASSUME NEW k \in DOMAIN wk, wk[k].of = n, n \notin U PROVE FALSE
      BY <1>6
    <2>1. up[n] = 1  BY <1>3, <1>6 DEF WalkOK, Nested
    <2> QED  BY <1>11, <2>1
  <1>17. Nested(N, wk2, rn2, up2, U)
    <2>1. Nested(N, wk, None, up, U)  BY <1>3 DEF WalkOK
    <2>2. \A k \in DOMAIN wk : wk[k].of \in N \ U => up2[wk[k].of] = 1 /\ wk[k].of # rn2
      BY <1>2, <1>12, <1>16, <2>1 DEF Nested
    <2> QED  BY <1>7, <1>9, <2>1, <2>2 DEF Nested
  \* Its children have not been updated.
  <1>18. ASSUME NEW x \in Elem(ch[n]), x \notin U PROVE up[x] = 0
    <2>1. x \in N /\ x # Root /\ n \notin U  BY <1>1, <1>2, <1>6, <1>18, AttachedIs
    <2>2. up[x] = 1 => \E p \in N \ U : x \in Elem(ch[p]) /\ up[p] = 1
      BY <1>3, <1>18, <2>1 DEF WalkOK, Counted
    <2>3. up[x] = 1 => up[n] = 1
      BY <1>3, <1>6, <1>18, <2>1, <2>2 DEF Sole
    <2>4. up[x] \in {0, 1}  BY <1>3, <1>18, <2>1 DEF WalkOK, Counted
    <2> QED  BY <1>11, <2>1, <2>3, <2>4
  <1>19. n \notin U => n \notin Elem(ch[n])
    <2> SUFFICES ASSUME n \notin U, n \in Elem(ch[n]) PROVE FALSE
      OBVIOUS
    <2>1. n # Root  BY <1>2, <1>6, AttachedIs
    <2>2. f.of \in N /\ n \in Elem(ch[f.of])  BY <1>5, <1>11, <2>1 DEF Kids
    <2>3. f.of = n  BY <1>3, <1>6, <2>2 DEF Sole
    <2> QED  BY <1>13, <2>2, <2>3
  <1>20. Running(N, ch, rn2, up2, U)
    <2> SUFFICES ASSUME rn2 \in N \ U
                 PROVE  up2[rn2] = 1 /\ \A x \in Elem(ch[rn2]) : x \notin U => up2[x] = 0
      BY DEF Running
    <2>1. rn2 = n /\ aw[n] /\ n \notin U  BY <1>2
    <2>2. up2[n] = 1  BY <1>11, <1>12, <2>1
    <2>3. \A x \in Elem(ch[n]) : x \notin U => up2[x] = 0
      BY <1>2, <1>6, <1>12, <1>18, <1>19, <2>1, AttachedIs
    <2> QED  BY <2>1, <2>2, <2>3
  <1>21. Counted(N, ch, aw, up2, U)
    <2> SUFFICES ASSUME NEW x \in N \ U
                 PROVE  /\ up2[x] \in {0, 1}
                        /\ up2[x] = 1 => aw[x] /\ Reach(N, ch, aw, x)
                               /\ (x = Root \/ \E p \in N \ U : x \in Elem(ch[p]) /\ up2[p] = 1)
      BY DEF Counted
    <2>1. /\ up[x] \in {0, 1}
          /\ up[x] = 1 => aw[x] /\ Reach(N, ch, aw, x)
                             /\ (x = Root \/ \E p \in N \ U : x \in Elem(ch[p]) /\ up[p] = 1)
      BY <1>3 DEF WalkOK, Counted
    <2>2. \A p \in N \ U : up[p] = 1 => up2[p] = 1
      BY <1>11, <1>12
    <2>3. CASE x # n
      BY <1>12, <2>1, <2>2, <2>3
    <2>4. CASE x = n
      <3>1. up2[n] \in {0, 1} /\ (up2[n] = 1 => aw[n])  BY <1>2, <1>6, <1>11, <1>12, <2>4
      <3>2. ASSUME f.of = None PROVE n = Root  BY <1>11, <2>4, <3>2 DEF Kids
      <3>3. ASSUME f.of \in N
            PROVE  \E p \in N \ U : n \in Elem(ch[p]) /\ up2[p] = 1
        <4>1. n \in Elem(ch[f.of])  BY <1>2, <1>11, <2>4, <3>3 DEF Kids
        <4> QED  BY <1>13, <2>2, <2>4, <3>3, <4>1
      <3>4. Reach(N, ch, aw, n)
        <4> SUFFICES ASSUME NEW S \in SUBSET N, Root \in S,
                            \A q \in S : aw[q] => Elem(ch[q]) \subseteq S
                     PROVE  n \in S
          BY DEF Reach
        <4>1. CASE f.of = None  BY <3>2, <4>1
        <4>2. CASE f.of \in N
          <5>1. f.of \notin U /\ up[f.of] = 1 /\ aw[f.of]  BY <1>13, <2>4, <4>2
          <5>2. Reach(N, ch, aw, f.of)  BY <1>3, <4>2, <5>1 DEF WalkOK, Counted
          <5>3. f.of \in S  BY <5>2 DEF Reach
          <5>4. n \in Elem(ch[f.of])  BY <1>2, <1>11, <2>4, <4>2 DEF Kids
          <5> QED  BY <5>1, <5>3, <5>4
        <4> QED  BY <1>5, <4>1, <4>2
      <3> QED  BY <1>5, <2>4, <3>1, <3>2, <3>3, <3>4
    <2> QED  BY <2>3, <2>4
  <1>22. Passed(N, ch, aw, wk2, rn2, up2, U)
    <2> SUFFICES ASSUME NEW p \in N \ U, up2[p] = 1, p # rn2, \A k \in DOMAIN wk2 : wk2[k].of # p,
                        NEW x \in Elem(ch[p]), x \notin U
                 PROVE  up2[x] = IF aw[x] THEN 1 ELSE 0
      BY DEF Passed
    <2>1. p # n
      <3>1. aw[n] => p # n  OBVIOUS
      <3>2. ~aw[n] /\ p = n => up2[p] = 0  BY <1>6, <1>11, <1>12
      <3> QED  BY <3>1, <3>2
    <2>2. up[p] = 1 /\ \A k \in DOMAIN wk : wk[k].of # p /\ p # None
      BY <1>2, <1>7, <1>9, <1>12, <2>1
    <2>3. up[x] = IF aw[x] THEN 1 ELSE 0
      BY <1>2, <1>3, <2>2 DEF WalkOK, Passed
    <2>4. x \in N /\ x # Root  BY <1>2, AttachedIs
    <2>5. x # n
      <3> SUFFICES ASSUME x = n PROVE FALSE  OBVIOUS
      <3>1. f.of \in N /\ n \in Elem(ch[f.of])  BY <1>5, <1>11, <2>4 DEF Kids
      <3>2. p = f.of  BY <1>3, <2>4, <3>1 DEF Sole
      <3> QED  BY <1>4, <2>2, <3>2
    <2> QED  BY <1>12, <2>3, <2>4, <2>5
  <1> QED  BY <1>15, <1>17, <1>20, <1>21, <1>22 DEF WalkOK, U, wk2

\* One more on top of a stack.
LEMMA PushIs ==
    ASSUME NEW S, NEW q \in Seq(S), NEW a \in S
    PROVE  LET r == <<a>> \o q
           IN  /\ r \in Seq(S) /\ Len(r) = Len(q) + 1 /\ DOMAIN r = 1 .. Len(q) + 1
               /\ Len(q) \in Nat /\ DOMAIN q = 1 .. Len(q)
               /\ r[1] = a /\ \A k \in DOMAIN q : r[k + 1] = q[k]
               /\ \A k \in DOMAIN r : k = 1 \/ (k - 1 \in DOMAIN q /\ r[k] = q[k - 1])
  OBVIOUS

LEMMA PopIs ==
    ASSUME NEW S, NEW q \in Seq(S), q # <<>>
    PROVE  LET r == Tail(q)
           IN  /\ r \in Seq(S) /\ Len(q) \in Nat \ {0} /\ Len(r) = Len(q) - 1
               /\ DOMAIN r = 1 .. Len(q) - 1 /\ DOMAIN q = 1 .. Len(q)
               /\ \A k \in DOMAIN r : k + 1 \in DOMAIN q /\ r[k] = q[k + 1]
               /\ Head(q) = q[1] /\ 1 \in DOMAIN q
               /\ \A k \in DOMAIN q : k # 1 => k - 1 \in DOMAIN r /\ r[k - 1] = q[k]
  OBVIOUS

\* The loop over the children begins, with a copy of them.
LEMMA LoopKeepsWalk ==
    ASSUME NEW N, NEW ch, NEW aw, NEW T, NEW wk, NEW up, NEW rn,
           TreeOf(N, ch, aw, up), WalkTypes(N, wk), T \subseteq N, rn \in N, wk # <<>>,
           Sole(N, ch, Tainted(N, ch, T)),
           WalkOK(N, ch, aw, wk, rn, up, Tainted(N, ch, T))
    PROVE  LET wk2 == <<[of |-> rn, list |-> ch[rn], i |-> 1]>> \o wk
           IN  WalkTypes(N, wk2) /\ wk2 # <<>>
               /\ WalkOK(N, ch, aw, wk2, None, up, Tainted(N, ch, T))
  <1> DEFINE U == Tainted(N, ch, T)
             f == [of |-> rn, list |-> ch[rn], i |-> 1]
             wk2 == <<f>> \o wk
  <1>1. U \subseteq N /\ \A p \in U : Elem(ch[p]) \subseteq U
    BY TaintedIs DEF TreeOf
  <1>2. Attached(N, ch) /\ Root \in N /\ None \notin N /\ rn # None
    BY DEF TreeOf
  <1>3. WalkOK(N, ch, aw, wk, rn, up, U) /\ Sole(N, ch, U)
    OBVIOUS
  <1> HIDE DEF U
  <1>4. f \in Loop(N) /\ f.of = rn /\ f.list = ch[rn] /\ f.i = 1 /\ ch[rn] \in Seq(N)
    <2>1. ch[rn] \in Seq(N \ {Root})  BY <1>2 DEF Attached
    <2>2. ch[rn] \in Seq(N)  BY <2>1
    <2> QED  BY <2>2 DEF Loop
  <1> HIDE DEF f
  <1>5. /\ wk2 \in Seq(Loop(N)) /\ Len(wk2) = Len(wk) + 1 /\ DOMAIN wk2 = 1 .. Len(wk) + 1
        /\ Len(wk) \in Nat /\ DOMAIN wk = 1 .. Len(wk)
        /\ wk2[1] = f /\ \A k \in DOMAIN wk : wk2[k + 1] = wk[k]
        /\ \A k \in DOMAIN wk2 : k = 1 \/ (k - 1 \in DOMAIN wk /\ wk2[k] = wk[k - 1])
    <2>1. wk \in Seq(Loop(N))  BY DEF WalkTypes
    <2> HIDE DEF Loop
    <2> QED  BY <1>4, <2>1, PushIs
  <1> HIDE DEF wk2
  <1>6. WalkTypes(N, wk2) /\ wk2 # <<>>
    <2>1. \A k \in DOMAIN wk2 : wk2[k].i <= Len(wk2[k].list) + 1
      <3> TAKE k \in DOMAIN wk2
      <3>1. CASE k = 1
        <4>1. Len(ch[rn]) \in Nat  BY <1>4
        <4> QED  BY <1>4, <1>5, <3>1, <4>1
      <3>2. CASE k # 1  BY <1>5, <3>2 DEF WalkTypes
      <3> QED  BY <3>1, <3>2
    <2>2. wk2 # <<>>  BY <1>5
    <2> QED  BY <1>5, <2>1, <2>2 DEF WalkTypes
  <1>7. LoopsOK(ch, aw, wk2, up, U)
    <2> SUFFICES ASSUME NEW k \in DOMAIN wk2 PROVE LoopOK(ch, aw, wk2[k], up, U)
      BY DEF LoopsOK
    <2>1. CASE k = 1
      <3>1. Kids(ch, rn) = Elem(ch[rn])  BY <1>2 DEF Kids
      <3>2. \A j \in DOMAIN ch[rn] : ch[rn][j] \in Elem(ch[rn])  BY DEF Elem
      <3>3. ASSUME NEW j \in DOMAIN ch[rn], ch[rn][j] \notin U
            PROVE  up[ch[rn][j]] = 0 /\ OnceIn(ch[rn], ch[rn][j])
        <4>1. rn \notin U /\ ch[rn][j] \in N  BY <1>1, <1>2, <3>2, <3>3, AttachedIs
        <4>2. up[ch[rn][j]] = 0  BY <1>3, <3>2, <3>3, <4>1 DEF WalkOK, Running
        <4>3. OnceIn(ch[rn], ch[rn][j])  BY <1>3, <3>2, <3>3, <4>1 DEF Sole
        <4> QED  BY <4>2, <4>3
      <3>4. \A j \in DOMAIN ch[rn] : ~(j < 1)  BY <1>4
      <3>5. LoopOK(ch, aw, f, up, U)
        BY <1>4, <3>1, <3>2, <3>3, <3>4 DEF LoopOK, OnceIn
      <3> QED  BY <1>5, <2>1, <3>5
    <2>2. CASE k # 1  BY <1>3, <1>5, <2>2 DEF WalkOK, LoopsOK
    <2> QED  BY <2>1, <2>2
  <1>8. Nested(N, wk, rn, up, U) /\ Running(N, ch, rn, up, U)
    BY <1>3 DEF WalkOK
  <1>9. 1 \in DOMAIN wk
    <2>1. wk \in Seq(Loop(N))  BY DEF WalkTypes
    <2> QED  BY <2>1
  <1>10. Nested(N, wk2, None, up, U)
    <2>1. \A k \in DOMAIN wk2 : wk2[k].of = None <=> k = Len(wk2)
      BY <1>2, <1>4, <1>5, <1>8, <1>9 DEF Nested
    <2>2. \A k \in DOMAIN wk : wk[k].of = rn => rn \in U
      BY <1>8 DEF Nested
    <2>3. \A k, l \in DOMAIN wk2 : wk2[k].of = wk2[l].of /\ wk2[k].of \notin U => k = l
      <3> SUFFICES ASSUME NEW k \in DOMAIN wk2, NEW l \in DOMAIN wk2,
                          wk2[k].of = wk2[l].of, wk2[k].of \notin U
                   PROVE  k = l
        OBVIOUS
      <3>1. CASE k = 1  BY <1>4, <1>5, <2>2, <3>1
      <3>2. CASE l = 1  BY <1>4, <1>5, <2>2, <3>2
      <3>3. CASE k # 1 /\ l # 1
        <4>1. k - 1 = l - 1  BY <1>5, <1>8, <3>3 DEF Nested
        <4> QED  BY <1>5, <4>1
      <3> QED  BY <3>1, <3>2, <3>3
    <2>4. \A k \in DOMAIN wk2 : wk2[k].of \in N \ U => up[wk2[k].of] = 1 /\ wk2[k].of # None
      BY <1>2, <1>4, <1>5, <1>8 DEF Nested, Running
    <2> QED  BY <2>1, <2>3, <2>4 DEF Nested
  <1>11. Running(N, ch, None, up, U)
    BY <1>2 DEF Running
  <1>12. Passed(N, ch, aw, wk2, None, up, U)
    <2> SUFFICES ASSUME NEW p \in N \ U, up[p] = 1, \A k \in DOMAIN wk2 : wk2[k].of # p
                 PROVE  \A x \in Elem(ch[p]) : x \notin U => up[x] = IF aw[x] THEN 1 ELSE 0
      BY DEF Passed
    <2>1. p # rn  BY <1>4, <1>5
    <2>2. \A k \in DOMAIN wk : wk[k].of # p
      <3> TAKE k \in DOMAIN wk
      <3>1. k + 1 \in DOMAIN wk2 /\ wk2[k + 1] = wk[k]  BY <1>5
      <3> QED  BY <3>1
    <2> QED  BY <1>3, <2>1, <2>2 DEF WalkOK, Passed
  <1> QED  BY <1>3, <1>6, <1>7, <1>10, <1>11, <1>12 DEF WalkOK, U, wk2, f

\* A loop ends: what it was over has been updated.
LEMMA ReturnKeepsWalk ==
    ASSUME NEW N, NEW ch, NEW aw, NEW T, NEW wk, NEW up,
           TreeOf(N, ch, aw, up), WalkTypes(N, wk), T \subseteq N,
           wk # <<>>, Tail(wk) # <<>>, wk[1].i > Len(wk[1].list),
           WalkOK(N, ch, aw, wk, None, up, Tainted(N, ch, T))
    PROVE  WalkTypes(N, Tail(wk)) /\ WalkOK(N, ch, aw, Tail(wk), None, up, Tainted(N, ch, T))
  <1> DEFINE U == Tainted(N, ch, T)
             wk2 == Tail(wk)
  <1>1. WalkOK(N, ch, aw, wk, None, up, U)
    OBVIOUS
  <1>2. Attached(N, ch) /\ None \notin N
    BY DEF TreeOf
  <1> HIDE DEF U
  <1>3. /\ wk2 \in Seq(Loop(N)) /\ Len(wk) \in Nat \ {0} /\ Len(wk2) = Len(wk) - 1
        /\ DOMAIN wk2 = 1 .. Len(wk) - 1 /\ DOMAIN wk = 1 .. Len(wk)
        /\ \A k \in DOMAIN wk2 : k + 1 \in DOMAIN wk /\ wk2[k] = wk[k + 1]
        /\ 1 \in DOMAIN wk
        /\ \A k \in DOMAIN wk : k # 1 => k - 1 \in DOMAIN wk2 /\ wk2[k - 1] = wk[k]
    <2>1. wk \in Seq(Loop(N))  BY DEF WalkTypes
    <2> HIDE DEF Loop
    <2> QED  BY <2>1, PopIs
  <1>4. Len(wk) # 1
    <2>1. wk2 \in Seq(Loop(N)) /\ wk2 # <<>>  BY <1>3
    <2> QED  BY <1>3, <2>1
  <1> HIDE DEF wk2
  <1>5. WalkTypes(N, wk2)
    BY <1>3 DEF WalkTypes
  <1>6. LoopsOK(ch, aw, wk2, up, U)
    BY <1>1, <1>3 DEF WalkOK, LoopsOK
  <1>7. Nested(N, wk, None, up, U)
    BY <1>1 DEF WalkOK
  <1>8. Nested(N, wk2, None, up, U)
    <2>1. \A k \in DOMAIN wk2 : wk2[k].of = None <=> k = Len(wk2)
      BY <1>3, <1>7 DEF Nested
    <2>2. \A k, l \in DOMAIN wk2 : wk2[k].of = wk2[l].of /\ wk2[k].of \notin U => k = l
      <3> SUFFICES ASSUME NEW k \in DOMAIN wk2, NEW l \in DOMAIN wk2,
                          wk2[k].of = wk2[l].of, wk2[k].of \notin U
                   PROVE  k = l
        OBVIOUS
      <3>1. k + 1 = l + 1  BY <1>3, <1>7 DEF Nested
      <3> QED  BY <1>3, <3>1
    <2>3. \A k \in DOMAIN wk2 : wk2[k].of \in N \ U => up[wk2[k].of] = 1 /\ wk2[k].of # None
      BY <1>3, <1>7 DEF Nested
    <2> QED  BY <2>1, <2>2, <2>3 DEF Nested
  <1>9. Passed(N, ch, aw, wk2, None, up, U)
    <2> SUFFICES ASSUME NEW p \in N \ U, up[p] = 1, \A k \in DOMAIN wk2 : wk2[k].of # p,
                        NEW x \in Elem(ch[p]), x \notin U
                 PROVE  up[x] = IF aw[x] THEN 1 ELSE 0
      BY DEF Passed
    <2>1. CASE wk[1].of = p
      <3> DEFINE f == wk[1]
      <3>1. LoopOK(ch, aw, f, up, U)  BY <1>1, <1>3 DEF WalkOK, LoopsOK
      <3>2. f.list \in Seq(N) /\ f.i \in Nat /\ f.i > Len(f.list)  BY <1>3, LoopIs
      <3>3. x \in Kids(ch, f.of)  BY <1>2, <2>1 DEF Kids
      <3> HIDE DEF f
      <3>4. x \in Elem(f.list)  BY <3>1, <3>3 DEF LoopOK
      <3>5. PICK j \in DOMAIN f.list : f.list[j] = x  BY <3>4 DEF Elem
      <3>6. j < f.i  BY <3>2
      <3> QED  BY <3>1, <3>5, <3>6 DEF LoopOK
    <2>2. CASE wk[1].of # p
      <3>1. \A k \in DOMAIN wk : wk[k].of # p  BY <1>3, <2>2
      <3>2. p # None  BY <1>2
      <3> QED  BY <1>1, <3>1, <3>2 DEF WalkOK, Passed
    <2> QED  BY <2>1, <2>2
  <1> QED  BY <1>1, <1>5, <1>6, <1>8, <1>9 DEF WalkOK, U, wk2

\* The walk begins at the root, with nothing updated.
LEMMA FrameStartsWalk ==
    ASSUME NEW N, NEW ch, NEW aw, NEW T, NEW up, TreeOf(N, ch, aw, up), T \subseteq N,
           \A n \in N : up[n] = 0
    PROVE  LET wk == <<[of |-> None, list |-> <<Root>>, i |-> 1]>>
           IN  WalkTypes(N, wk) /\ wk # <<>> /\ WalkOK(N, ch, aw, wk, None, up, Tainted(N, ch, T))
  <1> DEFINE U == Tainted(N, ch, T)
             f == [of |-> None, list |-> <<Root>>, i |-> 1]
             wk == <<f>>
  <1>1. Attached(N, ch) /\ Root \in N /\ None \notin N
    BY DEF TreeOf
  <1> HIDE DEF U
  <1>2. f \in Loop(N) /\ f.of = None /\ f.list = <<Root>> /\ f.i = 1
    BY <1>1 DEF Loop
  <1>3. DOMAIN <<Root>> = {1} /\ Len(<<Root>>) = 1 /\ <<Root>>[1] = Root
    OBVIOUS
  <1> HIDE DEF f
  <1>4. wk \in Seq(Loop(N)) /\ DOMAIN wk = {1} /\ Len(wk) = 1 /\ wk[1] = f /\ wk # <<>>
    <2> HIDE DEF Loop
    <2> QED  BY <1>2
  <1> HIDE DEF wk
  <1>5. WalkTypes(N, wk)
    BY <1>2, <1>3, <1>4 DEF WalkTypes
  <1>6. LoopOK(ch, aw, f, up, U)
    BY <1>1, <1>2, <1>3 DEF LoopOK, Kids, Elem
  <1>7. LoopsOK(ch, aw, wk, up, U) /\ Nested(N, wk, None, up, U) /\ Running(N, ch, None, up, U)
    BY <1>1, <1>2, <1>4, <1>6 DEF LoopsOK, Nested, Running
  <1>8. Counted(N, ch, aw, up, U) /\ Passed(N, ch, aw, wk, None, up, U)
    BY DEF Counted, Passed
  <1> QED  BY <1>4, <1>5, <1>7, <1>8 DEF WalkOK, U, wk, f

\* It ends with every element in the tree updated, and no other.
LEMMA WalkUpdatesAll ==
    ASSUME NEW N, NEW ch, NEW aw, NEW T, NEW wk, NEW up,
           TreeOf(N, ch, aw, up), WalkTypes(N, wk), T \subseteq N,
           wk # <<>>, Tail(wk) = <<>>, wk[1].i > Len(wk[1].list),
           WalkOK(N, ch, aw, wk, None, up, Tainted(N, ch, T)),
           NEW n \in N, n \notin Tainted(N, ch, T)
    PROVE  up[n] = IF aw[n] /\ Reach(N, ch, aw, n) THEN 1 ELSE 0
  <1> DEFINE U == Tainted(N, ch, T)
             f == wk[1]
  <1>1. U \subseteq N /\ \A p \in U : Elem(ch[p]) \subseteq U
    BY TaintedIs DEF TreeOf
  <1>2. Attached(N, ch) /\ Root \in N /\ None \notin N
    BY DEF TreeOf
  <1>3. WalkOK(N, ch, aw, wk, None, up, U) /\ n \notin U
    OBVIOUS
  <1> HIDE DEF U
  <1>4. wk \in Seq(Loop(N)) /\ Len(wk) = 1 /\ DOMAIN wk = {1} /\ 1 \in DOMAIN wk
    <2>1. wk \in Seq(Loop(N))  BY DEF WalkTypes
    <2>2. Len(wk) = 1
      <3> HIDE DEF Loop
      <3>1. Len(wk) \in Nat \ {0} /\ Len(Tail(wk)) = Len(wk) - 1  BY <2>1, PopIs
      <3> QED  BY <3>1
    <2> QED  BY <2>1, <2>2
  <1>5. LoopOK(ch, aw, f, up, U) /\ f.of = None
    BY <1>3, <1>4 DEF WalkOK, LoopsOK, Nested
  <1>6. f.list \in Seq(N) /\ f.i \in Nat /\ f.i > Len(f.list)
    BY <1>4, LoopIs
  <1>7. Root \notin U => up[Root] = IF aw[Root] THEN 1 ELSE 0
    <2> HAVE Root \notin U
    <2>1. Root \in Elem(f.list)  BY <1>5 DEF LoopOK, Kids
    <2>2. PICK j \in DOMAIN f.list : f.list[j] = Root  BY <2>1 DEF Elem
    <2> HIDE DEF f
    <2>3. j < f.i  BY <1>6
    <2> QED  BY <1>5, <2>2, <2>3 DEF LoopOK
  <1>8. \A p \in N \ U : up[p] = 1 => \A x \in Elem(ch[p]) : x \notin U => up[x] = IF aw[x] THEN 1 ELSE 0
    <2> TAKE p \in N \ U
    <2>1. p # None /\ \A k \in DOMAIN wk : wk[k].of # p  BY <1>2, <1>4, <1>5
    <2> QED  BY <1>3, <2>1 DEF WalkOK, Passed
  <1>9. Reach(N, ch, aw, n) /\ aw[n] => up[n] = 1
    <2> HAVE Reach(N, ch, aw, n) /\ aw[n]
    <2> DEFINE S == U \cup {x \in N : aw[x] => up[x] = 1}
    <2>1. Root \in S  BY <1>2, <1>7
    <2>2. ASSUME NEW q \in S, aw[q], NEW x \in Elem(ch[q]) PROVE x \in S
      <3>1. x \in N  BY <1>1, <1>2, AttachedIs
      <3>2. CASE q \in U  BY <1>1, <3>2
      <3>3. CASE q \notin U
        <4>1. q \in N /\ up[q] = 1  BY <1>1, <2>2, <3>3
        <4> QED  BY <1>8, <3>1, <3>3, <4>1
      <3> QED  BY <3>2, <3>3
    <2>3. S \in SUBSET N  BY <1>1
    <2> HIDE DEF S
    <2>4. n \in S  BY <2>1, <2>2, <2>3 DEF Reach
    <2> QED  BY <1>3, <2>4 DEF S
  <1>10. up[n] \in {0, 1} /\ (up[n] = 1 => aw[n] /\ Reach(N, ch, aw, n))
    BY <1>3 DEF WalkOK, Counted
  <1> QED  BY <1>9, <1>10

\* An element that its own removal has not touched is where its parent is, once, and not
\* there while a call is about it; two calls are about it only if it is removed to be added.
OnePlace(N, par, ch, pe, tn) ==
    /\ \A c \in N \ tn, p \in N : c \in Elem(ch[p]) =>
           par[c] = p /\ OnceIn(ch[p], c) /\ \A k \in DOMAIN pe : pe[k].child # c
    /\ \A k, l \in DOMAIN pe :
           k < l /\ pe[k].child = pe[l].child /\ pe[k].child \notin tn => pe[k].op = "clear"

\* pe2 is pe with d frames about c before it.
Pushed(pe, pe2, d, c) ==
    \A k \in DOMAIN pe2 :
        IF k <= d THEN pe2[k].child = c /\ (k < d => pe2[k].op = "clear")
                  ELSE k - d \in DOMAIN pe /\ pe2[k] = pe[k - d]

Calls(N, S, par, ch, pe, tn, ch2, pe2, tn2, c, d) ==
    /\ c \in N /\ d \in Nat /\ pe2 \in Seq(S) /\ OnePlace(N, par, ch, pe, tn) /\ Pushed(pe, pe2, d, c)
    /\ \A x, p \in N : x # c /\ x \in Elem(ch2[p]) =>
           x \in Elem(ch[p]) /\ (OnceIn(ch[p], x) => OnceIn(ch2[p], x))
    /\ tn2 = IF \E k \in DOMAIN pe : pe[k].child = c THEN tn \cup {c} ELSE tn
    /\ c \notin tn2 => \A p \in N : c \in Elem(ch2[p]) =>
           d = 0 /\ c \in Elem(ch[p]) /\ (OnceIn(ch[p], c) => OnceIn(ch2[p], c))

LEMMA CallsKeepPlace ==
    ASSUME NEW N, NEW S, NEW par, NEW ch, NEW pe, NEW tn, NEW ch2, NEW pe2, NEW tn2, NEW c, NEW d,
           Calls(N, S, par, ch, pe, tn, ch2, pe2, tn2, c, d)
    PROVE  OnePlace(N, par, ch2, pe2, tn2)
  <1> USE DEF Calls
  <1>1. ASSUME NEW x \in N \ tn2, NEW p \in N, x \in Elem(ch2[p])
        PROVE  par[x] = p /\ OnceIn(ch2[p], x) /\ \A k \in DOMAIN pe2 : pe2[k].child # x
    <2>1. x \notin tn  BY <1>1
    <2>2. x \in Elem(ch[p]) /\ (OnceIn(ch[p], x) => OnceIn(ch2[p], x)) /\ (x = c => d = 0)
      BY <1>1
    <2>3. par[x] = p /\ OnceIn(ch[p], x) /\ \A k \in DOMAIN pe : pe[k].child # x
      BY <2>1, <2>2 DEF OnePlace
    <2>4. ASSUME NEW k \in DOMAIN pe2 PROVE pe2[k].child # x
      <3>1. k \in Nat \ {0}  OBVIOUS
      <3>2. CASE k <= d
        <4>1. pe2[k].child = c  BY <3>2 DEF Pushed
        <4> QED  BY <2>2, <3>1, <3>2, <4>1
      <3>3. CASE ~(k <= d)
        <4>1. k - d \in DOMAIN pe /\ pe2[k] = pe[k - d]  BY <3>3 DEF Pushed
        <4> QED  BY <2>3, <4>1
      <3> QED  BY <3>2, <3>3
    <2> QED  BY <2>2, <2>3, <2>4
  <1>2. ASSUME NEW k \in DOMAIN pe2, NEW l \in DOMAIN pe2, k < l,
               pe2[k].child = pe2[l].child, pe2[k].child \notin tn2
        PROVE  pe2[k].op = "clear"
    <2>1. k \in Nat /\ l \in Nat  OBVIOUS
    <2>2. CASE l <= d  BY <1>2, <2>1, <2>2 DEF Pushed
    <2>3. CASE k <= d /\ ~(l <= d)
      <3>1. pe2[k].child = c /\ l - d \in DOMAIN pe /\ pe2[l] = pe[l - d]  BY <2>3 DEF Pushed
      <3> QED  BY <1>2, <3>1
    <2>4. CASE ~(k <= d) /\ ~(l <= d)
      <3>1. /\ k - d \in DOMAIN pe /\ pe2[k] = pe[k - d]
            /\ l - d \in DOMAIN pe /\ pe2[l] = pe[l - d]
        BY <2>4 DEF Pushed
      <3>2. k - d < l - d  BY <1>2, <2>1
      <3>3. pe2[k].child \notin tn  BY <1>2
      <3> QED  BY <1>2, <3>1, <3>2, <3>3 DEF OnePlace
    <2> QED  BY <2>2, <2>3, <2>4
  <1> QED  BY <1>1, <1>2 DEF OnePlace

\* The first of the calls goes on: its element is nowhere, and then where it is to be.
Ends(N, S, par, ch, pe, tn, ch2, c, to) ==
    /\ par \in [N -> N \cup {None}] /\ pe \in Seq(S) /\ c \in N
    /\ OnePlace(N, par, ch, pe, tn) /\ pe # <<>> /\ c = pe[1].child
    /\ \A x, p \in N : x # c /\ x \in Elem(ch2[p]) =>
           x \in Elem(ch[p]) /\ (OnceIn(ch[p], x) => OnceIn(ch2[p], x))
    /\ \A p \in N : c \in Elem(ch2[p]) /\ c \notin Elem(ch[p]) =>
           p = to /\ OnceIn(ch2[p], c) /\ pe[1].op # "clear"

LEMMA FinishKeepsPlace ==
    ASSUME NEW N, NEW S, NEW par, NEW ch, NEW pe, NEW tn, NEW ch2, NEW c, NEW to,
           Ends(N, S, par, ch, pe, tn, ch2, c, to)
    PROVE  OnePlace(N, [par EXCEPT ![c] = to], ch2, Tail(pe), tn)
  <1> USE DEF Ends
  <1> DEFINE pe2 == Tail(pe)
             par2 == [par EXCEPT ![c] = to]
  <1>1. /\ Len(pe) \in Nat \ {0} /\ DOMAIN pe = 1 .. Len(pe) /\ 1 \in DOMAIN pe
        /\ \A k \in DOMAIN pe2 : k \in Nat \ {0} /\ k + 1 \in DOMAIN pe /\ pe2[k] = pe[k + 1]
    BY PopIs
  <1>2. par2[c] = to /\ \A x \in N : x # c => par2[x] = par[x]
    OBVIOUS
  <1> HIDE DEF pe2, par2
  <1>3. c \notin tn => \A p \in N : c \notin Elem(ch[p])
    BY <1>1 DEF OnePlace
  <1>4. ASSUME NEW x \in N \ tn, NEW p \in N, x \in Elem(ch2[p])
        PROVE  par2[x] = p /\ OnceIn(ch2[p], x) /\ \A k \in DOMAIN pe2 : pe2[k].child # x
    <2>1. CASE x # c
      <3>1. x \in Elem(ch[p]) /\ (OnceIn(ch[p], x) => OnceIn(ch2[p], x))  BY <1>4, <2>1
      <3>2. par[x] = p /\ OnceIn(ch[p], x) /\ \A k \in DOMAIN pe : pe[k].child # x
        BY <3>1 DEF OnePlace
      <3> QED  BY <1>1, <1>2, <2>1, <3>1, <3>2
    <2>2. CASE x = c
      <3>1. p = to /\ OnceIn(ch2[p], c) /\ pe[1].op # "clear"  BY <1>3, <1>4, <2>2
      <3>2. ASSUME NEW k \in DOMAIN pe2 PROVE pe2[k].child # c
        <4>1. k + 1 \in DOMAIN pe /\ pe2[k] = pe[k + 1] /\ 1 < k + 1  BY <1>1
        <4> QED  BY <1>1, <1>4, <2>2, <3>1, <4>1 DEF OnePlace
      <3> QED  BY <1>2, <2>2, <3>1, <3>2
    <2> QED  BY <2>1, <2>2
  <1>5. ASSUME NEW k \in DOMAIN pe2, NEW l \in DOMAIN pe2, k < l,
               pe2[k].child = pe2[l].child, pe2[k].child \notin tn
        PROVE  pe2[k].op = "clear"
    <2>1. /\ k + 1 \in DOMAIN pe /\ pe2[k] = pe[k + 1] /\ l + 1 \in DOMAIN pe /\ pe2[l] = pe[l + 1]
          /\ k + 1 < l + 1
      BY <1>1, <1>5
    <2> QED  BY <1>5, <2>1 DEF OnePlace
  <1> QED  BY <1>4, <1>5 DEF OnePlace, pe2, par2

-----------------------------------------------------------------------------
(* The states of the tree *)

CallFrame(N) ==
    [op : {"clear", "attach"}, child : N, to : N \cup {None}, at : Nat, heard : BOOLEAN]
CallOK(f) == f.op = "attach" => f.child # Root /\ f.to # None /\ f.at # 0

\* What is under way is about what has moved, and between frames nothing was updated.
TreeTypes(N, m) ==
    /\ parent \in [N -> N \cup {None}] /\ TreeOf(N, children, awake, updated)
    /\ pending \in Seq(CallFrame(N)) /\ (\A k \in DOMAIN pending : CallOK(pending[k]))
    /\ WalkTypes(N, walk) /\ running \in N \cup {None} /\ elementsCalls \in 0 .. m
    /\ moved \subseteq N /\ torn \subseteq N
    /\ walk = <<>> => running = None /\ moved = {} /\ \A n \in N : updated[n] = 0
    /\ walk # <<>> => \A k \in DOMAIN pending : pending[k].child \in moved

WalkHolds(N) ==
    walk # <<>> => WalkOK(N, children, awake, walk, running, updated,
                          Tainted(N, children, moved \cup torn))

TreeInv(N, m) ==
    /\ TreeTypes(N, m) /\ OnePlace(N, parent, children, pending, torn) /\ WalkHolds(N)

LEMMA TreeStarts ==
    ASSUME NEW CONSTANT N, NEW CONSTANT m, Tree(N, m)!ElementsAssumption, Tree(N, m)!Init
    PROVE  TreeInv(N, m)
  <1>1. /\ Root \in N /\ None \notin N /\ m \in Nat
        /\ parent = [n \in N |-> None] /\ children = [n \in N |-> <<>>]
        /\ awake = [n \in N |-> TRUE] /\ pending = <<>> /\ walk = <<>> /\ running = None
        /\ elementsCalls = 0 /\ updated = [n \in N |-> 0] /\ moved = {} /\ torn = {}
    BY DEF Tree!ElementsAssumption, Tree!Init
  <1>2. <<>> \in Seq(N \ {Root}) /\ <<>> \in Seq(Loop(N)) /\ <<>> \in Seq(CallFrame(N)) /\ DOMAIN <<>> = {}
    OBVIOUS
  <1>3. TreeOf(N, children, awake, updated)
    BY <1>1, <1>2 DEF TreeOf, Attached
  <1>4. WalkTypes(N, walk)
    BY <1>1, <1>2 DEF WalkTypes
  <1>5. TreeTypes(N, m)
    BY <1>1, <1>2, <1>3, <1>4 DEF TreeTypes
  <1>6. \A p \in N : Elem(children[p]) = {}
    BY <1>1, <1>2 DEF Elem
  <1>7. OnePlace(N, parent, children, pending, torn)
    BY <1>1, <1>2, <1>6 DEF OnePlace
  <1> QED  BY <1>1, <1>5, <1>7 DEF TreeInv, WalkHolds

LEMMA TreeStays ==
    ASSUME NEW CONSTANT N, NEW CONSTANT m, TreeInv(N, m), UNCHANGED elementsVars
    PROVE  TreeInv(N, m)'
  BY DEF elementsVars, TreeInv, TreeTypes, WalkHolds

\* A call about c that pushes d frames.
LEMMA CallKeepsTree ==
    ASSUME NEW CONSTANT N, NEW CONSTANT m, Tree(N, m)!ElementsAssumption, TreeInv(N, m),
           NEW c \in N, Tree(N, m)!CanCall, Tree(N, m)!Touch(c), parent' = parent,
           Attached(N, children'), awake' \in [N -> BOOLEAN],
           \A x \in N : x # c => awake'[x] = awake[x],
           \A x, p \in N : x # c =>
               /\ x \in Elem(children'[p]) <=> x \in Elem(children[p])
               /\ OnceIn(children[p], x) => OnceIn(children'[p], x),
           pending' \in Seq(CallFrame(N)), \A k \in DOMAIN pending' : CallOK(pending'[k]),
           NEW d \in Nat, Pushed(pending, pending', d, c),
           c \notin torn' => \A p \in N : c \in Elem(children'[p]) =>
               d = 0 /\ c \in Elem(children[p])
               /\ (OnceIn(children[p], c) => OnceIn(children'[p], c))
    PROVE  TreeInv(N, m)'
  <1>1. /\ elementsCalls' = elementsCalls + 1 /\ elementsCalls < m
        /\ moved' = (IF walk = <<>> THEN moved ELSE moved \cup {c})
        /\ torn' = (IF \E k \in DOMAIN pending : pending[k].child = c THEN torn \cup {c} ELSE torn)
        /\ walk' = walk /\ running' = running /\ updated' = updated
    BY DEF Tree!CanCall, Tree!Touch
  <1>2. TreeTypes(N, m)
    BY DEF TreeInv
  <1>3. m \in Nat /\ elementsCalls' \in 0 .. m
    BY <1>1, <1>2 DEF TreeTypes, Tree!ElementsAssumption
  <1>4. TreeOf(N, children', awake', updated')
    BY <1>1, <1>2 DEF TreeTypes, TreeOf
  <1>5. walk' # <<>> => \A k \in DOMAIN pending' : pending'[k].child \in moved'
    <2> SUFFICES ASSUME walk # <<>>, NEW k \in DOMAIN pending' PROVE pending'[k].child \in moved'
      BY <1>1
    <2>1. moved' = moved \cup {c}  BY <1>1
    <2>2. CASE k <= d  BY <2>1, <2>2 DEF Pushed
    <2>3. CASE ~(k <= d)
      <3>1. k - d \in DOMAIN pending /\ pending'[k] = pending[k - d]  BY <2>3 DEF Pushed
      <3> QED  BY <1>2, <2>1, <3>1 DEF TreeTypes
    <2> QED  BY <2>2, <2>3
  <1>6. TreeTypes(N, m)'
    <2>1. moved' \subseteq N /\ torn' \subseteq N  BY <1>1, <1>2 DEF TreeTypes
    <2>2. walk' = <<>> => running' = None /\ moved' = {} /\ \A n \in N : updated'[n] = 0
      BY <1>1, <1>2 DEF TreeTypes
    <2>3. parent' \in [N -> N \cup {None}] /\ WalkTypes(N, walk') /\ running' \in N \cup {None}
      BY <1>1, <1>2 DEF TreeTypes
    <2> QED  BY <1>3, <1>4, <1>5, <2>1, <2>2, <2>3 DEF TreeTypes
  <1>7. OnePlace(N, parent', children', pending', torn')
    <2>1. OnePlace(N, parent, children, pending, torn)  BY DEF TreeInv
    <2>2. \A x, p \in N : x # c /\ x \in Elem(children'[p]) =>
               x \in Elem(children[p]) /\ (OnceIn(children[p], x) => OnceIn(children'[p], x))
      OBVIOUS
    <2>3. Calls(N, CallFrame(N), parent, children, pending, torn, children', pending', torn', c, d)
      BY <1>1, <2>1, <2>2 DEF Calls
    <2>4. OnePlace(N, parent, children', pending', torn')
      BY <2>3, CallsKeepPlace
    <2> QED  BY <2>4
  <1>8. WalkHolds(N)'
    <2> SUFFICES ASSUME walk # <<>>
                 PROVE  WalkOK(N, children', awake', walk, running, updated,
                               Tainted(N, children', moved' \cup torn'))
      BY <1>1 DEF WalkHolds
    <2>1. WalkOK(N, children, awake, walk, running, updated, Tainted(N, children, moved \cup torn))
      BY DEF TreeInv, WalkHolds
    <2>2. moved \cup torn \subseteq moved' \cup torn' /\ moved' \cup torn' \subseteq N /\ c \in moved'
      BY <1>1, <1>2 DEF TreeTypes
    <2>3. Same(N, children, awake, children', awake', moved' \cup torn')
      BY <2>2 DEF Same
    <2>4. TreeOf(N, children', awake', updated) /\ WalkTypes(N, walk) /\ running \in N \cup {None}
          /\ TreeOf(N, children, awake, updated)
      BY <1>1, <1>2, <1>4 DEF TreeTypes
    <2> QED  BY <2>1, <2>2, <2>3, <2>4, CallsKeepWalk
  <1> QED  BY <1>6, <1>7, <1>8 DEF TreeInv

LEMMA TwoPushed ==
    ASSUME NEW S, NEW q \in Seq(S), NEW a \in S, NEW b \in S
    PROVE  LET r == <<a, b>> \o q
           IN  /\ r \in Seq(S) /\ r[1] = a /\ r[2] = b
               /\ \A k \in DOMAIN r : k = 1 \/ k = 2 \/ (k - 2 \in DOMAIN q /\ r[k] = q[k - 2])
  OBVIOUS

LEMMA SplicedIs ==
    ASSUME NEW CONSTANT N, NEW CONSTANT m, Attached(N, children), NEW p \in N, NEW c,
           Tree(N, m)!Splice(p, c)
    PROVE  /\ Attached(N, children')
           /\ \A x, q \in N : x # c =>
                 /\ x \in Elem(children'[q]) <=> x \in Elem(children[q])
                 /\ OnceIn(children[q], x) => OnceIn(children'[q], x)
           /\ \A q \in N : c \in Elem(children'[q]) =>
                 c \in Elem(children[q]) /\ (OnceIn(children[q], c) => OnceIn(children'[q], c))
           /\ OnceIn(children[p], c) => c \notin Elem(children'[p])
  <1> DEFINE e == Tree(N, m)!Erased(children[p], c)
  <1>1. children' = [children EXCEPT ![p] = e]
    BY DEF Tree!Splice
  <1>2. children \in [N -> Seq(N \ {Root})]
    BY DEF Attached
  <1>3. /\ e \in Seq(N \ {Root})
        /\ \A x : x \in Elem(e) => x \in Elem(children[p])
        /\ \A x : x # c /\ x \in Elem(children[p]) => x \in Elem(e)
        /\ \A x : OnceIn(children[p], x) => OnceIn(e, x)
        /\ OnceIn(children[p], c) => c \notin Elem(e)
    <2>1. children[p] \in Seq(N \ {Root})  BY <1>2
    <2> QED  BY <2>1, ErasedIs
  <1> HIDE DEF e
  <1>4. children'[p] = e /\ \A q \in N : q # p => children'[q] = children[q]
    BY <1>1, <1>2
  <1>5. Attached(N, children')
    BY <1>1, <1>2, <1>3 DEF Attached
  <1> QED  BY <1>3, <1>4, <1>5

\* Who is somewhere after the splice that removes it is touched by its own removal.
LEMMA SplicedIsNowhere ==
    ASSUME NEW CONSTANT N, NEW CONSTANT m, TreeInv(N, m), NEW c \in N, parent[c] # None,
           Tree(N, m)!Splice(parent[c], c), c \notin torn
    PROVE  \A q \in N : c \notin Elem(children'[q])
  <1>1. parent[c] \in N /\ Attached(N, children)
    BY DEF TreeInv, TreeTypes, TreeOf
  <1>2. \A q \in N : c \in Elem(children[q]) => parent[c] = q /\ OnceIn(children[q], c)
    BY DEF TreeInv, OnePlace
  <1>3. /\ \A q \in N : c \in Elem(children'[q]) => c \in Elem(children[q])
        /\ OnceIn(children[parent[c]], c) => c \notin Elem(children'[parent[c]])
    BY <1>1, SplicedIs
  <1> QED  BY <1>2, <1>3

LEMMA FramesAre ==
    ASSUME NEW CONSTANT N, NEW CONSTANT m, NEW c \in N
    PROVE  LET clear == Tree(N, m)!Clear(c)
           IN  clear \in CallFrame(N) /\ CallOK(clear) /\ clear.child = c /\ clear.op = "clear"
  <1> DEFINE b == Tree(N, m)!Has(parent[c], c) /\ c \in Listening
             h == Tree(N, m)!Clear(c)
  <1>1. h = [op |-> "clear", child |-> c, to |-> None, at |-> 0, heard |-> b]
    BY DEF Tree!Clear
  <1>2. b \in BOOLEAN
    BY Zenon
  <1> HIDE DEF b, h
  <1>3. h \in CallFrame(N)
    BY <1>1, <1>2 DEF CallFrame
  <1> QED  BY <1>1, <1>3 DEF CallOK, h

LEMMA AttachIs ==
    ASSUME NEW CONSTANT N, NEW CONSTANT m, NEW c \in N, c # Root, NEW p \in N, None \notin N,
           NEW i \in Nat \ {0}
    PROVE  LET attach == Tree(N, m)!Attach(c, p, i)
           IN  attach \in CallFrame(N) /\ CallOK(attach) /\ attach.child = c
  BY DEF Tree!Attach, CallFrame, CallOK

LEMMA RemoveElementKeeps ==
    ASSUME NEW CONSTANT N, NEW CONSTANT m, Tree(N, m)!ElementsAssumption, TreeInv(N, m),
           NEW c \in N, Tree(N, m)!RemoveElement(c)
    PROVE  TreeInv(N, m)'
  <1> DEFINE h == Tree(N, m)!Clear(c)
  <1>1. /\ Tree(N, m)!CanCall /\ parent[c] # None /\ Tree(N, m)!Splice(parent[c], c)
        /\ pending' = <<h>> \o pending /\ Tree(N, m)!Touch(c)
        /\ parent' = parent /\ awake' = awake
    BY DEF Tree!RemoveElement
  <1>2. /\ parent[c] \in N /\ Attached(N, children) /\ awake \in [N -> BOOLEAN]
        /\ pending \in Seq(CallFrame(N)) /\ \A k \in DOMAIN pending : CallOK(pending[k])
    BY <1>1 DEF TreeInv, TreeTypes, TreeOf
  <1>3. h \in CallFrame(N) /\ CallOK(h) /\ h.child = c
    BY FramesAre
  <1> HIDE DEF h
  <1>4. /\ pending' \in Seq(CallFrame(N)) /\ pending'[1] = h
        /\ \A k \in DOMAIN pending' :
               k = 1 \/ (k - 1 \in DOMAIN pending /\ pending'[k] = pending[k - 1])
    BY <1>1, <1>2, <1>3, PushIs
  <1>5. \A k \in DOMAIN pending' : CallOK(pending'[k])
    BY <1>2, <1>3, <1>4
  <1>6. Pushed(pending, pending', 1, c)
    <2>1. \A k \in DOMAIN pending' : k \in Nat \ {0}  BY <1>4
    <2> QED  BY <1>3, <1>4, <2>1 DEF Pushed
  <1>7. c \notin torn' => \A q \in N : c \notin Elem(children'[q])
    <2>1. c \notin torn' => c \notin torn  BY <1>1 DEF Tree!Touch
    <2> QED  BY <1>1, <2>1, SplicedIsNowhere
  <1>8. /\ Attached(N, children')
        /\ \A x, q \in N : x # c =>
              /\ x \in Elem(children'[q]) <=> x \in Elem(children[q])
              /\ OnceIn(children[q], x) => OnceIn(children'[q], x)
    BY <1>1, <1>2, SplicedIs
  <1> QED  BY <1>1, <1>2, <1>4, <1>5, <1>6, <1>7, <1>8, CallKeepsTree

LEMMA RemoveChildKeeps ==
    ASSUME NEW CONSTANT N, NEW CONSTANT m, Tree(N, m)!ElementsAssumption, TreeInv(N, m),
           NEW c \in N, NEW p \in N, Tree(N, m)!RemoveChild(p, c)
    PROVE  TreeInv(N, m)'
  <1>1. /\ Tree(N, m)!CanCall /\ Tree(N, m)!Splice(p, c) /\ Tree(N, m)!Touch(c)
        /\ parent' = parent /\ awake' = awake /\ pending' = pending
    BY DEF Tree!RemoveChild
  <1>2. /\ Attached(N, children) /\ awake \in [N -> BOOLEAN]
        /\ pending \in Seq(CallFrame(N)) /\ \A k \in DOMAIN pending : CallOK(pending[k])
    BY <1>1 DEF TreeInv, TreeTypes, TreeOf
  <1>3. Pushed(pending, pending', 0, c)
    <2>1. \A k \in DOMAIN pending : k \in Nat \ {0} /\ k - 0 = k  BY <1>2
    <2> QED  BY <1>1, <2>1 DEF Pushed
  <1>4. /\ Attached(N, children')
        /\ \A x, q \in N : x # c =>
              /\ x \in Elem(children'[q]) <=> x \in Elem(children[q])
              /\ OnceIn(children[q], x) => OnceIn(children'[q], x)
        /\ \A q \in N : c \in Elem(children'[q]) =>
              c \in Elem(children[q]) /\ (OnceIn(children[q], c) => OnceIn(children'[q], c))
    BY <1>1, <1>2, SplicedIs
  <1> QED  BY <1>1, <1>2, <1>3, <1>4, CallKeepsTree

LEMMA SetAwakeKeeps ==
    ASSUME NEW CONSTANT N, NEW CONSTANT m, Tree(N, m)!ElementsAssumption, TreeInv(N, m),
           NEW c \in N, NEW b \in BOOLEAN, Tree(N, m)!SetAwake(c, b)
    PROVE  TreeInv(N, m)'
  <1>1. /\ Tree(N, m)!CanCall /\ awake' = [awake EXCEPT ![c] = b] /\ Tree(N, m)!Touch(c)
        /\ parent' = parent /\ children' = children /\ pending' = pending
    BY DEF Tree!SetAwake
  <1>2. /\ Attached(N, children) /\ awake \in [N -> BOOLEAN]
        /\ pending \in Seq(CallFrame(N)) /\ \A k \in DOMAIN pending : CallOK(pending[k])
    BY <1>1 DEF TreeInv, TreeTypes, TreeOf
  <1>3. Pushed(pending, pending', 0, c)
    <2>1. \A k \in DOMAIN pending : k \in Nat \ {0} /\ k - 0 = k  BY <1>2
    <2> QED  BY <1>1, <2>1 DEF Pushed
  <1>4. awake' \in [N -> BOOLEAN] /\ \A x \in N : x # c => awake'[x] = awake[x]
    BY <1>1, <1>2
  <1> QED  BY <1>1, <1>2, <1>3, <1>4, CallKeepsTree

LEMMA AddChildKeeps ==
    ASSUME NEW CONSTANT N, NEW CONSTANT m, Tree(N, m)!ElementsAssumption, TreeInv(N, m),
           NEW c \in N, NEW p \in N, NEW i, Tree(N, m)!AddChild(c, p, i)
    PROVE  TreeInv(N, m)'
  <1> DEFINE h == Tree(N, m)!Clear(c)
             a == Tree(N, m)!Attach(c, p, i)
  <1>1. /\ Tree(N, m)!CanCall /\ c # Root /\ i \in {1, Len(children[p]) + 1}
        /\ Tree(N, m)!Touch(c) /\ parent' = parent /\ awake' = awake
    BY DEF Tree!AddChild
  <1>2. \/ parent[c] # None /\ Tree(N, m)!Splice(parent[c], c) /\ pending' = <<h, a>> \o pending
        \/ parent[c] = None /\ children' = children /\ pending' = <<a>> \o pending
    BY DEF Tree!AddChild, Tree!RemovesFirst
  <1>3. /\ Attached(N, children) /\ awake \in [N -> BOOLEAN] /\ None \notin N /\ parent[c] \in N \cup {None}
        /\ pending \in Seq(CallFrame(N)) /\ \A k \in DOMAIN pending : CallOK(pending[k])
    BY <1>1 DEF TreeInv, TreeTypes, TreeOf
  <1>4. i \in Nat \ {0}
    <2>1. children[p] \in Seq(N \ {Root})  BY <1>3 DEF Attached
    <2>2. Len(children[p]) \in Nat  BY <2>1
    <2> QED  BY <1>1, <2>2
  <1>5. h \in CallFrame(N) /\ CallOK(h) /\ h.child = c /\ h.op = "clear"
    BY FramesAre
  <1>6. a \in CallFrame(N) /\ CallOK(a) /\ a.child = c
    BY <1>1, <1>3, <1>4, AttachIs
  <1> HIDE DEF h, a
  <1>7. c \notin torn' => c \notin torn
    BY <1>1 DEF Tree!Touch
  <1>8. CASE parent[c] # None
    <2>1. Tree(N, m)!Splice(parent[c], c) /\ pending' = <<h, a>> \o pending
      BY <1>2, <1>8
    <2>2. /\ pending' \in Seq(CallFrame(N)) /\ pending'[1] = h /\ pending'[2] = a
          /\ \A k \in DOMAIN pending' :
                 k = 1 \/ k = 2 \/ (k - 2 \in DOMAIN pending /\ pending'[k] = pending[k - 2])
      BY <1>3, <1>5, <1>6, <2>1, TwoPushed
    <2>3. \A k \in DOMAIN pending' : CallOK(pending'[k])
      BY <1>3, <1>5, <1>6, <2>2
    <2>4. Pushed(pending, pending', 2, c)
      <3>1. \A k \in DOMAIN pending' : k \in Nat \ {0}  BY <2>2
      <3> QED  BY <1>5, <1>6, <2>2, <3>1 DEF Pushed
    <2>5. c \notin torn' => \A q \in N : c \notin Elem(children'[q])
      BY <1>7, <1>8, <2>1, SplicedIsNowhere
    <2>6. /\ Attached(N, children')
          /\ \A x, q \in N : x # c =>
                /\ x \in Elem(children'[q]) <=> x \in Elem(children[q])
                /\ OnceIn(children[q], x) => OnceIn(children'[q], x)
      <3>1. parent[c] \in N  BY <1>3, <1>8
      <3> QED  BY <1>3, <2>1, <3>1, SplicedIs
    <2> QED  BY <1>1, <1>3, <2>2, <2>3, <2>4, <2>5, <2>6, CallKeepsTree
  <1>9. CASE parent[c] = None
    <2>1. children' = children /\ pending' = <<a>> \o pending
      BY <1>2, <1>9
    <2>2. /\ pending' \in Seq(CallFrame(N)) /\ pending'[1] = a
          /\ \A k \in DOMAIN pending' :
                 k = 1 \/ (k - 1 \in DOMAIN pending /\ pending'[k] = pending[k - 1])
      BY <1>3, <1>6, <2>1, PushIs
    <2>3. \A k \in DOMAIN pending' : CallOK(pending'[k])
      BY <1>3, <1>6, <2>2
    <2>4. Pushed(pending, pending', 1, c)
      <3>1. \A k \in DOMAIN pending' : k \in Nat \ {0}  BY <2>2
      <3> QED  BY <1>6, <2>2, <3>1 DEF Pushed
    <2>5. c \notin torn' => \A q \in N : c \notin Elem(children'[q])
      <3>1. c \notin torn => \A q \in N : c \in Elem(children[q]) => parent[c] = q
        BY DEF TreeInv, OnePlace
      <3> QED  BY <1>3, <1>7, <1>9, <2>1, <3>1
    <2> QED  BY <1>1, <1>3, <2>1, <2>2, <2>3, <2>4, <2>5, CallKeepsTree
  <1> QED  BY <1>8, <1>9

LEMMA FinishKeeps ==
    ASSUME NEW CONSTANT N, NEW CONSTANT m, Tree(N, m)!ElementsAssumption, TreeInv(N, m),
           Tree(N, m)!Finish
    PROVE  TreeInv(N, m)'
  <1> DEFINE f == pending[1]
             c == f.child
             e == Tree(N, m)!Inserted(children[f.to], f.at, f.child)
  <1>1. /\ parent \in [N -> N \cup {None}] /\ TreeOf(N, children, awake, updated)
        /\ Attached(N, children) /\ awake \in [N -> BOOLEAN] /\ None \notin N
        /\ pending \in Seq(CallFrame(N)) /\ \A k \in DOMAIN pending : CallOK(pending[k])
    BY DEF TreeInv, TreeTypes, TreeOf
  <1>2. /\ pending # <<>> /\ pending' = Tail(pending)
        /\ awake' = awake /\ walk' = walk /\ running' = running /\ elementsCalls' = elementsCalls
        /\ updated' = updated /\ moved' = moved /\ torn' = torn
    BY DEF Tree!Finish, Tree!history
  <1>3. /\ pending' \in Seq(CallFrame(N)) /\ 1 \in DOMAIN pending /\ Head(pending) = f
        /\ \A k \in DOMAIN pending' : k + 1 \in DOMAIN pending /\ pending'[k] = pending[k + 1]
    <2> HIDE DEF CallFrame
    <2> QED  BY <1>1, <1>2, PopIs
  <1>4. f \in CallFrame(N) /\ CallOK(f)
    <2> HIDE DEF CallFrame
    <2> QED  BY <1>1, <1>3
  <1>5. parent' = [parent EXCEPT ![c] = f.to]
        /\ children' = IF f.op = "clear" THEN children ELSE [children EXCEPT ![f.to] = e]
    <2> HIDE DEF f
    <2> QED  BY <1>3 DEF Tree!Finish
  <1>6. /\ c \in N /\ f.to \in N \cup {None} /\ f.at \in Nat
        /\ f.op \in {"clear", "attach"}
        /\ f.op # "clear" => c \in N \ {Root} /\ f.to \in N /\ f.at \in Nat \ {0}
    BY <1>4 DEF CallFrame, CallOK
  <1>7. ASSUME f.op # "clear"
        PROVE  /\ e \in Seq(N \ {Root})
               /\ \A x : x \in Elem(e) <=> x \in Elem(children[f.to]) \/ x = c
               /\ \A x : x # c /\ OnceIn(children[f.to], x) => OnceIn(e, x)
               /\ c \notin Elem(children[f.to]) => OnceIn(e, c)
    <2> DEFINE S == N \ {Root}
    <2> HIDE DEF f
    <2>1. children[f.to] \in Seq(S) /\ f.child \in S /\ f.at \in Nat \ {0}
      BY <1>1, <1>6, <1>7 DEF Attached
    <2> HIDE DEF S, e
    <2>2. PutIn(S, children[f.to], f.child, e)
      BY <2>1, InsertedIs DEF e
    <2> QED  BY <2>2 DEF PutIn, S
  <1> HIDE DEF e, f
  <1>8. Attached(N, children')
    BY <1>1, <1>5, <1>6, <1>7 DEF Attached
  <1>9. f.op # "clear" => children'[f.to] = e /\ \A q \in N : q # f.to => children'[q] = children[q]
    BY <1>1, <1>5, <1>6 DEF Attached
  <1>10. \A x, q \in N : x # c =>
             /\ x \in Elem(children'[q]) <=> x \in Elem(children[q])
             /\ OnceIn(children[q], x) => OnceIn(children'[q], x)
    <2>1. CASE f.op = "clear"  BY <1>5, <2>1
    <2>2. CASE f.op # "clear"  BY <1>7, <1>9, <2>2
    <2> QED  BY <2>1, <2>2
  <1>11. \A q \in N : c \in Elem(children'[q]) /\ c \notin Elem(children[q]) =>
             q = f.to /\ OnceIn(children'[q], c) /\ f.op # "clear"
    <2>1. CASE f.op = "clear"  BY <1>5, <2>1
    <2>2. CASE f.op # "clear"  BY <1>7, <1>9, <2>2
    <2> QED  BY <2>1, <2>2
  <1>12. OnePlace(N, parent', children', pending', torn')
    <2>1. OnePlace(N, parent, children, pending, torn)  BY DEF TreeInv
    <2>2. Ends(N, CallFrame(N), parent, children, pending, torn, children', c, f.to)
      BY <1>1, <1>2, <1>6, <1>10, <1>11, <2>1 DEF Ends, f
    <2>3. OnePlace(N, [parent EXCEPT ![c] = f.to], children', Tail(pending), torn)
      BY <2>2, FinishKeepsPlace
    <2> QED  BY <1>2, <1>5, <2>3
  <1>13. TreeOf(N, children', awake', updated')
    BY <1>1, <1>2, <1>8 DEF TreeOf
  <1>14. TreeTypes(N, m)'
    <2>1. TreeTypes(N, m)  BY DEF TreeInv
    <2>2. parent' \in [N -> N \cup {None}]  BY <1>1, <1>5, <1>6
    <2>3. \A k \in DOMAIN pending' : CallOK(pending'[k])  BY <1>1, <1>3
    <2>4. walk' # <<>> => \A k \in DOMAIN pending' : pending'[k].child \in moved'
      BY <1>2, <1>3, <2>1 DEF TreeTypes
    <2> QED  BY <1>2, <1>3, <1>13, <2>1, <2>2, <2>3, <2>4 DEF TreeTypes
  <1>15. WalkHolds(N)'
    <2> SUFFICES ASSUME walk # <<>>
                 PROVE  WalkOK(N, children', awake', walk, running, updated,
                               Tainted(N, children', moved \cup torn))
      BY <1>2 DEF WalkHolds
    <2>1. WalkOK(N, children, awake, walk, running, updated, Tainted(N, children, moved \cup torn))
      BY DEF TreeInv, WalkHolds
    <2>2. moved \cup torn \subseteq N /\ c \in moved
      BY <1>3 DEF TreeInv, TreeTypes, f
    <2>3. Same(N, children, awake, children', awake', moved \cup torn)
      BY <1>2, <1>10, <2>2 DEF Same
    <2>4. TreeOf(N, children', awake', updated) /\ WalkTypes(N, walk) /\ running \in N \cup {None}
          /\ TreeOf(N, children, awake, updated)
      BY <1>1, <1>2, <1>13 DEF TreeInv, TreeTypes
    <2> QED  BY <2>1, <2>2, <2>3, <2>4, CallsKeepWalk
  <1> QED  BY <1>12, <1>14, <1>15 DEF TreeInv

LEMMA SoleHolds ==
    ASSUME NEW CONSTANT N, NEW CONSTANT m, TreeInv(N, m)
    PROVE  Sole(N, children, Tainted(N, children, moved \cup torn))
  <1>1. torn \subseteq Tainted(N, children, moved \cup torn)
    <2>1. Attached(N, children) /\ moved \cup torn \subseteq N
      BY DEF TreeInv, TreeTypes, TreeOf
    <2> QED  BY <2>1, TaintedIs
  <1>2. OnePlace(N, parent, children, pending, torn)
    BY DEF TreeInv
  <1> QED  BY <1>1, <1>2 DEF OnePlace, Sole

LEMMA StartFrameKeeps ==
    ASSUME NEW CONSTANT N, NEW CONSTANT m, Tree(N, m)!ElementsAssumption, TreeInv(N, m),
           Tree(N, m)!StartFrame
    PROVE  TreeInv(N, m)'
  <1>1. /\ pending = <<>> /\ running = None /\ walk = <<>> /\ elementsCalls' = 0
        /\ walk' = <<[of |-> None, list |-> <<Root>>, i |-> 1]>>
        /\ parent' = parent /\ children' = children /\ awake' = awake /\ pending' = pending
        /\ running' = running /\ updated' = updated /\ moved' = moved /\ torn' = torn
    BY DEF Tree!StartFrame, Tree!Idle, Tree!tree, Tree!history
  <1>2. TreeTypes(N, m) /\ m \in Nat
    BY DEF TreeInv, Tree!ElementsAssumption
  <1>3. /\ TreeOf(N, children, awake, updated) /\ moved \cup torn \subseteq N
        /\ \A n \in N : updated[n] = 0
    BY <1>1, <1>2 DEF TreeTypes
  <1>4. /\ WalkTypes(N, walk') /\ walk' # <<>>
        /\ WalkOK(N, children, awake, walk', None, updated, Tainted(N, children, moved \cup torn))
    BY <1>1, <1>3, FrameStartsWalk
  <1>5. TreeTypes(N, m)'
    <2>1. elementsCalls' \in 0 .. m /\ DOMAIN pending' = {}  BY <1>1, <1>2
    <2> QED  BY <1>1, <1>2, <1>4, <2>1 DEF TreeTypes
  <1>6. WalkHolds(N)'
    BY <1>1, <1>4 DEF WalkHolds
  <1> QED  BY <1>1, <1>5, <1>6 DEF TreeInv

LEMMA UpdateElementKeeps ==
    ASSUME NEW CONSTANT N, NEW CONSTANT m, Tree(N, m)!ElementsAssumption, TreeInv(N, m),
           Tree(N, m)!UpdateElement
    PROVE  TreeInv(N, m)'
  <1> DEFINE f == walk[1]
             n == f.list[f.i]
             U == Tainted(N, children, moved \cup torn)
             wk2 == [walk EXCEPT ![1].i = @ + 1]
             rn2 == IF awake[n] THEN n ELSE None
             up2 == IF awake[n] THEN [updated EXCEPT ![n] = @ + 1] ELSE updated
  <1>1. TreeTypes(N, m) /\ pending = <<>> /\ running = None /\ walk # <<>>
    BY DEF TreeInv, Tree!UpdateElement, Tree!Idle
  <1>2. WalkTypes(N, walk) /\ TreeOf(N, children, awake, updated) /\ moved \cup torn \subseteq N
    BY <1>1 DEF TreeTypes
  <1>3. walk \in Seq(Loop(N)) /\ 1 \in DOMAIN walk /\ Head(walk) = f
    <2>1. walk \in Seq(Loop(N))  BY <1>2 DEF WalkTypes
    <2> HIDE DEF Loop
    <2> QED  BY <1>1, <2>1, PopIs
  <1>4. f \in Loop(N) /\ f.list \in Seq(N) /\ f.i \in Nat \ {0} /\ f.of \in N \cup {None}
    BY <1>2, <1>3, LoopIs
  <1> HIDE DEF f
  <1>5. /\ f.i <= Len(f.list) /\ walk' = wk2
        /\ IF awake[n] THEN running' = n /\ updated' = [updated EXCEPT ![n] = @ + 1]
                       ELSE running' = running /\ updated' = updated
        /\ parent' = parent /\ children' = children /\ awake' = awake /\ pending' = pending
        /\ elementsCalls' = elementsCalls /\ moved' = moved /\ torn' = torn
    BY <1>3 DEF Tree!UpdateElement, Tree!ListOf, Tree!tree
  <1>6. n \in N
    BY <1>4, <1>5
  <1>7. running' = rn2 /\ updated' = up2
    BY <1>1, <1>5
  <1>8. WalkOK(N, children, awake, walk, None, updated, U) /\ Sole(N, children, U)
    BY <1>1, SoleHolds DEF TreeInv, WalkHolds
  <1>9. WalkOK(N, children, awake, wk2, rn2, up2, U)
    <2>1. f.i <= Len(f.list) /\ n = f.list[f.i]  BY <1>5
    <2> HIDE DEF U, n, wk2, rn2, up2
    <2>2. rn2 = (IF awake[n] THEN n ELSE None)  BY DEF rn2
    <2>3. up2 = (IF awake[n] THEN [updated EXCEPT ![n] = @ + 1] ELSE updated)  BY DEF up2
    <2>4. WalkOK(N, children, awake, [walk EXCEPT ![1].i = @ + 1], rn2, up2,
                 Tainted(N, children, moved \cup torn))
      BY <1>1, <1>2, <1>8, <2>1, <2>2, <2>3, UpdateKeepsWalk DEF f, U
    <2> QED  BY <2>4 DEF wk2, U
  <1>10. WalkTypes(N, wk2) /\ wk2 # <<>>
    <2>1. DOMAIN wk2 = DOMAIN walk /\ wk2[1] = [f EXCEPT !.i = @ + 1]
          /\ \A k \in DOMAIN walk : k # 1 => wk2[k] = walk[k]
      BY <1>3 DEF f
    <2>2. [f EXCEPT !.i = @ + 1] \in Loop(N)
          /\ [f EXCEPT !.i = @ + 1].i = f.i + 1 /\ [f EXCEPT !.i = @ + 1].list = f.list
      BY <1>4 DEF Loop
    <2>3. wk2 \in Seq(Loop(N))
      <3> DEFINE g == [f EXCEPT !.i = @ + 1]
      <3>1. wk2 = [walk EXCEPT ![1] = g]  BY DEF f
      <3> HIDE DEF g, Loop, wk2
      <3> QED  BY <1>3, <2>2, <3>1 DEF g
    <2>4. \A k \in DOMAIN wk2 : wk2[k].i <= Len(wk2[k].list) + 1
      <3>1. wk2[1].i <= Len(wk2[1].list) + 1
        <4>1. Len(f.list) \in Nat /\ f.i + 1 <= Len(f.list) + 1  BY <1>4, <1>5
        <4>2. wk2[1].i = f.i + 1 /\ wk2[1].list = f.list  BY <2>1, <2>2
        <4> HIDE DEF wk2
        <4> QED  BY <4>1, <4>2
      <3>2. \A k \in DOMAIN walk : walk[k].i <= Len(walk[k].list) + 1  BY <1>2 DEF WalkTypes
      <3> HIDE DEF wk2
      <3> QED  BY <2>1, <3>1, <3>2
    <2> HIDE DEF wk2
    <2>5. wk2 # <<>>  BY <1>3, <2>1
    <2> QED  BY <2>3, <2>4, <2>5 DEF WalkTypes
  <1>11. TreeOf(N, children, awake, up2) /\ rn2 \in N \cup {None}
    BY <1>2, <1>6 DEF TreeOf
  <1> HIDE DEF wk2, rn2, up2, n, U
  <1>12. TreeTypes(N, m)'
    <2>1. walk' # <<>> /\ DOMAIN pending' = {}  BY <1>1, <1>5, <1>10
    <2> QED  BY <1>1, <1>5, <1>7, <1>10, <1>11, <2>1 DEF TreeTypes
  <1>13. WalkHolds(N)'
    BY <1>5, <1>7, <1>9 DEF WalkHolds, U
  <1>14. OnePlace(N, parent', children', pending', torn')
    BY <1>5 DEF TreeInv
  <1> QED  BY <1>12, <1>13, <1>14 DEF TreeInv

LEMMA UpdateChildrenKeeps ==
    ASSUME NEW CONSTANT N, NEW CONSTANT m, Tree(N, m)!ElementsAssumption, TreeInv(N, m),
           Tree(N, m)!UpdateChildren
    PROVE  TreeInv(N, m)'
  <1>1. /\ running # None /\ pending = <<>> /\ running' = None
        /\ walk' = <<[of |-> running, list |-> children[running], i |-> 1]>> \o walk
        /\ parent' = parent /\ children' = children /\ awake' = awake /\ pending' = pending
        /\ elementsCalls' = elementsCalls /\ updated' = updated /\ moved' = moved /\ torn' = torn
    BY DEF Tree!UpdateChildren, Tree!tree, Tree!history
  <1>2. TreeTypes(N, m)
    BY DEF TreeInv
  <1>3. /\ WalkTypes(N, walk) /\ TreeOf(N, children, awake, updated) /\ moved \cup torn \subseteq N
        /\ running \in N /\ walk # <<>>
    BY <1>1, <1>2 DEF TreeTypes
  <1>4. /\ WalkOK(N, children, awake, walk, running, updated, Tainted(N, children, moved \cup torn))
        /\ Sole(N, children, Tainted(N, children, moved \cup torn))
    BY <1>3, SoleHolds DEF TreeInv, WalkHolds
  <1>5. /\ WalkTypes(N, walk') /\ walk' # <<>>
        /\ WalkOK(N, children, awake, walk', None, updated, Tainted(N, children, moved \cup torn))
    BY <1>1, <1>3, <1>4, LoopKeepsWalk
  <1>6. TreeTypes(N, m)'
    <2>1. DOMAIN pending' = {}  BY <1>1
    <2> QED  BY <1>1, <1>2, <1>5, <2>1 DEF TreeTypes
  <1>7. WalkHolds(N)'
    BY <1>1, <1>5 DEF WalkHolds
  <1>8. OnePlace(N, parent', children', pending', torn')
    BY <1>1 DEF TreeInv
  <1> QED  BY <1>6, <1>7, <1>8 DEF TreeInv

LEMMA ReturnKeeps ==
    ASSUME NEW CONSTANT N, NEW CONSTANT m, Tree(N, m)!ElementsAssumption, TreeInv(N, m),
           Tree(N, m)!Return
    PROVE  TreeInv(N, m)'
  <1> DEFINE f == walk[1]
  <1>1. TreeTypes(N, m) /\ pending = <<>> /\ running = None /\ walk # <<>>
    BY DEF TreeInv, Tree!Return, Tree!Idle
  <1>2. WalkTypes(N, walk) /\ TreeOf(N, children, awake, updated) /\ moved \cup torn \subseteq N
    BY <1>1 DEF TreeTypes
  <1>3. walk \in Seq(Loop(N)) /\ 1 \in DOMAIN walk /\ Head(walk) = f /\ Tail(walk) \in Seq(Loop(N))
    <2>1. walk \in Seq(Loop(N))  BY <1>2 DEF WalkTypes
    <2> HIDE DEF Loop
    <2> QED  BY <1>1, <2>1, PopIs
  <1> HIDE DEF f
  <1>4. /\ f.i > Len(f.list) /\ walk' = Tail(walk)
        /\ IF walk' = <<>> THEN elementsCalls' = 0 /\ updated' = [n \in N |-> 0] /\ moved' = {}
                           ELSE elementsCalls' = elementsCalls /\ updated' = updated /\ moved' = moved
        /\ parent' = parent /\ children' = children /\ awake' = awake /\ pending' = pending
        /\ running' = None /\ torn' = torn
    BY <1>1, <1>3 DEF Tree!Return, Tree!ListOf, Tree!tree
  <1>5. OnePlace(N, parent', children', pending', torn')
    BY <1>4 DEF TreeInv
  <1>6. CASE walk' = <<>>
    <2>1. elementsCalls' = 0 /\ updated' = [n \in N |-> 0] /\ moved' = {}  BY <1>4, <1>6
    <2>2. elementsCalls' \in 0 .. m /\ DOMAIN pending' = {}  BY <1>1, <1>4, <2>1 DEF Tree!ElementsAssumption
    <2>3. TreeOf(N, children', awake', updated')  BY <1>2, <1>4, <2>1 DEF TreeOf
    <2>4. WalkTypes(N, walk')
      <3>1. <<>> \in Seq(Loop(N)) /\ DOMAIN <<>> = {}  OBVIOUS
      <3> QED  BY <1>6, <3>1 DEF WalkTypes
    <2>5. \A n \in N : updated'[n] = 0  BY <2>1
    <2>6. TreeTypes(N, m)'  BY <1>1, <1>4, <1>6, <2>1, <2>2, <2>3, <2>4, <2>5 DEF TreeTypes
    <2> QED  BY <1>5, <1>6, <2>6 DEF TreeInv, WalkHolds
  <1>7. CASE walk' # <<>>
    <2>1. elementsCalls' = elementsCalls /\ updated' = updated /\ moved' = moved  BY <1>4, <1>7
    <2>2. WalkOK(N, children, awake, walk, None, updated, Tainted(N, children, moved \cup torn))
      BY <1>1 DEF TreeInv, WalkHolds
    <2>3. /\ WalkTypes(N, walk')
          /\ WalkOK(N, children, awake, walk', None, updated, Tainted(N, children, moved \cup torn))
      BY <1>1, <1>2, <1>4, <1>7, <2>2, ReturnKeepsWalk DEF f
    <2>4. TreeTypes(N, m)'
      <3>1. DOMAIN pending' = {}  BY <1>1, <1>4
      <3> QED  BY <1>1, <1>4, <1>7, <2>1, <2>3, <3>1 DEF TreeTypes
    <2>5. WalkHolds(N)'  BY <1>4, <2>1, <2>3 DEF WalkHolds
    <2> QED  BY <1>5, <2>4, <2>5 DEF TreeInv
  <1> QED  BY <1>6, <1>7

LEMMA TreeSteps ==
    ASSUME NEW CONSTANT N, NEW CONSTANT m, Tree(N, m)!ElementsAssumption, TreeInv(N, m),
           Tree(N, m)!Next
    PROVE  TreeInv(N, m)'
  <1>1. ASSUME NEW c \in N, Tree(N, m)!Call(c) PROVE TreeInv(N, m)'
    <2>1. CASE Tree(N, m)!RemoveElement(c)  BY <2>1, RemoveElementKeeps
    <2>2. ASSUME NEW b \in BOOLEAN, Tree(N, m)!SetAwake(c, b) PROVE TreeInv(N, m)'
      BY <2>2, SetAwakeKeeps
    <2>3. ASSUME NEW p \in N, Tree(N, m)!RemoveChild(p, c) PROVE TreeInv(N, m)'
      BY <2>3, RemoveChildKeeps
    <2>4. ASSUME NEW p \in N, NEW i, Tree(N, m)!AddChild(c, p, i) PROVE TreeInv(N, m)'
      BY <2>4, AddChildKeeps
    <2> QED  BY <1>1, <2>1, <2>2, <2>3, <2>4 DEF Tree!Call
  <1>2. CASE Tree(N, m)!Finish  BY <1>2, FinishKeeps
  <1>3. CASE Tree(N, m)!StartFrame  BY <1>3, StartFrameKeeps
  <1>4. CASE Tree(N, m)!UpdateElement  BY <1>4, UpdateElementKeeps
  <1>5. CASE Tree(N, m)!UpdateChildren  BY <1>5, UpdateChildrenKeeps
  <1>6. CASE Tree(N, m)!Return  BY <1>6, ReturnKeeps
  <1> QED  BY <1>1, <1>2, <1>3, <1>4, <1>5, <1>6 DEF Tree!Next

\* Whatever is attached under a moved element is under it.
LEMMA TaintedIsUnder ==
    ASSUME NEW CONSTANT N, NEW CONSTANT m, TreeInv(N, m)
    PROVE  Tainted(N, children, moved \cup torn) \subseteq
               UNION {Tree(N, m)!Under(q) : q \in moved \cup torn}
  <1> DEFINE T == moved \cup torn
             V == UNION {Tree(N, m)!Under(q) : q \in T}
  <1>1. Attached(N, children) /\ T \subseteq N
    BY DEF TreeInv, TreeTypes, TreeOf
  <1>2. \A p \in N : Elem(children[p]) \subseteq Tree(N, m)!Below(p)
    BY DEF Tree!Below, Tree!Members, Elem
  <1>3. ASSUME NEW q \in T PROVE q \in Tree(N, m)!Under(q) /\ Tree(N, m)!Under(q) \subseteq N
    BY <1>1, <1>3 DEF Tree!Under
  <1>4. ASSUME NEW q \in T, NEW p \in Tree(N, m)!Under(q), NEW x \in Elem(children[p])
        PROVE  x \in Tree(N, m)!Under(q)
    <2>1. p \in N /\ x \in N  BY <1>1, <1>3, AttachedIs
    <2>2. x \in Tree(N, m)!Below(p)  BY <1>2, <2>1
    <2>3. ASSUME NEW S \in SUBSET N, q \in S, \A y \in S : Tree(N, m)!Below(y) \subseteq S
          PROVE  x \in S
      <3>1. p \in S  BY <2>3 DEF Tree!Under
      <3> QED  BY <2>2, <2>3, <3>1
    <2> QED  BY <2>1, <2>3 DEF Tree!Under
  <1>5. V \in SUBSET N /\ T \subseteq V /\ \A p \in V : Elem(children[p]) \subseteq V
    <2>1. V \subseteq N /\ T \subseteq V  BY <1>3
    <2>2. ASSUME NEW p \in V PROVE Elem(children[p]) \subseteq V
      <3>1. PICK q \in T : p \in Tree(N, m)!Under(q)  OBVIOUS
      <3>2. Elem(children[p]) \subseteq Tree(N, m)!Under(q)  BY <1>4, <3>1
      <3> QED  BY <3>2
    <2> QED  BY <2>1, <2>2
  <1> HIDE DEF V, T
  <1>6. ASSUME NEW n \in Tainted(N, children, T) PROVE n \in V
    BY <1>5, <1>6 DEF Tainted
  <1> QED  BY <1>6 DEF V, T

LEMMA TreeInvGives ==
    ASSUME NEW CONSTANT N, NEW CONSTANT m, Tree(N, m)!ElementsAssumption, TreeInv(N, m)
    PROVE  Tree(N, m)!TypeOK /\ Tree(N, m)!InOnePlace /\ Tree(N, m)!UpdatedOnce
  <1>1. TreeTypes(N, m) /\ OnePlace(N, parent, children, pending, torn)
    BY DEF TreeInv
  <1>2. TreeOf(N, children, awake, updated) /\ Attached(N, children) /\ WalkTypes(N, walk)
    BY <1>1 DEF TreeTypes, TreeOf
  <1>3. \A l : Tree(N, m)!Members(l) = Elem(l)
    BY DEF Tree!Members, Elem
  <1>4. Tree(N, m)!TypeOK
    <2>1. \A n \in N : Tree(N, m)!Members(children[n]) \subseteq N \ {Root}
      BY <1>2, <1>3, AttachedIs
    <2>2. \A k \in DOMAIN walk : walk[k].i \in 1 .. Len(Tree(N, m)!ListOf(walk[k])) + 1
      <3> TAKE k \in DOMAIN walk
      <3>1. walk[k].list \in Seq(N) /\ walk[k].i \in Nat \ {0} /\ walk[k].i <= Len(walk[k].list) + 1
        BY <1>2, LoopIs
      <3>2. Len(walk[k].list) \in Nat  BY <3>1
      <3> QED  BY <3>1, <3>2 DEF Tree!ListOf
    <2> QED  BY <1>1, <2>1, <2>2 DEF Tree!TypeOK, TreeTypes, TreeOf
  <1>5. Tree(N, m)!InOnePlace
    <2> SUFFICES ASSUME NEW p \in N, NEW k \in DOMAIN children[p], children[p][k] \notin torn
                 PROVE  /\ \/ parent[children[p][k]] = p
                           \/ \E f \in Tree(N, m)!Members(pending) : f.child = children[p][k]
                        /\ \A q \in N : \A l \in DOMAIN children[q] :
                               children[q][l] = children[p][k] => q = p /\ l = k
      BY DEF Tree!InOnePlace
    <2> DEFINE c == children[p][k]
    <2>1. c \in Elem(children[p]) /\ c \in N
      <3>1. c \in Elem(children[p])  BY DEF Elem
      <3> QED  BY <1>2, <3>1, AttachedIs
    <2>2. parent[c] = p /\ OnceIn(children[p], c)
      BY <1>1, <2>1 DEF OnePlace
    <2>3. ASSUME NEW q \in N, NEW l \in DOMAIN children[q], children[q][l] = c
          PROVE  q = p /\ l = k
      <3>1. c \in Elem(children[q])  BY <2>3 DEF Elem
      <3>2. q = p  BY <1>1, <2>1, <2>2, <3>1 DEF OnePlace
      <3> QED  BY <2>2, <2>3, <3>2 DEF OnceIn
    <2> QED  BY <2>2, <2>3
  <1>6. Tree(N, m)!UpdatedOnce
    <2> SUFFICES ASSUME Tree(N, m)!Return, walk' = <<>>,
                        NEW n \in N \ UNION {Tree(N, m)!Under(q) : q \in moved \cup torn}
                 PROVE  updated[n] = IF n \in Tree(N, m)!Reached THEN 1 ELSE 0
      BY DEF Tree!UpdatedOnce
    <2>1. n \in N /\ n \notin Tainted(N, children, moved \cup torn)
      BY TaintedIsUnder
    <2>2. walk # <<>> /\ Head(walk).i > Len(Head(walk).list) /\ walk' = Tail(walk) /\ running = None
      BY DEF Tree!Return, Tree!Idle, Tree!ListOf
    <2>3. Head(walk) = walk[1] /\ Tail(walk) = <<>>
      <3>1. walk \in Seq(Loop(N))  BY <1>2 DEF WalkTypes
      <3> HIDE DEF Loop
      <3> QED  BY <2>2, <3>1, PopIs
    <2>4. WalkOK(N, children, awake, walk, None, updated, Tainted(N, children, moved \cup torn))
      BY <2>2 DEF TreeInv, WalkHolds
    <2>5. moved \cup torn \subseteq N  BY <1>1 DEF TreeTypes
    <2>6. updated[n] = IF awake[n] /\ Reach(N, children, awake, n) THEN 1 ELSE 0
      BY <1>2, <2>1, <2>2, <2>3, <2>4, <2>5, WalkUpdatesAll
    <2>7. n \in Tree(N, m)!Reached <=> awake[n] /\ Reach(N, children, awake, n)
      BY <1>3, <2>1 DEF Tree!Reached, Reach
    <2> QED  BY <2>6, <2>7
  <1> QED  BY <1>4, <1>5, <1>6

TreesHold ==
    /\ part = "elements" => TreeInv(Node, TreeCalls)
    /\ part = "pair" => TreeInv(Two, PairCalls)

LEMMA TreesRun ==
    /\ Init => TreesHold
    /\ TreesHold /\ [Next]_vars => TreesHold'
  <1>1. Tree(Node, TreeCalls)!ElementsAssumption /\ Tree(Two, PairCalls)!ElementsAssumption
    BY TreeAssumption
  <1>2. ASSUME Init PROVE TreesHold
    <2>1. CASE part = "pair"
      <3>1. Tree(Two, PairCalls)!Init  BY <1>2, <2>1 DEF Init
      <3> QED  BY <1>1, <2>1, <3>1, TreeStarts DEF TreesHold
    <2>2. CASE part = "elements"
      <3>1. Tree(Node, TreeCalls)!Init  BY <1>2, <2>2 DEF Init
      <3> QED  BY <1>1, <2>2, <3>1, TreeStarts DEF TreesHold
    <2> QED  BY <2>1, <2>2 DEF TreesHold
  <1>3. ASSUME TreesHold, [Next]_vars PROVE TreesHold'
    <2>1. part' = part  BY <1>3 DEF Next, vars
    <2>2. CASE part = "pair"
      <3>1. Tree(Two, PairCalls)!Next \/ UNCHANGED elementsVars  BY <1>3, <2>2 DEF Next, vars
      <3>2. TreeInv(Two, PairCalls)  BY <1>3, <2>2 DEF TreesHold
      <3>3. TreeInv(Two, PairCalls)'  BY <1>1, <3>1, <3>2, TreeSteps, TreeStays
      <3> QED  BY <2>1, <2>2, <3>3 DEF TreesHold
    <2>3. CASE part = "elements"
      <3>1. Tree(Node, TreeCalls)!Next \/ UNCHANGED elementsVars  BY <1>3, <2>3 DEF Next, vars
      <3>2. TreeInv(Node, TreeCalls)  BY <1>3, <2>3 DEF TreesHold
      <3>3. TreeInv(Node, TreeCalls)'  BY <1>1, <3>1, <3>2, TreeSteps, TreeStays
      <3> QED  BY <2>1, <2>3, <3>3 DEF TreesHold
    <2> QED  BY <2>1, <2>2, <2>3 DEF TreesHold
  <1> QED  BY <1>2, <1>3

\* Every element is in one place of the tree, and a frame updates what stays in it once,
\* whatever handlers add, move and remove while the tree is walked, for any number of
\* elements and of calls (phina.js:7090, 7608).
THEOREM TreeAlwaysWalkedOnce == Spec => TreeIsWalkedOnce
  <1>1. Tree(Node, TreeCalls)!ElementsAssumption /\ Tree(Two, PairCalls)!ElementsAssumption
    BY TreeAssumption
  <1>2. ASSUME TreesHold
        PROVE  /\ part = "elements" => Tree(Node, TreeCalls)!TypeOK /\ Tree(Node, TreeCalls)!InOnePlace
               /\ part = "pair" => Tree(Two, PairCalls)!TypeOK /\ Tree(Two, PairCalls)!InOnePlace
               /\ part = "elements" => Tree(Node, TreeCalls)!UpdatedOnce
               /\ part = "pair" => Tree(Two, PairCalls)!UpdatedOnce
    BY <1>1, <1>2, TreeInvGives DEF TreesHold
  <1>3. Spec => []TreesHold
    BY TreesRun, PTL DEF Spec
  <1> QED  BY <1>2, <1>3, PTL DEF TreeIsWalkedOnce
=============================================================================
