------------------------------- MODULE Placement -------------------------------
(***************************************************************************)
(* Where elements are (phina.app.Object2D, phina.geom.Matrix33, the        *)
(* CanvasRenderer): a program places an element within its parent; each    *)
(* frame first tests pointers against the matrices of the last picture,    *)
(* and then draws, which computes them anew, from the scene down, and not  *)
(* below what is invisible.  Rotations are by quarter turns and numbers    *)
(* are whole, so that sine, cosine and products are exact; a quotient is   *)
(* compared by the sign and size of its denominator.                       *)
(***************************************************************************)
EXTENDS Integers, Sequences, FiniteSets

CONSTANTS Places, Turns, Scales,  \* what elements are set to
          Points,                 \* coordinates of pointers
          Half                    \* half the width and height, and the radius

PlacementAssumption ==
    /\ Places \subseteq Int \X Int /\ Turns \subseteq 0 .. 3 /\ Scales \subseteq Int \X Int
    /\ Points \subseteq Int /\ Half \in Nat \ {0}

\* A child of the scene, and a child of that.
Element == 1 .. 2
Parent(e) == e - 1

VARIABLES place, turn, scale, visible,
          world,   \* _worldMatrix, by rows
          shown    \* history: what was set at the last picture an element was in, or <<>>

vars == <<place, turn, scale, visible, world, shown>>

Cos(q) == <<1, 0, -1, 0>>[q + 1]
Sin(q) == <<0, 1, 0, -1>>[q + 1]
Identity == <<<<1, 0, 0>>, <<0, 1, 0>>, <<0, 0, 1>>>>
-----------------------------------------------------------------------------
(* Matrix33 *)

Multiply(a, b) == [r \in 1 .. 3 |-> [c \in 1 .. 3 |->
    a[r][1] * b[1][c] + a[r][2] * b[2][c] + a[r][3] * b[3][c]]]

Determinant(m) ==
    m[1][1] * m[2][2] * m[3][3] + m[2][1] * m[3][2] * m[1][3] + m[1][2] * m[2][3] * m[3][1]
    - m[1][3] * m[2][2] * m[3][1] - m[1][2] * m[2][1] * m[3][3] - m[2][3] * m[3][2] * m[1][1]

\* What is left without a row and a column.
Minor(m, r, c) ==
    LET rs == IF r = 1 THEN <<2, 3>> ELSE IF r = 2 THEN <<1, 3>> ELSE <<1, 2>>
        cs == IF c = 1 THEN <<2, 3>> ELSE IF c = 2 THEN <<1, 3>> ELSE <<1, 2>>
    IN  m[rs[1]][cs[1]] * m[rs[2]][cs[2]] - m[rs[1]][cs[2]] * m[rs[2]][cs[1]]

\* invert, before the division by the determinant.
Adjugate(m) == [r \in 1 .. 3 |-> [c \in 1 .. 3 |->
    (IF (r + c) % 2 = 0 THEN 1 ELSE -1) * Minor(m, c, r)]]

MultiplyVector2(m, p) ==
    <<m[1][1] * p[1] + m[1][2] * p[2] + m[1][3], m[2][1] * p[1] + m[2][2] * p[2] + m[2][3]>>
-----------------------------------------------------------------------------
(* Object2D *)

Local(e) ==
    <<<<Cos(turn[e]) * scale[e][1], -Sin(turn[e]) * scale[e][2], place[e][1]>>,
      <<Sin(turn[e]) * scale[e][1], Cos(turn[e]) * scale[e][2], place[e][2]>>,
      <<0, 0, 1>>>>

\* The point in the element's own coordinates, times the determinant.
GlobalToLocal(e, p) == MultiplyVector2(Adjugate(world[e]), p)

Size(n) == IF n < 0 THEN -n ELSE n

\* With a determinant of 0 the comparisons are with NaN or an infinity, and fail.
HitTestRect(e, p) ==
    LET q == GlobalToLocal(e, p)
        d == Size(Determinant(world[e]))
    IN  d # 0 /\ Size(q[1]) < Half * d /\ Size(q[2]) < Half * d

HitTestCircle(e, p) ==
    LET q == GlobalToLocal(e, p)
        d == Determinant(world[e])
    IN  d # 0 /\ q[1] * q[1] + q[2] * q[2] < Half * Half * d * d

\* What a program sets does not reach the matrices until the next picture.
Set == UNCHANGED <<visible, world, shown>>
SetPosition(e, p) == place' = [place EXCEPT ![e] = p] /\ Set /\ UNCHANGED <<turn, scale>>
SetRotation(e, q) == turn' = [turn EXCEPT ![e] = q] /\ Set /\ UNCHANGED <<place, scale>>
SetScale(e, s) == scale' = [scale EXCEPT ![e] = s] /\ Set /\ UNCHANGED <<place, turn>>
-----------------------------------------------------------------------------
(* CanvasRenderer *)

SetVisible(e) ==
    visible' = [visible EXCEPT ![e] = ~ @] /\ UNCHANGED <<place, turn, scale, world, shown>>

\* Bug: what is invisible itself is left out, but not what is below it.
SelfVisible(e) == visible[e]

Drawn(e) == \A a \in 1 .. e : visible[a]

WorldOf[e \in 0 .. 2] ==
    IF e = 0 THEN Identity ELSE Multiply(WorldOf[Parent(e)], Local(e))

Render ==
    /\ world' = [e \in Element |-> IF Drawn(e) THEN WorldOf[e] ELSE world[e]]
    /\ shown' = [e \in Element |-> IF \A a \in 1 .. e : visible[a]
                                   THEN [a \in 1 .. e |-> <<place[a], turn[a], scale[a]>>]
                                   ELSE shown[e]]
    /\ UNCHANGED <<place, turn, scale, visible>>

Init ==
    /\ place \in [Element -> Places] /\ turn \in [Element -> Turns] /\ scale \in [Element -> Scales]
    /\ visible = [e \in Element |-> TRUE]
    /\ world = [e \in Element |-> Identity] /\ shown = [e \in Element |-> <<>>]

Next == \/ \E e \in Element, p \in Places : SetPosition(e, p)
        \/ \E e \in Element, q \in Turns : SetRotation(e, q)
        \/ \E e \in Element, s \in Scales : SetScale(e, s)
        \/ \E e \in Element : SetVisible(e)
        \/ Render

Spec == Init /\ [][Next]_vars
-----------------------------------------------------------------------------
(* Properties *)

\* A point seen from an element, step by step up from the scene: out of its place, its
\* rotation and its scale; coordinates with their denominators <<x, dx, y, dy>>.
Unturned(q, v) ==
    CASE q = 0 -> v [] q = 1 -> <<v[3], v[4], -v[1], v[2]>>
      [] q = 2 -> <<-v[1], v[2], -v[3], v[4]>> [] q = 3 -> <<-v[3], v[4], v[1], v[2]>>
Into(set, v) ==
    LET u == Unturned(set[2], <<v[1] - set[1][1] * v[2], v[2], v[3] - set[1][2] * v[4], v[4]>>)
    IN  <<u[1], u[2] * set[3][1], u[3], u[4] * set[3][2]>>
Seen(e, p) ==
    LET v == Into(shown[e][1], <<p[1], 1, p[2], 1>>)
    IN  IF e = 1 THEN v ELSE Into(shown[e][2], v)

Covers(e, p) ==
    LET v == Seen(e, p) IN Size(v[1]) < Half * Size(v[2]) /\ Size(v[3]) < Half * Size(v[4])
CoversRound(e, p) ==
    LET v == Seen(e, p)
    IN  v[2] # 0 /\ v[4] # 0 /\
        v[1] * v[1] * v[4] * v[4] + v[3] * v[3] * v[2] * v[2] < Half * Half * v[2] * v[2] * v[4] * v[4]

\* A pointer hits exactly what the last picture an element was in shows under it, wherever
\* the element, or its parent, has been moved or hidden since (phina.js:7795).
HitsWhatIsShown ==
    \A e \in Element : shown[e] # <<>> =>
        \A p \in Points \X Points : (HitTestRect(e, p) <=> Covers(e, p))
                                    /\ (HitTestCircle(e, p) <=> CoversRound(e, p))

\* The inverse of a matrix times the matrix is the identity (phina.js:2640).
InverseInverts ==
    \A e \in Element :
        Multiply(Adjugate(world[e]), world[e])
        = [r \in 1 .. 3 |-> [c \in 1 .. 3 |-> IF r = c THEN Determinant(world[e]) ELSE 0]]
=============================================================================
