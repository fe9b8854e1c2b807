-------------------------------- MODULE Geometry --------------------------------
(***************************************************************************)
(* Shapes and their collisions (phina.geom.Vector2, Rect, Circle and       *)
(* Collision), with whole numbers: a rectangle whose edges are set, a      *)
(* circle that moves, and the tests of both against others.                *)
(***************************************************************************)
EXTENDS Integers

CONSTANTS MaxPos, MaxSize  \* bounds: coordinates, and sizes and radii

GeometryAssumption == MaxPos \in Nat /\ MaxSize \in Nat \ {0}

Pos == -MaxPos .. MaxPos
Sizes == 0 .. MaxSize
Rects == [x : Pos, y : Pos, width : Sizes, height : Sizes]
Vectors == [x : Pos, y : Pos]

VARIABLES rect, circle, asked  \* history: the edge set last, and what it was set to

vars == <<rect, circle, asked>>
-----------------------------------------------------------------------------
(* Vector2 *)

Vector(x, y) == [x |-> x, y |-> y]
Sub(v, w) == Vector(v.x - w.x, v.y - w.y)
Dot(v, w) == v.x * w.x + v.y * w.y
Cross(v, w) == v.x * w.y - v.y * w.x
LengthSquared(v) == v.x * v.x + v.y * v.y
DistanceSquared(v, w) == LengthSquared(Sub(v, w))
-----------------------------------------------------------------------------
(* Rect and Circle *)

Rect(x, y, w, h) == [x |-> x, y |-> y, width |-> w, height |-> h]
Right(r) == r.x + r.width
Bottom(r) == r.y + r.height
InRect(r, v) == r.x <= v.x /\ v.x <= Right(r) /\ r.y <= v.y /\ v.y <= Bottom(r)
InCircle(c, v) == DistanceSquared(c, v) <= c.radius * c.radius

\* Bug: the edge is moved before its distance is taken off the width.
LeftFirst(r, v) == [r EXCEPT !.x = v]

\* A left or top edge that is set leaves the right or bottom where it is.
WithLeft(r, v) == [r EXCEPT !.width = @ - (v - r.x), !.x = v]
WithTop(r, v) == [r EXCEPT !.height = @ - (v - r.y), !.y = v]
WithRight(r, v) == [r EXCEPT !.width = @ + (v - Right(r))]
WithBottom(r, v) == [r EXCEPT !.height = @ + (v - Bottom(r))]

Padded(r, top, right, bottom, left) ==
    Rect(r.x + left, r.y + top, r.width - (left + right), r.height - (top + bottom))

SetRect(r, edge, v) == r \in Rects /\ rect' = r /\ asked' = <<edge, v>> /\ UNCHANGED circle

SetLeft(v) == SetRect(WithLeft(rect, v), "left", v)
SetTop(v) == SetRect(WithTop(rect, v), "top", v)
SetRight(v) == SetRect(WithRight(rect, v), "right", v)
SetBottom(v) == SetRect(WithBottom(rect, v), "bottom", v)
Padding(t, r, b, l) == SetRect(Padded(rect, t, r, b, l), "padding", 0)
MoveBy(dx, dy) == SetRect([rect EXCEPT !.x = @ + dx, !.y = @ + dy], "none", 0)

SetCircle(v, r) == circle' = [x |-> v.x, y |-> v.y, radius |-> r] /\ UNCHANGED <<rect, asked>>
-----------------------------------------------------------------------------
(* Collision *)

TestRectRect(r, s) ==
    r.x < Right(s) /\ Right(r) > s.x /\ r.y < Bottom(s) /\ Bottom(r) > s.y

\* The rectangle grown by the radius to both sides, or up and down, or a corner's circle.
TestCircleRect(c, r) ==
    /\ InRect(Rect(r.x - c.radius, r.y - c.radius, r.width + c.radius * 2, r.height + c.radius * 2), c)
    /\ \/ InRect(Rect(r.x - c.radius, r.y, r.width + c.radius * 2, r.height), c)
       \/ InRect(Rect(r.x, r.y - c.radius, r.width, r.height + c.radius * 2), c)
       \/ \E x \in {r.x, Right(r)}, y \in {r.y, Bottom(r)} : InCircle(c, Vector(x, y))

Between(dot1, dot2) == dot1 * dot2 <= 0

\* An end in the circle, or the foot of the perpendicular on the line and near enough;
\* 0/0 is not.
TestCircleLine(c, p1, p2) ==
    LET p1p2 == Sub(p1, p2)
        p1p3 == Sub(p1, c)
        cross == Cross(p1p2, p1p3)
    IN  \/ InCircle(c, p1) \/ InCircle(c, p2)
        \/ /\ p1 # p2 /\ cross * cross <= c.radius * c.radius * LengthSquared(p1p2)
           /\ Between(Dot(p1p3, p1p2), Dot(Sub(p2, c), p1p2))
-----------------------------------------------------------------------------
Init == rect = Rect(0, 0, 1, 1) /\ circle = [x |-> 0, y |-> 0, radius |-> 0] /\ asked = <<"none", 0>>

Next ==
    \/ \E v \in Pos : SetLeft(v) \/ SetTop(v) \/ SetRight(v) \/ SetBottom(v)
    \/ \E t, r, b, l \in {-1, 1} : Padding(t, r, b, l)
    \/ \E dx, dy \in {-1, 0, 1} : MoveBy(dx, dy)
    \/ \E v \in Vectors, r \in Sizes : SetCircle(v, r)

Spec == Init /\ [][Next]_vars
-----------------------------------------------------------------------------
(* Properties *)

\* An edge that is set is where it was set to, and the other three stay (phina.js:2854).
EdgesStay ==
    [][asked' # asked =>
        LET moved(edge, was, is) == IF asked'[1] = edge THEN is = asked'[2] ELSE is = was
        IN  asked'[1] \in {"left", "right", "top", "bottom"} =>
                /\ moved("left", rect.x, rect'.x) /\ moved("right", Right(rect), Right(rect'))
                /\ moved("top", rect.y, rect'.y) /\ moved("bottom", Bottom(rect), Bottom(rect'))]_vars

\* Rectangles that have an area collide exactly if they share some of it (phina.js:3046).
Cells(r) == {v \in [x : -MaxPos .. MaxPos + MaxSize, y : -MaxPos .. MaxPos + MaxSize] :
                 r.x <= v.x /\ v.x < Right(r) /\ r.y <= v.y /\ v.y < Bottom(r)}
RectsShareArea ==
    rect.width > 0 /\ rect.height > 0 =>
        \A s \in Rects : s.width > 0 /\ s.height > 0 =>
            (TestRectRect(rect, s) <=> Cells(rect) \cap Cells(s) # {})

\* A circle and a rectangle collide exactly if the rectangle's point that is nearest to
\* the centre is in the circle (phina.js:3049).
Nearest(v, low, high) == IF v < low THEN low ELSE IF v > high THEN high ELSE v
CircleMeetsRect ==
    TestCircleRect(circle, rect) <=>
        InCircle(circle, Vector(Nearest(circle.x, rect.x, Right(rect)), Nearest(circle.y, rect.y, Bottom(rect))))

\* A circle and a line (here between any corners of rect) collide exactly if some point
\* from one end to the other is in the circle: the squared distance is quadratic along the
\* line, so its least value is at an end or where its slope changes sign (phina.js:3088).
Nearer(p1, p2) == Dot(Sub(p2, p1), Sub(circle, p1))
CircleMeetsLine ==
    \A p1, p2 \in {Vector(x, y) : x \in {rect.x, Right(rect)}, y \in {rect.y, Bottom(rect)}} :
        LET l == LengthSquared(Sub(p2, p1))
            t == Nearest(Nearer(p1, p2), 0, l)  \* the nearest point is p1 + t/l * (p2 - p1)
            d == Vector(l * (p1.x - circle.x) + t * (p2.x - p1.x), l * (p1.y - circle.y) + t * (p2.y - p1.y))
        IN  TestCircleLine(circle, p1, p2) <=>
                IF l = 0 THEN InCircle(circle, p1) ELSE LengthSquared(d) <= l * l * circle.radius * circle.radius
=============================================================================
