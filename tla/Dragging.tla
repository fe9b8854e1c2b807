-------------------------------- MODULE Dragging --------------------------------
(***************************************************************************)
(* An element that pointers drag (phina.accessory.Draggable), and that is  *)
(* sent back where it was picked up, at once or by a tweener: accessories  *)
(* of the element, which its enterframe goes through while they detach     *)
(* themselves.  A frame updates the accessories and then asks the pointers *)
(* (BaseApp._loop).  The place is one number; easing is left out, and so   *)
(* is where a pointer is: it may be over the element or not.               *)
(***************************************************************************)
EXTENDS Integers, Sequences, FiniteSets

CONSTANTS Pointers,  \* how many there are
          Again,     \* those that are pressed more than once: the mouse, but not a touch
          Time,      \* updates a tweener needs
          MaxBacks, MaxPlace  \* bounds: of tweeners at once, and of the place

DraggingAssumption ==
    /\ Pointers \in Nat /\ Again \subseteq 1 .. Pointers /\ Time \in Nat \ {0}
    /\ MaxBacks \in Nat /\ MaxPlace \in Nat

Pointer == 1 .. Pointers
Place == -MaxPlace .. MaxPlace
Back == 1 .. MaxBacks  \* tweeners, as accessories
Other == 0             \* another accessory

VARIABLES
    el,           \* of the element: x, interactive, dragging, touch (_touchFlags)
    initial,      \* initialPosition
    lock,         \* Draggable._lock
    accessories,  \* a sequence
    tween,        \* of a tweener: the updates left, and where it ends
    down, last,   \* the pointers that are pressed, and that were in the frame before
    phase,        \* what the frame does next
    \* history
    pressed,      \* the pointers that were ever pressed
    grip,         \* those that are, and were when they were first over it, unless it was locked
    followed,     \* how far the grip has moved since, or since it was sent back
    mixed,        \* another pointer was pressed on it, or it was disabled, while one was
    updated, gone \* accessories the last frame updated, and that removed themselves then

element == <<el, initial, lock>>
history == <<pressed, grip, followed, mixed, updated, gone>>
vars == <<element, accessories, tween, down, last, phase, history>>

Attached(list) == {list[i] : i \in DOMAIN list}
Backs == Attached(accessories) \cap Back
-----------------------------------------------------------------------------
(* Accessories *)

Attach(a) == accessories' = Append(accessories, a)

\* The first of its kind.
Detach(list, a) ==
    LET i == CHOOSE i \in DOMAIN list : list[i] = a /\ \A j \in 1 .. i - 1 : list[j] # a
    IN  SubSeq(list, 1, i - 1) \o SubSeq(list, i + 1, Len(list))

AttachOther == /\ Other \notin Attached(accessories) /\ Attach(Other)
               /\ UNCHANGED <<element, tween, down, last, phase, history>>

RemoveOther == /\ Other \in Attached(accessories) /\ accessories' = Detach(accessories, Other)
               /\ UNCHANGED <<element, tween, down, last, phase, history>>

\* One update of a tweener: a step on the way, or, an update after the last step, the call
\* that removes it.
Updated(s, a) ==
    IF a = Other THEN s
    ELSE IF s.tween[a].left > 0
    THEN [s EXCEPT !.el.x = s.el.x + (s.tween[a].to - s.el.x) \div s.tween[a].left,
                   !.tween[a].left = @ - 1]
    ELSE [s EXCEPT !.list = Detach(@, a), !.el.interactive = TRUE, !.gone = @ \cup {a}]

\* enterframe: forEach goes by index, up to the length the list had.
Visit(s, i) ==
    IF i > Len(s.list) THEN s
    ELSE [Updated(s, s.list[i]) EXCEPT !.updated = @ \cup {s.list[i]}]

EachUpdated ==
    LET Visited[n \in 0 .. Len(accessories)] ==
            IF n = 0 THEN [el |-> el, tween |-> tween, list |-> accessories, updated |-> {}, gone |-> {}]
            ELSE Visit(Visited[n - 1], n)
    IN  Visited[Len(accessories)]

Update ==
    /\ phase = "update" /\ phase' = "check"
    /\ el' = EachUpdated.el /\ tween' = EachUpdated.tween /\ accessories' = EachUpdated.list
    /\ updated' = EachUpdated.updated /\ gone' = EachUpdated.gone
    /\ mixed' = (mixed \/ (gone' # {} /\ \E b \in Back : b \in Attached(accessories')))
    /\ UNCHANGED <<initial, lock, down, last, pressed, grip, followed>>
-----------------------------------------------------------------------------
(* Draggable *)

Drags(s, p) == p \in s.el.touch

Starts(s, over, p) == s.el.interactive /\ p \in over /\ p \in down' /\ p \notin last'
Ends(s, p) == Drags(s, p) /\ p \notin down' /\ p \in last'

\* Bug: the place it is picked up at is not taken anew.
WithoutPlace(s, p) == [s EXCEPT !.el.touch = @ \cup {p}, !.el.dragging = TRUE, !.followed = 0,
                                !.grip = @ \cup {p}, !.mixed = Backs # {} \/ s.el.touch \ {p} # {}]

PointStart(s, p) ==
    IF lock THEN [s EXCEPT !.el.touch = @ \cup {p}, !.mixed = @ \/ s.el.touch # {}]
    ELSE [s EXCEPT !.el.touch = @ \cup {p}, !.el.dragging = TRUE, !.initial = s.el.x,
                   !.followed = 0, !.grip = @ \cup {p}, !.mixed = Backs # {} \/ s.el.touch \ {p} # {}]
PointMove(s, d) == IF s.el.dragging THEN [s EXCEPT !.el.x = @ + d] ELSE s
PointEnd(s, p) == [s EXCEPT !.el.touch = @ \ {p}, !.el.dragging = FALSE]

\* Interactive.__checkPoint, of a pointer that has moved by d; what is not interactive is
\* not told.
CheckPoint(s, over, p, d) ==
    LET s1 == IF Starts(s, over, p) THEN PointStart(s, p) ELSE s
        s2 == IF d # 0 /\ Drags(s1, p) THEN PointMove(s1, d) ELSE s1
        s3 == IF p \in s1.grip THEN [s2 EXCEPT !.followed = @ + d] ELSE s2
    IN  IF ~ s.el.interactive THEN s ELSE IF Ends(s3, p) THEN PointEnd(s3, p) ELSE s3

\* The pointers that are asked: the mouse, and the touches that are on the screen.
Asked == {p \in Pointer : p \in Again \cup down' \cup last'}

Tell(s, over, by, p) == IF p \in Asked THEN CheckPoint(s, over, p, by[p]) ELSE s

\* One pointer after the other.
AllTold(over, by) ==
    LET Told[p \in 0 .. Pointers] ==
            IF p = 0 THEN [el |-> el, initial |-> initial, followed |-> followed, grip |-> grip, mixed |-> mixed]
            ELSE Tell(Told[p - 1], over, by, p)
    IN  Told[Pointers]

Check ==
    /\ phase = "check" /\ phase' = "update" /\ last' = down
    /\ \E d \in SUBSET Pointer, over \in SUBSET Pointer, by \in [Pointer -> {-1, 0, 1}] :
        /\ d \cap pressed \subseteq down \cup Again
        /\ down' = d /\ pressed' = pressed \cup d
        /\ \A p \in Pointer : p \notin Asked => p \notin over /\ by[p] = 0
        /\ LET s == AllTold(over, by)
           IN  /\ s.el.x \in Place /\ s.followed \in -2 * MaxPlace .. 2 * MaxPlace
               /\ el' = s.el /\ initial' = s.initial /\ followed' = s.followed
               /\ mixed' = (s.mixed \/ Cardinality(s.grip) > 1) /\ grip' = s.grip \cap d
    /\ UNCHANGED <<lock, accessories, tween, updated, gone>>

\* back without a time.
BackNow ==
    /\ el' = [el EXCEPT !.x = initial] /\ followed' = 0
    /\ UNCHANGED <<initial, lock, accessories, tween, down, last, phase, pressed, grip, mixed, updated, gone>>

\* back with a time: until the tweener has brought it back, no pointer is told.
BackIn(b) ==
    /\ b \notin Backs /\ Attach(b)
    /\ tween' = [tween EXCEPT ![b] = [left |-> Time, to |-> initial]]
    /\ el' = [el EXCEPT !.interactive = FALSE]
    /\ followed' = 0 /\ mixed' = (mixed \/ grip # {} \/ el.touch # {})
    /\ UNCHANGED <<initial, lock, down, last, phase, pressed, grip, updated, gone>>

Lock == lock' = ~ lock /\ UNCHANGED <<el, initial, accessories, tween, down, last, phase, history>>
-----------------------------------------------------------------------------
Init ==
    /\ el = [x |-> 0, interactive |-> TRUE, dragging |-> FALSE, touch |-> {}]
    /\ initial = 0 /\ lock = FALSE /\ accessories = <<>>
    /\ tween = [b \in Back |-> [left |-> 0, to |-> 0]]
    /\ down = {} /\ last = {} /\ phase = "update"
    /\ pressed = {} /\ grip = {} /\ followed = 0 /\ mixed = FALSE /\ updated = {} /\ gone = {}

Next == \/ Update \/ Check \/ BackNow \/ Lock \/ AttachOther \/ RemoveOther
        \/ \E b \in Back : BackIn(b)

Spec == Init /\ [][Next]_vars

-----------------------------------------------------------------------------
(* Properties *)

\* The element is where it was picked up, moved by what gripped it since, or where that
\* began once it was sent back, unless pointers or tweeners got mixed up: a second pointer
\* starts anew, or moves it too under a lock, and lets go for both (phina.js:8635).
DragFollows == ~mixed /\ Backs = {} => el.x = initial + followed

\* Only what is pressed on it moves it, unless it was disabled while it was gripped: then
\* no end is told, and a mouse that comes back drags without a button (phina.js:8641).
DragsIfPressed == ~mixed => (el.dragging => grip # {})

=============================================================================
