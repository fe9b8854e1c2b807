------------------------------- MODULE Animation -------------------------------
(***************************************************************************)
(* An element that shows the cells of a sprite sheet one after the other   *)
(* (phina.accessory.FrameAnimation, phina.asset.SpriteSheet): each for as  *)
(* many updates as its animation says, then the animation that follows, or *)
(* the end.                                                                *)
(***************************************************************************)
EXTENDS Integers, Sequences, FiniteSets

CONSTANTS Cols, Rows,  \* of the sheet
          Specs,       \* name -> <<first frame, frame after the last, next name, frequency>>
          None,
          MaxTicks     \* bound: updates since the last call

AnimationAssumption ==
    /\ Cols \in Nat \ {0} /\ Rows \in Nat \ {0} /\ MaxTicks \in Nat
    /\ None \notin DOMAIN Specs \cup {"default"}
    /\ \A n \in DOMAIN Specs :
          /\ Specs[n][1] \in Nat /\ Specs[n][2] \in Nat /\ Specs[n][4] \in Nat
          /\ Specs[n][1] < Specs[n][2] /\ Specs[n][2] <= Cols * Rows
          /\ Specs[n][3] \in DOMAIN Specs \cup {"default", None}

VARIABLES
    current,         \* the name of currentAnimation, None: undefined
    frame, index,    \* frame, currentFrameIndex
    paused, finished,
    shown,           \* the cell in srcRect
    \* history
    called,          \* the name gotoAndPlay or gotoAndStop was called with last
    ticks,           \* updates since then, as long as it played
    owed             \* the first of them is lost

vars == <<current, frame, index, paused, finished, shown, called, ticks, owed>>
-----------------------------------------------------------------------------
(* SpriteSheet *)

Cell(i) == <<i % Cols, i \div Cols>>

Name == DOMAIN Specs \cup {"default"}

\* The default animation shows every frame for one update, again and again.
Anim(n) ==
    IF n \in DOMAIN Specs
    THEN [first |-> Specs[n][1], length |-> Specs[n][2] - Specs[n][1], next |-> Specs[n][3],
          frequency |-> IF Specs[n][4] = 0 THEN 1 ELSE Specs[n][4]]
    ELSE [first |-> 0, length |-> Cols * Rows, next |-> "default", frequency |-> 1]
-----------------------------------------------------------------------------
(* FrameAnimation *)

Recount == frame' = 0

\* gotoAndPlay, gotoAndStop: of a name the sheet does not have nothing can be shown, and
\* the call throws before it plays or stops.
Goto(n, stop) ==
    /\ Recount /\ index' = 0
    /\ IF n \in Name
       THEN current' = n /\ shown' = Cell(Anim(n).first) /\ paused' = stop
       ELSE current' = None /\ UNCHANGED <<shown, paused>>
    /\ UNCHANGED finished

Call(n, stop) ==
    /\ Goto(n, stop)
    /\ called' = n /\ ticks' = 0 /\ owed' = finished

GotoAndPlay(n) == Call(n, FALSE)
GotoAndStop(n) == Call(n, TRUE)

AtEnd(i) == i >= Anim(current).length

\* _updateFrame: the frame after this, or the animation after this, or the end.
UpdateFrame ==
    IF ~ AtEnd(index + 1)
    THEN /\ frame' = frame + 1 /\ index' = index + 1 /\ shown' = Cell(Anim(current).first + index + 1)
         /\ UNCHANGED <<current, paused, finished>>
    ELSE IF Anim(current).next # None THEN Goto(Anim(current).next, FALSE)
    ELSE /\ frame' = frame + 1 /\ index' = index + 1 /\ paused' = TRUE /\ finished' = TRUE
         /\ UNCHANGED <<current, shown>>

Update ==
    /\ ~paused /\ current # None /\ ticks < MaxTicks
    /\ IF finished
       THEN finished' = FALSE /\ index' = 0 /\ UNCHANGED <<current, frame, paused, shown>>
       ELSE IF (frame + 1) % Anim(current).frequency = 0 THEN UpdateFrame
       ELSE frame' = frame + 1 /\ UNCHANGED <<current, index, paused, finished, shown>>
    /\ ticks' = ticks + 1 /\ UNCHANGED <<called, owed>>

Init ==
    /\ current = None /\ frame = 0 /\ index = 0 /\ paused = TRUE /\ finished = FALSE
    /\ shown = None /\ called = None /\ ticks = 0 /\ owed = FALSE

Next == Update \/ \E n \in Name \cup {"unknown"} : GotoAndPlay(n) \/ GotoAndStop(n)

Spec == Init /\ [][Next]_vars
-----------------------------------------------------------------------------
(* Properties *)

\* What an animation called n is to show after t updates, and whether it is over then.
At[t \in Nat] ==
    [n \in Name |->
        LET a == Anim(n)
            pos == t \div a.frequency
        IN  IF pos < a.length THEN [cell |-> Cell(a.first + pos), over |-> FALSE]
            ELSE IF a.next = None THEN [cell |-> Cell(a.first + a.length - 1), over |-> TRUE]
            ELSE At[t - a.length * a.frequency][a.next]]

\* Whatever was played, stopped and chained before: each cell is shown for as long as its
\* animation says, and the end comes after the last; only the first update is lost after an
\* animation that had come to its end (phina.js:8852).
ShownOnTime ==
    called \in Name =>
        LET a == At[IF owed /\ ticks > 0 THEN ticks - 1 ELSE ticks][called]
        IN  shown = a.cell /\ (ticks > 0 => paused = a.over)

\* The frames are the cells of the sheet, each once (phina.js:5408).
OneCellEach ==
    /\ \A i, j \in 0 .. Cols * Rows - 1 : i # j => Cell(i) # Cell(j)
    /\ shown # None => shown[1] < Cols /\ shown[2] < Rows
=============================================================================
