------------------------------- MODULE MCInput --------------------------------
(***************************************************************************)
(* Input and what it acts on, from phina.js: keyboard, gamepads, pointers  *)
(* on interactive objects, dragging, and where elements are hit.  The parts *)
(* share no state; a behaviour is about one of them.                       *)
(***************************************************************************)
EXTENDS Integers, Sequences, TLC

\* Of the parts, in their order; what they mean is said there.
CONSTANTS
    Nothing, PadCount, MaxChanges,
    Obj, Finger, MaxPresses,
    Touches, MouseBacks, TouchBacks, BackTime, MaxDrag,
    Sites, Angles, Sizes, OneSite, OtherAngles, OtherSizes, Coordinates, Half

VARIABLE part  \* the part a behaviour is about

\* The four arrow keys.
VARIABLES
    key, press, keyboardDown, keyboardUp, held, moved, cleared
keyboardVars ==
    <<key, press, keyboardDown, keyboardUp, held, moved, cleared>>
Keys == INSTANCE Keyboard WITH
    down <- keyboardDown, up <- keyboardUp

\* Two gamepads with a button each.
VARIABLES
    raw, time, polled, gamepads, created, prev, disposed, twice
gamepadsVars ==
    <<raw, time, polled, gamepads, created, prev, disposed, twice>>
Pads == INSTANCE Gamepads WITH
    Pads <- PadCount, MaxTime <- MaxChanges, None <- Nothing
ASSUME PadsAssumption == Pads!GamepadsAssumption

\* Two fingers, a mouse, and one object.
VARIABLES
    touches, touchMap, nextId, mouse, pointers, interactive, over, touch, holds,
    presses, starts, ends, crowded, upset
pointersVars ==
    <<touches, touchMap, nextId, mouse, pointers, interactive, over, touch, holds,
      presses, starts, ends, crowded, upset>>
Pointing == INSTANCE Pointers WITH
    MaxPress <- MaxPresses
ASSUME PointingAssumption == Pointing!PressAssumption

\* A mouse, or touches, on an element that tweeners may send back.
VARIABLES
    draggingEl, initial, lock, accessories, tween, draggingDown, last, phase, pressed,
    grip, followed, mixed, updated, gone
draggingVars ==
    <<draggingEl, initial, lock, accessories, tween, draggingDown, last, phase, pressed,
      grip, followed, mixed, updated, gone>>
Drag(count, again, backs) == INSTANCE Dragging WITH
    Pointers <- count, Again <- again, MaxBacks <- backs, Time <- BackTime, MaxPlace <- MaxDrag,
    el <- draggingEl, down <- draggingDown
ASSUME DragAssumption ==
    Drag(1, {1}, MouseBacks)!DraggingAssumption /\ Drag(Touches, {}, TouchBacks)!DraggingAssumption

\* Two nested elements over some places, turns and scales, or over others.
VARIABLES
    place, turn, scale, visible, world, shown
placementVars ==
    <<place, turn, scale, visible, world, shown>>
Placed(sites, angles, sizes) == INSTANCE Placement WITH
    Places <- sites, Turns <- angles, Scales <- sizes, Points <- Coordinates
ASSUME PlacesAssumption ==
    /\ Placed(Sites, Angles, Sizes)!PlacementAssumption
    /\ Placed(OneSite, OtherAngles, OtherSizes)!PlacementAssumption

-----------------------------------------------------------------------------
inputVars == <<part, keyboardVars, gamepadsVars, pointersVars, draggingVars, placementVars>>

InputInit ==
    /\ part \in {"keyboard", "gamepads", "pointers", "dragging", "placement", "touches", "turns"}
    /\ Keys!Init
    /\ Pads!Init
    /\ Pointing!Init
    /\ IF part = "touches" THEN Drag(Touches, {}, TouchBacks)!Init ELSE Drag(1, {1}, MouseBacks)!Init
    /\ IF part = "placement" THEN Placed(Sites, Angles, Sizes)!Init ELSE IF part = "turns" THEN Placed(OneSite, OtherAngles, OtherSizes)!Init
       ELSE place = 0 /\ turn = 0 /\ scale = 0 /\ visible = 0 /\ world = 0 /\ shown = 0

\* One part moves, the others stand still.
InputNext ==
    /\ UNCHANGED part
    /\ IF part = "keyboard" THEN Keys!Next ELSE UNCHANGED keyboardVars
    /\ IF part = "gamepads" THEN Pads!Next ELSE UNCHANGED gamepadsVars
    /\ IF part = "pointers" THEN Pointing!Next ELSE UNCHANGED pointersVars
    /\ IF part = "dragging" THEN Drag(1, {1}, MouseBacks)!Next
       ELSE IF part = "touches" THEN Drag(Touches, {}, TouchBacks)!Next ELSE UNCHANGED draggingVars
    /\ IF part = "placement" THEN Placed(Sites, Angles, Sizes)!Next
       ELSE IF part = "turns" THEN Placed(OneSite, OtherAngles, OtherSizes)!Next ELSE UNCHANGED placementVars

InputSpec == InputInit /\ [][InputNext]_inputVars

\* Fingers are alike.
Fingers == Permutations(Finger)
-----------------------------------------------------------------------------
(* Properties *)

\* What is reported as going down or up is what happened, once each: keys and buttons
\* that were pressed and released between two frames, presses of fingers whose touches
\* share a list (phina.js:6089, 6877, 6010, 7229).
PressesAddUp ==
    /\ part = "keyboard" => Keys!EdgesAddUp /\ Keys!AngleOfDirection
    /\ part = "gamepads" => Pads!EdgesAlternate
    /\ part = "pointers" => Pointing!TypeOK /\ Pointing!StartOnce /\ Pointing!EndsMatched /\ Pointing!HoverHeld

\* An element that is dragged is where what gripped it took it, or where it began once it
\* was sent back, and nothing moves it that is not pressed (phina.js:8635, 8641).
DragFollowsGrip ==
    /\ part = "dragging" =>
          Drag(1, {1}, MouseBacks)!DragFollows /\ Drag(1, {1}, MouseBacks)!DragsIfPressed
    /\ part = "touches" =>
          Drag(Touches, {}, TouchBacks)!DragFollows /\ Drag(Touches, {}, TouchBacks)!DragsIfPressed

\* A pointer hits exactly what the last picture shows under it, wherever elements and their
\* parents have been moved, turned or hidden since; to that end the inverse that takes the
\* pointer into an element undoes its matrix (phina.js:7795, 2640).
HitsPicture ==
    /\ part = "placement" =>
          Placed(Sites, Angles, Sizes)!HitsWhatIsShown /\ Placed(Sites, Angles, Sizes)!InverseInverts
    /\ part = "turns" =>
          /\ Placed(OneSite, OtherAngles, OtherSizes)!HitsWhatIsShown
          /\ Placed(OneSite, OtherAngles, OtherSizes)!InverseInverts
-----------------------------------------------------------------------------
(* Values of constants that a .cfg cannot write *)

TwoSites == {<<0, 0>>, <<3, 1>>}
Site == {<<2, -1>>}
Mirror == {<<-1, 2>>}  \* a scale that mirrors
Flat == {<<2, -1>>, <<0, 1>>}  \* one that flattens
NearAndFar == {-4, -1, 2}
=============================================================================
