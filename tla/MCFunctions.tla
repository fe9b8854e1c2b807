----------------------------- MODULE MCFunctions ------------------------------
(***************************************************************************)
(* What is computed: the statuses of a room, in every state the room can   *)
(* reach, and the array functions and collision tests of phina.js.  The    *)
(* parts share no state; a behaviour is about one of them.                 *)
(***************************************************************************)
EXTENDS MCRoom, ClientView, CalcOnSale

\* Of the parts, in their order; what they mean is said there.
CONSTANTS Undefined, Values, Fns, MaxLen, MaxInt, MaxPos, MaxSize

VARIABLE part  \* the part a behaviour is about

\* Arrays of a few elements, every erasing function over their values.
VARIABLES
    arraysOp, arraysBefore, arraysFn, arraysStart, arraysEnd, arraysStep, arraysArr,
    arraysI, arraysLen, arraysMax, arraysMin, arraysRunning
arraysVars ==
    <<arraysOp, arraysBefore, arraysFn, arraysStart, arraysEnd, arraysStep, arraysArr,
      arraysI, arraysLen, arraysMax, arraysMin, arraysRunning>>
Calls == INSTANCE Arrays WITH
    op <- arraysOp, before <- arraysBefore, fn <- arraysFn, start <- arraysStart, end <- arraysEnd,
    step <- arraysStep, arr <- arraysArr, i <- arraysI, len <- arraysLen,
    max <- arraysMax, min <- arraysMin, running <- arraysRunning
ASSUME CallsAssumption == Calls!ArraysAssumption

\* Rectangles and circles about the origin.
VARIABLES
    rect, circle, asked
geometryVars ==
    <<rect, circle, asked>>
Shapes == INSTANCE Geometry
ASSUME ShapesAssumption == Shapes!GeometryAssumption

-----------------------------------------------------------------------------
vars == <<part, roomVars, arraysVars, geometryVars>>

Init ==
    /\ part \in {"room", "arrays", "geometry"}
    /\ RoomInit
    /\ IF part = "arrays" THEN Calls!Init
       ELSE arraysOp = 0 /\ arraysBefore = 0 /\ arraysFn = 0 /\ arraysStart = 0 /\
            arraysEnd = 0 /\ arraysStep = 0 /\ arraysArr = 0 /\ arraysI = 0 /\
            arraysLen = 0 /\ arraysMax = 0 /\ arraysMin = 0 /\ arraysRunning = 0
    /\ Shapes!Init

\* One part moves, the others stand still.
Next ==
    /\ UNCHANGED part
    /\ IF part = "room" THEN BoundedNext ELSE UNCHANGED roomVars
    /\ IF part = "arrays" THEN Calls!Next ELSE UNCHANGED arraysVars
    /\ IF part = "geometry" THEN Shapes!Next ELSE UNCHANGED geometryVars

Spec == Init /\ [][Next]_vars
-----------------------------------------------------------------------------
(* Properties *)

\* The loops over arrays, which erase from the array they run over and swap in place, give
\* what a definition without a loop gives (phina.js:1095, 1373, 1210, 1344, 1309, 1575).
LoopsComputeThose ==
    part = "arrays" =>
        /\ Calls!ErasesThose /\ Calls!ShufflePermutes /\ Calls!UniqKeepsFirsts
        /\ Calls!RangeIsThose /\ Calls!FillsThose /\ Calls!MostIsExtreme

\* An edge of a rectangle can be set with the other three in place, and shapes collide
\* exactly if they have a point, or an area, in common (phina.js:2854, 3046, 3049, 3088).
ShapesCollide ==
    /\ [](part = "geometry" => Shapes!RectsShareArea /\ Shapes!CircleMeetsRect /\ Shapes!CircleMeetsLine)
    /\ Shapes!EdgesStay
-----------------------------------------------------------------------------
(* Values of constants that a .cfg cannot write *)

SomeFns == SUBSET (1 .. 3)
=============================================================================
