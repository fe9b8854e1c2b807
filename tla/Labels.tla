--------------------------------- MODULE Labels ---------------------------------
(***************************************************************************)
(* Shapes and labels draw a picture of their own that is shown in every    *)
(* frame, and draw it again in the enterframe after a property was set to  *)
(* another value (phina.display.Shape, Label, Object.$watch): the numbers  *)
(* and messages of the game.                                               *)
(***************************************************************************)
EXTENDS Integers, Sequences

CONSTANTS None,
          Widths, Radii,  \* what the sizes are set to
          MaxLines,       \* of a text
          LineSize, Padding

LabelsAssumption ==
    /\ Widths \subseteq Nat /\ Radii \subseteq Nat /\ Widths # {} /\ Radii # {}
    /\ MaxLines \in Nat \ {0} /\ LineSize \in Nat \ {0} /\ Padding \in Nat

Property == {"text", "width", "radius", "fill", "stroke", "strokeWidth", "shadow"}
Value(k) == CASE k = "text" -> 1 .. MaxLines [] k = "width" -> Widths [] k = "radius" -> Radii
              [] OTHER -> {0, 1}  \* strokeWidth, and colours, of which 0 is none

VARIABLES
    prop,              \* the properties; of text, the number of lines
    boundingType,
    dirty, watchDraw,  \* _dirtyDraw, watchDraw
    picture,
    \* history
    seen,              \* the properties at the last enterframe that could draw
    retyped,           \* boundingType was set since the picture was drawn
    touched            \* a property was set since that enterframe

vars == <<prop, boundingType, dirty, watchDraw, picture, seen, retyped, touched>>
-----------------------------------------------------------------------------
(* Object2D *)

\* The size of what is round is its diameter, whatever width was set to, and the other way round.
Width == IF boundingType = "rect" THEN prop["width"] ELSE 2 * prop["radius"]
Radius == IF boundingType = "rect" THEN (Width + Width) \div 4 ELSE prop["radius"]

Get(k) == CASE k = "width" -> Width [] k = "radius" -> Radius [] OTHER -> prop[k]
-----------------------------------------------------------------------------
(* Shape and Label *)

\* Twice the place of the first of n lines.
TwiceOffset(n) == -2 * (n \div 2) * LineSize + ((n + 1) % 2) * LineSize

IsStrokable == prop["stroke"] # 0 /\ prop["strokeWidth"] > 0

\* render: setting the size clears the canvas and its settings.
Rendered ==
    [size |-> Width + 2 * Padding,
     lines |-> [i \in 1 .. prop["text"] |-> 2 * (i - 1) * LineSize + TwiceOffset(prop["text"])],
     stroke |-> IF IsStrokable THEN <<prop["stroke"], prop["strokeWidth"]>> ELSE None,
     fill |-> IF prop["fill"] # 0 THEN <<prop["fill"], prop["shadow"]>> ELSE None]

Changed(v, old) == v # old

\* The setter $watch puts in front of a property.
Set(k, v) ==
    /\ prop' = [prop EXCEPT ![k] = v] /\ dirty' = (dirty \/ Changed(v, Get(k))) /\ touched' = TRUE
    /\ UNCHANGED <<boundingType, watchDraw, picture, seen, retyped>>

\* Not a watched property.
SetBoundingType(t) ==
    /\ boundingType' = t /\ retyped' = (retyped \/ t # boundingType) /\ touched' = TRUE
    /\ UNCHANGED <<prop, dirty, watchDraw, picture, seen>>

Cleaned == FALSE

Enterframe ==
    /\ IF watchDraw /\ dirty
       THEN picture' = Rendered /\ dirty' = Cleaned /\ retyped' = FALSE
       ELSE UNCHANGED <<picture, dirty, retyped>>
    /\ IF watchDraw THEN seen' = Rendered /\ touched' = FALSE ELSE UNCHANGED <<seen, touched>>
    /\ UNCHANGED <<prop, boundingType, watchDraw>>

SetWatchDraw ==
    watchDraw' = ~ watchDraw /\ UNCHANGED <<prop, boundingType, dirty, picture, seen, retyped, touched>>
-----------------------------------------------------------------------------
Init ==
    /\ prop \in [Property -> Widths \cup Radii \cup {1}]
    /\ \A k \in Property : prop[k] = CHOOSE v \in Value(k) : v # 0
    /\ boundingType = "rect" /\ dirty = TRUE /\ watchDraw = TRUE /\ picture = None
    /\ seen = None /\ retyped = FALSE /\ touched = TRUE

Next == \/ \E k \in Property : \E v \in Value(k) : Set(k, v)
        \/ \E t \in {"rect", "circle"} : SetBoundingType(t)
        \/ Enterframe \/ SetWatchDraw

Spec == Init /\ [][Next]_vars
-----------------------------------------------------------------------------
(* Properties *)

\* What is shown is what the properties said at the last enterframe that could draw, unless
\* the bounding type was set: it changes the size unwatched, and no setting of the size
\* need be noticed then (phina.js:10298, 8025).
PictureFollows == ~retyped => picture = seen

\* The lines of a text are centred (phina.js:10798).
LinesCentred ==
    picture # None => picture.lines[1] + picture.lines[Len(picture.lines)] = 0

\* Once it could draw and nothing was set since, there is nothing left to draw (phina.js:10214).
CleanIfDrawn == ~touched => ~dirty
=============================================================================
