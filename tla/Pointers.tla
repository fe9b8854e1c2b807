------------------------------- MODULE Pointers -------------------------------
(***************************************************************************)
(* How the game library turns touches and the mouse into pointstart and    *)
(* pointend, the events every button of the game is built on (phina.js:    *)
(* Input, Mouse, Touch, TouchList, the pointers of DomApp, Interactive).   *)
(* The browser's events arrive at any time between two frames; a frame     *)
(* samples the inputs and then asks every object about every pointer.      *)
(*                                                                         *)
(* A position is the object under it, or Outside: objects do not overlap.  *)
(***************************************************************************)
EXTENDS Integers, Sequences, FiniteSets, SequencesExt

CONSTANTS Obj,        \* objects on the screen, all with a bounding box
          Finger,     \* fingers
          MaxPress    \* bound: how often something is pressed

PressAssumption == MaxPress \in Nat

Outside == "outside"
Place == Obj \cup {Outside}
NoTouch == -1
Id == 0 .. MaxPress

VARIABLES
    touches,      \* TouchList.touches
    touchMap,     \* finger -> the id of its touch
    nextId,
    mouse,        \* an Input as well, of id 0
    pointers,     \* DomApp: "touches" or "mouse"
    interactive,  \* objects that are interactive
    over, touch,  \* _overFlags, _touchFlags: pairs of object and id
    holds,        \* _holds: how often it holds the object
    \* history
    presses,      \* how often something was pressed
    starts, ends, \* press -> how often it was reported as pointstart, as pointend
    crowded,      \* presses of a finger while another touch was listed before it
    upset         \* an object was disabled while touched, or the pointers were switched then,
                  \* or the mouse was released and pressed again between two frames

inputs == <<touches, touchMap, nextId, mouse, pointers>>
objects == <<interactive, over, touch, holds>>
history == <<presses, starts, ends, crowded, upset>>
vars == <<inputs, objects, history>>

Press == 1 .. MaxPress
-----------------------------------------------------------------------------
(* Input *)

\* flags: the bit of the button or the finger, as the events leave it; now and
\* last: as the last two frames saw it.
NewInput(id, place, press) ==
    [id |-> id, flags |-> 1, now |-> 0, last |-> 0, pos |-> place, temp |-> place,
     released |-> FALSE, press |-> press]

Start(t) == t.now = 1 /\ t.last = 0
End(t) == t.now = 0 /\ t.last = 1

\* Input.update
Sampled(t) == [t EXCEPT !.last = t.now, !.now = t.flags, !.pos = t.temp]
-----------------------------------------------------------------------------
(* TouchList *)

RemoveTouch(s, i) == RemoveAt(s, i)

\* TouchList.update: a touch is updated until it was seen lifted, and removed one
\* frame later.  The removal happens during the forEach, which then skips the
\* touch that moved into the gap: it is not updated in this frame.
UpdateList ==
    LET Visit(s, i) ==
            IF i > Len(s) THEN s
            ELSE IF s[i].released THEN RemoveTouch(s, i)
            ELSE [s EXCEPT ![i] = [Sampled(s[i]) EXCEPT !.released = (s[i].flags = 0)]]
        Visited[n \in 0 .. Len(touches)] == IF n = 0 THEN touches ELSE Visit(Visited[n - 1], n)
    IN  Visited[Len(touches)]

\* An event changes the touch of a finger.
ChangeTouch(f, New(_)) ==
    touches' = [i \in DOMAIN touches |->
                   IF touches[i].id = touchMap[f] THEN New(touches[i]) ELSE touches[i]]

Pressed == /\ presses < MaxPress
           /\ presses' = presses + 1

\* The pointers are switched: what was touched through the others stays touched.
Switch(kind) ==
    /\ pointers' = kind
    /\ upset' = (upset \/ (pointers # kind /\ touch # {}))

TouchStart(f, place) ==
    /\ touchMap[f] = NoTouch
    /\ Pressed
    /\ touches' = Append(touches, NewInput(nextId, place, presses + 1))
    /\ touchMap' = [touchMap EXCEPT ![f] = nextId]
    /\ nextId' = nextId + 1
    /\ Switch("touches")
    /\ crowded' = IF touches = <<>> THEN crowded ELSE crowded \cup {presses + 1}
    /\ UNCHANGED <<mouse, objects, starts, ends>>

TouchMove(f, place) ==
    /\ touchMap[f] # NoTouch
    /\ ChangeTouch(f, LAMBDA t : [t EXCEPT !.temp = place])
    /\ UNCHANGED <<touchMap, nextId, mouse, pointers, objects, history>>

\* touchend, touchcancel
TouchEnd(f) ==
    /\ touchMap[f] # NoTouch
    /\ ChangeTouch(f, LAMBDA t : [t EXCEPT !.flags = 0])
    /\ touchMap' = [touchMap EXCEPT ![f] = NoTouch]
    /\ UNCHANGED <<nextId, mouse, pointers, objects, history>>
-----------------------------------------------------------------------------
(* Mouse *)

MouseOver == /\ pointers # "mouse" /\ Switch("mouse")
             /\ UNCHANGED <<touches, touchMap, nextId, mouse, objects, presses, starts, ends, crowded>>

MouseDown == /\ mouse.flags = 0 /\ Pressed
             /\ mouse' = [mouse EXCEPT !.flags = 1, !.press = presses + 1, !.pos = mouse.temp]
             /\ upset' = (upset \/ mouse.now = 1)
             /\ UNCHANGED <<touches, touchMap, nextId, pointers, objects, starts, ends, crowded>>

MouseUp == /\ mouse.flags = 1 /\ mouse' = [mouse EXCEPT !.flags = 0]
           /\ UNCHANGED <<touches, touchMap, nextId, pointers, objects, history>>

MouseMove(place) == /\ mouse.temp # place /\ mouse' = [mouse EXCEPT !.temp = place]
                    /\ UNCHANGED <<touches, touchMap, nextId, pointers, objects, history>>
-----------------------------------------------------------------------------
(* Interactive *)

\* __checkPoint of an interactive object o and a pointer p.
IsOver(o, p) == p.pos = o
StartOn(o, p) == IsOver(o, p) /\ Start(p)
Touched(o, p) == <<o, p.id>> \in touch \/ StartOn(o, p)
EndOn(o, p) == Touched(o, p) /\ End(p)
Erase(n, left) == IF n > left THEN n - left ELSE 0

\* Frame: the inputs are sampled, every interactive object is asked about every
\* pointer in use.  An end lets go of the flag over, but not of the hold.
Frame ==
    LET ts == UpdateList
        ms == Sampled(mouse)
        ps == IF pointers = "mouse" THEN {ms} ELSE ToSet(ts)
        asked == interactive \X ps
        Key(a) == <<a[1], a[2].id>>
        Entered(o) == {p \in ps : IsOver(o, p) /\ <<o, p.id>> \notin over}
        Left(o) == {p \in ps : ~ IsOver(o, p) /\ <<o, p.id>> \in over}
        Reported(Event(_, _), k) == Cardinality({a \in asked : a[2].press = k /\ Event(a[1], a[2])})
    IN  /\ touches' = ts /\ mouse' = ms
        /\ over' = (over \ {Key(a) : a \in asked})
                     \cup {Key(a) : a \in {b \in asked : IsOver(b[1], b[2]) /\ ~ EndOn(b[1], b[2])}}
        /\ touch' = (touch \ {Key(a) : a \in asked})
                     \cup {Key(a) : a \in {b \in asked : Touched(b[1], b[2]) /\ ~ EndOn(b[1], b[2])}}
        /\ holds' = [o \in Obj |->
                       IF o \in interactive
                       THEN Erase(holds[o] + Cardinality(Entered(o)), Cardinality(Left(o)))
                       ELSE holds[o]]
        /\ starts' = [k \in Press |-> starts[k] + Reported(StartOn, k)]
        /\ ends' = [k \in Press |-> ends[k] + Reported(EndOn, k)]
        /\ UNCHANGED <<touchMap, nextId, pointers, interactive, presses, crowded, upset>>

\* setInteractive, as BuyButton.enable and disable of gui.js call it.
SetInteractive(o) ==
    /\ interactive' = IF o \in interactive THEN interactive \ {o} ELSE interactive \cup {o}
    /\ upset' = (upset \/ (o \in interactive /\ \E id \in Id : <<o, id>> \in touch))
    /\ UNCHANGED <<inputs, over, touch, holds, presses, starts, ends, crowded>>
-----------------------------------------------------------------------------
Init ==
    /\ touches = <<>> /\ touchMap = [f \in Finger |-> NoTouch] /\ nextId = 0
    /\ mouse = [NewInput(0, Outside, 0) EXCEPT !.flags = 0]
    /\ pointers = "touches"
    /\ interactive = Obj /\ over = {} /\ touch = {} /\ holds = [o \in Obj |-> 0]
    /\ presses = 0 /\ starts = [k \in Press |-> 0] /\ ends = [k \in Press |-> 0]
    /\ crowded = {} /\ upset = FALSE

Next ==
    \/ \E f \in Finger : TouchEnd(f) \/ \E place \in Place : TouchStart(f, place) \/ TouchMove(f, place)
    \/ MouseOver \/ MouseDown \/ MouseUp \/ \E place \in Place : MouseMove(place)
    \/ Frame
    \/ \E o \in Obj : SetInteractive(o)

Spec == Init /\ [][Next]_vars

-----------------------------------------------------------------------------
(* Properties *)

InputType == [id : Id, flags : {0, 1}, now : {0, 1}, last : {0, 1}, pos : Place, temp : Place,
              released : BOOLEAN, press : 0 .. MaxPress]

\* A finger on the screen has its touch in the list, with its flag set, and no two
\* touches of the list have an id in common (phina.js:6004).
TypeOK ==
    /\ touches \in Seq(InputType) /\ mouse \in InputType
    /\ pointers \in {"touches", "mouse"} /\ interactive \subseteq Obj
    /\ over \subseteq Obj \X Id /\ touch \subseteq Obj \X Id /\ holds \in [Obj -> Nat]
    /\ \A f \in Finger : touchMap[f] # NoTouch =>
          \E t \in ToSet(touches) : t.id = touchMap[f] /\ t.flags = 1 /\ ~ t.released
    /\ \A i, j \in DOMAIN touches : touches[i].id = touches[j].id => i = j

\* A press is reported once.  One that shares the list with an earlier touch may
\* be reported twice: the frame that removes the earlier one does not update it
\* (phina.js:6010).
StartOnce == \A k \in Press : k \notin crowded => starts[k] <= 1

\* A pointend belongs to a press that was reported, unless an object was disabled
\* while it was touched, or mouse and touches took turns then: the flag then stays
\* set, and the next press of that id ends on it, wherever it began (phina.js:7229);
\* or unless two clicks of the mouse look like one.
EndsMatched == ~ upset => \A k \in Press : ends[k] <= starts[k]

\* Whatever a pointer is over is held, so that the cursor shows it (phina.js:7240);
\* the reverse is not so: an object that was clicked stays held.
HoverHeld ==
    \A o \in Obj : Cardinality({id \in Id : <<o, id>> \in over}) <= holds[o]

=============================================================================
