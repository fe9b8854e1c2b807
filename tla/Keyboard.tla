-------------------------------- MODULE Keyboard --------------------------------
(***************************************************************************)
(* The keyboard (phina.input.Keyboard): what the browser's events say is   *)
(* taken over once a frame, into what is pressed, what went down and what  *)
(* went up, for the keys that have been heard of.  The events that update  *)
(* passes on, for the last key that moved, are left out: nothing else here *)
(* reads them.                                                             *)
(***************************************************************************)
EXTENDS Integers, FiniteSets

Key == {"left", "up", "right", "down"}

VARIABLES key,      \* heard of since clearKey: key -> is down
          press, down, up,
          held,     \* history: what the ups and downs of the frames amount to
          moved,    \* history: down at a frame, or keydown fired, twice without an up
          cleared   \* history: keys that were pressed, or went up, at a clearKey

frame == <<press, down, up, held, moved>>
vars == <<key, frame, cleared>>

Heard == DOMAIN key
Put(k, b) == [j \in Heard \cup {k} |-> IF j = k THEN b ELSE key[j]]
-----------------------------------------------------------------------------
(* The browser *)

KeyDown(k) == key' = Put(k, TRUE) /\ UNCHANGED <<frame, cleared>>
KeyUp(k) == key' = Put(k, FALSE) /\ UNCHANGED <<frame, cleared>>

(* The program *)

SetKey(k, b) == key' = Put(k, b) /\ UNCHANGED <<frame, cleared>>

ClearKey ==
    /\ key' = [k \in {} |-> FALSE]
    /\ cleared' = cleared \cup {k \in Key : press[k] \/ up[k]}
    /\ UNCHANGED <<frame>>

\* Bug: a key that is held goes down at each frame.
DownWhileHeld(now, last) == now

WentDown(now, last) == (now # last) /\ now

\* update: the keys that were not heard of keep what they had, the ups and downs too.
Update ==
    /\ press' = [k \in Key |-> IF k \in Heard THEN key[k] ELSE press[k]]
    /\ down' = [k \in Key |-> IF k \in Heard THEN WentDown(key[k], press[k]) ELSE down[k]]
    /\ up' = [k \in Key |-> IF k \in Heard THEN (key[k] # press[k]) /\ press[k] ELSE up[k]]
    /\ held' = [k \in Key |-> down'[k] \/ (held[k] /\ ~ up'[k])]
    /\ moved' = {k \in Key : (down'[k] /\ held[k]) \/ (up'[k] /\ ~ held[k])}
    /\ UNCHANGED <<key, cleared>>
-----------------------------------------------------------------------------
(* getKeyAngle and getKeyDirection *)

\* ARROW_BIT_TO_ANGLE_TABLE by the keys of its bits, -1 for null.
AngleTable == [s \in SUBSET Key |->
    CASE s = {"down"} -> 270 [] s = {"right"} -> 0 [] s = {"up"} -> 90 [] s = {"left"} -> 180
      [] s = {"up", "right"} -> 45 [] s = {"right", "down"} -> 315
      [] s = {"left", "up"} -> 135 [] s = {"left", "down"} -> 225
      [] s = {"left", "up", "right"} -> 90 [] s = {"left", "up", "down"} -> 180
      [] s = {"left", "right", "down"} -> 270 [] s = {"up", "right", "down"} -> 0
      [] OTHER -> -1]

Pressed == {k \in Key : press[k]}
GetKeyAngle == AngleTable[Pressed]

\* The length, 1 or the root of 2, is divided out.
GetKeyDirection ==
    <<IF press["left"] THEN -1 ELSE IF press["right"] THEN 1 ELSE 0,
      IF press["up"] THEN -1 ELSE IF press["down"] THEN 1 ELSE 0>>
-----------------------------------------------------------------------------
Init ==
    /\ key = [k \in {} |-> FALSE] /\ cleared = {} /\ moved = {}
    /\ press = [k \in Key |-> FALSE] /\ down = press /\ up = press /\ held = press

Next ==
    \/ \E k \in Key : KeyDown(k) \/ KeyUp(k) \/ \E b \in BOOLEAN : SetKey(k, b)
    \/ ClearKey \/ Update

Spec == Init /\ [][Next]_vars
-----------------------------------------------------------------------------
(* Properties *)

\* A key is pressed exactly if the ups and downs that the frames have shown amount to it,
\* and none comes twice, unless it was pressed or went up at a clearKey (phina.js:6089).
EdgesAddUp == \A k \in Key \ cleared : held[k] = press[k] /\ k \notin moved

\* The angle of the arrows is that of their direction, unless opposite ones are pressed
\* (phina.js:6161).
Degrees(d) ==
    CASE d = <<1, 0>> -> 0 [] d = <<1, -1>> -> 45 [] d = <<0, -1>> -> 90
      [] d = <<-1, -1>> -> 135 [] d = <<-1, 0>> -> 180 [] d = <<-1, 1>> -> 225
      [] d = <<0, 1>> -> 270 [] d = <<1, 1>> -> 315 [] OTHER -> -1
Opposite == \E s \in {{"left", "right"}, {"up", "down"}} : s \subseteq Pressed
AngleOfDirection == ~ Opposite => GetKeyAngle = Degrees(GetKeyDirection)

=============================================================================
