-------------------------------- MODULE Gamepads --------------------------------
(***************************************************************************)
(* The gamepads (phina.input.GamepadManager and Gamepad): the browser has  *)
(* pads at its indices, with the time of their last change; each frame     *)
(* polls them, without the indices that are empty, and takes the buttons   *)
(* over into the objects made so far, unless the time tells nothing is new.*)
(***************************************************************************)
EXTENDS Integers, Sequences, SequencesExt

CONSTANTS Pads, None,
          MaxTime  \* bound: changes

\* The browser gives out the indices from 0; here from 1, like the tuples.
Index == 1 .. Pads

GamepadsAssumption == Pads \in Nat \ {0} /\ MaxTime \in Nat

VARIABLES raw,       \* the browser's pads: index -> None or [time, pressed, index]
          time,      \* of the last change
          polled,    \* _rawgamepads
          gamepads,  \* index -> None or the object
          created,   \* _created
          prev,      \* _prevTimestamps, by the place in _created
          disposed,  \* history: indices that dispose was called for
          twice      \* history: indices whose button went down or up twice in a row

vars == <<raw, time, polled, gamepads, created, prev, disposed, twice>>

Here(i) == raw[i] # None
Blank == [pressed |-> FALSE, down |-> FALSE, up |-> FALSE, connected |-> FALSE, of |-> None]
-----------------------------------------------------------------------------
(* The manager *)

\* get, in terms of the state before the call.
Got(i) == IF gamepads[i] = None THEN [gamepads EXCEPT ![i] = Blank] ELSE gamepads
Creation(i) == created' = IF gamepads[i] = None THEN Append(created, i) ELSE created

Get(i) ==
    /\ gamepads' = Got(i) /\ Creation(i)
    /\ UNCHANGED <<raw, time, polled, prev, disposed, twice>>

\* dispose reads this.gamepad, which is undefined: it throws before anything is changed.
Dispose(i) ==
    /\ Contains(created, i)
    /\ disposed' = disposed \cup {i}
    /\ UNCHANGED <<raw, time, polled, gamepads, created, prev, twice>>

WentDown(now, last) == (now # last) /\ now

\* _updateButton; the object takes over the pad's connected as well.
UpdateState(g, pad) ==
    [pressed |-> pad.pressed, down |-> WentDown(pad.pressed, g.pressed),
     up |-> pad.pressed # g.pressed /\ g.pressed, connected |-> TRUE, of |-> pad.index]

UpdateStateEmpty(g) == [g EXCEPT !.down = FALSE, !.up = FALSE]

Same(pad, n) == pad.time > 0 /\ pad.time = prev[n]

\* _poll, up to an index and over all of them.
Polled[n \in 0 .. Pads] ==
    IF n = 0 THEN <<>> ELSE IF Here(n) THEN Append(Polled[n - 1], raw[n]) ELSE Polled[n - 1]
Poll == Polled[Pads]

\* The object at a place of _created, with the pad polled at its index, if there is one.
Updated(i, n, pads) ==
    IF i > Len(pads) THEN gamepads[i]
    ELSE IF Same(pads[i], n) THEN UpdateStateEmpty(gamepads[i])
    ELSE UpdateState(gamepads[i], pads[i])

Place(i) == CHOOSE n \in DOMAIN created : created[n] = i

Update ==
    /\ polled' = Poll
    /\ gamepads' = [i \in Index |-> IF Contains(created, i) THEN Updated(i, Place(i), Poll) ELSE None]
    /\ prev' = [n \in Index |-> IF n <= Len(created) /\ created[n] <= Len(Poll)
                                THEN Poll[created[n]].time ELSE prev[n]]
    /\ twice' = {i \in Index : /\ gamepads[i] # None
                               /\ \/ gamepads'[i].down /\ gamepads[i].pressed
                                  \/ gamepads'[i].up /\ ~ gamepads[i].pressed}
    /\ UNCHANGED <<raw, time, created, disposed>>

-----------------------------------------------------------------------------
(* The browser; its events of connection go to get as well *)

Change(i, pad) == time < MaxTime /\ time' = time + 1 /\ raw' = [raw EXCEPT ![i] = pad]
Event(i, c) ==
    /\ gamepads' = [Got(i) EXCEPT ![i].connected = c] /\ Creation(i)
    /\ UNCHANGED <<polled, prev, disposed, twice>>

Connects(i) ==
    /\ ~ Here(i)
    /\ Change(i, [time |-> time + 1, pressed |-> FALSE, index |-> i]) /\ Event(i, TRUE)

Disconnects(i) ==
    /\ Here(i)
    /\ Change(i, None) /\ Event(i, FALSE)

Button(i) ==
    /\ Here(i)
    /\ Change(i, [raw[i] EXCEPT !.time = time + 1, !.pressed = ~ @])
    /\ UNCHANGED <<polled, gamepads, created, prev, disposed, twice>>

Init ==
    /\ raw = [i \in Index |-> None] /\ time = 0 /\ polled = <<>>
    /\ gamepads = [i \in Index |-> None] /\ created = <<>> /\ prev = [n \in Index |-> 0]
    /\ disposed = {} /\ twice = {}

Next == \/ \E i \in Index : Get(i) \/ Dispose(i) \/ Connects(i) \/ Disconnects(i) \/ Button(i)
        \/ Update

Spec == Init /\ [][Next]_vars
-----------------------------------------------------------------------------
(* Properties *)

\* A button that went down goes up before it goes down again, also when the pad that was
\* polled at its index is another's (phina.js:6877, 6666), unless no pad was.
EdgesAlternate == \A i \in twice : i > Len(polled)

=============================================================================
