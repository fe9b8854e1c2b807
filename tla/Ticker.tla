--------------------------------- MODULE Ticker ---------------------------------
(***************************************************************************)
(* phina.util.Ticker, the clock of every frame of the game: a tick does    *)
(* its work, measures how long that took, and sets a timer for what is     *)
(* left of the frame.  What it measures with is the date, which the user   *)
(* or the system may set while the game runs; the timer does not use it.   *)
(***************************************************************************)
EXTENDS Integers

CONSTANTS FrameTimes,       \* 1000 / fps, for the values fps is set to
          MaxTime, MaxSkew  \* bounds: of the time, and how far the date is set

TickerAssumption == FrameTimes \subseteq Nat \ {0} /\ MaxTime \in Nat /\ MaxSkew \in Nat

VARIABLES
    time, skew,   \* the time that passes, and how far the date is off
    state,        \* "idle", "working", "waiting" or, as a tick has thrown, "dead"
    due,          \* when the timer fires
    frameTime,
    startTime, currentTime, deltaTime, elapsedTime,
    \* history
    began, ended, \* when the last tick began, and ended
    skewed,       \* how far the date was set meanwhile
    waited,       \* the frame time the delay was computed with
    sum           \* of the deltas

clocks == <<startTime, currentTime, deltaTime, elapsedTime>>
vars == <<time, skew, state, due, frameTime, clocks, began, ended, skewed, waited, sum>>

Date == time + skew
Longer(a, b) == IF a > b THEN a ELSE b
-----------------------------------------------------------------------------
\* Bug: the time of a frame is measured from the start of them all.
SinceStart(now) == now - startTime

SinceLast(now) == now - currentTime

\* run, up to the listeners; the date at start is the first one it is measured from.
Begin ==
    /\ deltaTime' = SinceLast(Date) /\ elapsedTime' = Date - startTime /\ currentTime' = Date
    /\ state' = "working" /\ began' = time /\ skewed' = 0 /\ sum' = sum + deltaTime'
    /\ UNCHANGED <<time, skew, due, frameTime, startTime, ended, waited>>

Start ==
    /\ state = "idle"
    /\ startTime' = Date /\ currentTime' = Date /\ deltaTime' = 0 /\ elapsedTime' = 0
    /\ state' = "working" /\ began' = time /\ skewed' = 0
    /\ UNCHANGED <<time, skew, due, frameTime, ended, waited, sum>>

Tick == state = "waiting" /\ time >= due /\ Begin

Worked == Date - currentTime
Delay(elapsed) == Longer(frameTime - elapsed, 0)

\* run, after the listeners.
Done ==
    /\ state = "working" /\ state' = "waiting"
    /\ due' = time + Delay(Worked) /\ ended' = time /\ waited' = frameTime
    /\ UNCHANGED <<time, skew, frameTime, clocks, began, skewed, sum>>

\* A listener throws: the next timer is never set.
Throw == state = "working" /\ state' = "dead"
         /\ UNCHANGED <<time, skew, due, frameTime, clocks, began, ended, skewed, waited, sum>>

SetFps(t) == frameTime' = t
             /\ UNCHANGED <<time, skew, state, due, clocks, began, ended, skewed, waited, sum>>

Pass == time < MaxTime /\ time' = time + 1
        /\ UNCHANGED <<skew, state, due, frameTime, clocks, began, ended, skewed, waited, sum>>

SetDate(d) == /\ skew' = d /\ skewed' = IF state = "working" THEN skewed + d - skew ELSE skewed
              /\ UNCHANGED <<time, state, due, frameTime, clocks, began, ended, waited, sum>>
-----------------------------------------------------------------------------
Init ==
    /\ time = 0 /\ skew = 0 /\ state = "idle" /\ due = 0 /\ frameTime \in FrameTimes
    /\ startTime = 0 /\ currentTime = 0 /\ deltaTime = 0 /\ elapsedTime = 0
    /\ began = 0 /\ ended = 0 /\ skewed = 0 /\ waited = frameTime /\ sum = 0

Next == \/ Start \/ Tick \/ Done \/ Throw \/ Pass
        \/ \E t \in FrameTimes : SetFps(t)
        \/ \E d \in -MaxSkew .. MaxSkew : SetDate(d)

Spec == Init /\ [][Next]_vars
-----------------------------------------------------------------------------
(* Properties *)

\* What the frames took adds up to what all took, wherever the date was set (phina.js:3628).
DeltasAddUp == elapsedTime = sum

\* Nor is it put off further than that, or the end of the work: a date set back during the
\* work is waited for (phina.js:3643).
PutOffBySkew ==
    state = "waiting" => due - began <= Longer(waited - skewed, ended - began)
=============================================================================
