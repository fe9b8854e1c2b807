-------------------------------- MODULE Tweener --------------------------------
(***************************************************************************)
(* The animations of the game library (phina.js: Tweener, Tween): a queue  *)
(* of tasks on one property of an element, worked off frame by frame.      *)
(* gui.js queues one animation per click, Gauge clears and requeues one    *)
(* for every image that was loaded.  Tasks are added, and the tweener is   *)
(* controlled, between two frames or by the function of a "call" task.     *)
(*                                                                         *)
(* Values are whole numbers: interpolated ones are rounded down.           *)
(***************************************************************************)
EXTENDS Integers, Sequences, SequencesExt, FiniteSetsExt

CONSTANTS Task,         \* tasks that may be queued
          Unit,         \* milliseconds of a frame
          DefaultDuration,
          StackDepth,   \* calls the stack holds
          MaxValue,     \* bound: the value, which a loop of "by" moves for ever
          MaxTasks,     \* bound: length of the queue
          MaxControls   \* bound: how often it is controlled

\* The stack holds more calls than two times through the queue.
TweenerAssumption ==
    /\ Unit \in Nat \ {0} /\ DefaultDuration \in Nat \ {0}
    /\ MaxValue \in Nat /\ MaxTasks \in Nat /\ MaxControls \in Nat
    /\ StackDepth \in Nat /\ StackDepth > 2 * MaxTasks + 2
    /\ \A task \in Task :
          \/ task \in [type : {"tween"}, mode : {"to", "by", "from"}, to : Int, duration : Nat]
          \/ task \in [type : {"wait"}, duration : Nat]
          \/ task \in [type : {"set"}, to : Int]
          \/ task \in [type : {"call"}, do : {"play", "pause", "rewind", "stop", "clear"}]

VARIABLES tweener,      \* tasks, index, playing, update, loop, and the tween or wait under way
          value,        \* the property
          crashed,      \* the stack overflowed, and with it the ticker that calls the frames
          controls

vars == <<tweener, value, crashed, controls>>

NoTween == [begin |-> 0, finish |-> 0, duration |-> 1, time |-> 0]
\* Tweener._init; update is the method that _update is bound to.
Fresh == [tasks |-> <<>>, index |-> 1, playing |-> TRUE, update |-> "task", loop |-> FALSE,
          tween |-> NoTween]
-----------------------------------------------------------------------------
(* Controls *)

Playing(t) == [t EXCEPT !.playing = TRUE]
Paused(t) == [t EXCEPT !.playing = FALSE]
Rewound(t) == [t EXCEPT !.update = "task", !.index = 1]
Stopped(t) == Rewound(Paused(t))
Cleared(t) == Fresh

Control == {"play", "pause", "rewind", "stop", "clear"}
Controlled(t, c) == CASE c = "play" -> Playing(t) [] c = "pause" -> Paused(t)
                      [] c = "rewind" -> Rewound(t) [] c = "stop" -> Stopped(t)
                      [] c = "clear" -> Cleared(t)
-----------------------------------------------------------------------------
(* Tween *)

\* A duration of 0 is no duration.
Duration(task) == IF task.duration = 0 THEN DefaultDuration ELSE task.duration

\* Tween.to, by and from, of a task, for the current value v.
Begun(task, v) ==
    [begin |-> IF task.mode = "from" THEN task.to ELSE v,
     finish |-> CASE task.mode = "to" -> task.to [] task.mode = "by" -> v + task.to
                  [] task.mode = "from" -> v,
     duration |-> Duration(task), time |-> 0]

Clamped(time, duration) == IF time > duration THEN duration ELSE time

\* Tween.forward, with the linear easing.
Forwarded(tween) == [tween EXCEPT !.time = Clamped(tween.time + Unit, tween.duration)]
ValueOf(tween) == tween.begin + ((tween.finish - tween.begin) * tween.time) \div tween.duration
-----------------------------------------------------------------------------
(* Tweener._update: one frame *)

\* Bug: the index is moved on twice.
SkipTask(t) == [t EXCEPT !.index = IF @ < Len(t.tasks) THEN @ + 2 ELSE @ + 1]

Over(w) == w.time >= w.duration
NextTask(t) == [t EXCEPT !.index = @ + 1]

\* _updateTween and _updateWait: neither looks at playing.
UpdateTween(s) ==
    LET tween == Forwarded(s.t.tween)
    IN  [s EXCEPT !.t.tween = IF Over(tween) THEN NoTween ELSE tween,
                  !.t.update = IF Over(tween) THEN "task" ELSE @,
                  !.v = ValueOf(tween)]
UpdateWait(s) ==
    LET wait == [s.t.tween EXCEPT !.time = @ + Unit]
    IN  [s EXCEPT !.t.tween = IF Over(wait) THEN NoTween ELSE wait,
                  !.t.update = IF Over(wait) THEN "task" ELSE @]

\* _updateTask: the tasks that take no time are done one inside the other, up to
\* the first that takes time; again: it calls itself.
UpdateTask(s) ==
    LET task == s.t.tasks[s.t.index]
        next == [s EXCEPT !.t = NextTask(@)]
        ends == [next EXCEPT !.again = FALSE]
    IN  IF ~ s.t.playing THEN [s EXCEPT !.again = FALSE]
        ELSE IF s.t.index > Len(s.t.tasks)
        THEN IF s.t.loop THEN [s EXCEPT !.t = Rewound(@)]
                         ELSE [s EXCEPT !.t.playing = FALSE, !.again = FALSE]
        ELSE CASE task.type = "tween" ->
                    UpdateTween([ends EXCEPT !.t.update = "tween", !.t.tween = Begun(task, s.v)])
               [] task.type = "wait" ->
                    UpdateWait([ends EXCEPT !.t.update = "wait",
                                            !.t.tween = [NoTween EXCEPT !.duration = task.duration]])
               [] task.type = "call" -> [next EXCEPT !.t = Controlled(@, task.do)]
               [] task.type = "set" -> [next EXCEPT !.v = task.to]

\* The calls one inside the other, as many as the stack holds.
Calls(s) == LET After[n \in 0 .. StackDepth] ==
                    IF n = 0 THEN s
                    ELSE LET r == After[n - 1] IN IF r.again THEN UpdateTask(r) ELSE r
            IN  After[StackDepth]

Frame ==
    /\ ~ crashed /\ value \in - MaxValue .. MaxValue
    /\ LET s == [t |-> tweener, v |-> value, again |-> tweener.update = "task"]
           new == CASE tweener.update = "task" -> Calls(s)
                    [] tweener.update = "tween" -> UpdateTween(s)
                    [] tweener.update = "wait" -> UpdateWait(s)
       IN  tweener' = new.t /\ value' = new.v /\ crashed' = new.again
    /\ UNCHANGED controls

\* Frames and pointers come with the ticker: after a crash there are none.
Steered == ~ crashed /\ controls < MaxControls /\ controls' = controls + 1

\* to, by, from, wait, call, set
Add(task) ==
    /\ Len(tweener.tasks) < MaxTasks
    /\ Steered
    /\ tweener' = [tweener EXCEPT !.tasks = Append(@, task)]
    /\ UNCHANGED <<value, crashed>>

Steer(c) ==
    /\ Steered
    /\ tweener' = Controlled(tweener, c)
    /\ UNCHANGED <<value, crashed>>

SetLoop(flag) ==
    /\ tweener.loop # flag
    /\ Steered
    /\ tweener' = [tweener EXCEPT !.loop = flag]
    /\ UNCHANGED <<value, crashed>>
-----------------------------------------------------------------------------
Init == tweener = Fresh /\ value = 0 /\ crashed = FALSE /\ controls = 0

Next == Frame \/ (\E task \in Task : Add(task)) \/ (\E c \in Control : Steer(c))
              \/ (\E flag \in BOOLEAN : SetLoop(flag))

Spec == Init /\ [][Next]_vars
-----------------------------------------------------------------------------
(* Properties *)

TypeOK ==
    /\ tweener.tasks \in Seq(Task) /\ tweener.index \in 1 .. Len(tweener.tasks) + 1
    /\ tweener.playing \in BOOLEAN /\ tweener.loop \in BOOLEAN
    /\ tweener.update \in {"task", "tween", "wait"}
    /\ tweener.tween.time \in 0 .. tweener.tween.duration
    /\ value \in Int /\ crashed \in BOOLEAN

\* A frame ends, unless the tweener loops over tasks that take no time, or a call
\* rewinds it to tasks that take none: then the stack overflows, and the ticker,
\* which re-arms itself after the frame, stops (phina.js:8479, 3637).
TakesNoTime(task) == task.type \in {"call", "set"}
Rewinds(t) == t.loop \/ \E i \in DOMAIN t.tasks : t.tasks[i].type = "call" /\ t.tasks[i].do = "rewind"
FrameEnds ==
    [][crashed' /\ ~ crashed =>
         /\ Rewinds(tweener')
         /\ tweener'.tasks # <<>> => TakesNoTime(tweener'.tasks[1])]_vars

\* An animation ends exactly where it should, whatever the length of a frame, and
\* never shows a value beyond (phina.js:3343).
Between(v, a, b) == (a <= v /\ v <= b) \/ (b <= v /\ v <= a)
EndsExact ==
    [][/\ tweener.update = "tween" /\ controls' = controls =>
            Between(value', tweener.tween.begin, tweener.tween.finish)
       /\ tweener.update = "tween" /\ tweener'.update = "task" /\ controls' = controls =>
            value' = tweener.tween.finish]_vars

\* A task is not started twice, and none is skipped: the index moves on by tasks
\* that take no time and at most one that does (phina.js:8487).
InOrder ==
    [][controls' = controls /\ tweener'.tasks = tweener.tasks
         /\ tweener'.index > tweener.index =>
            \A i \in tweener.index .. tweener'.index - 2 : TakesNoTime(tweener.tasks[i])]_vars

=============================================================================
