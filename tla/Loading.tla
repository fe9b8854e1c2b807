-------------------------------- MODULE Loading --------------------------------
(***************************************************************************)
(* The loading screen (phina.asset.AssetLoader, phina.util.Flow, the       *)
(* assets, phina.ui.Gauge, phina.game.LoadingScene): requests for assets   *)
(* are started one after the other and answered in any order; each answer  *)
(* moves a gauge, and the game starts when the gauge has been drawn full.  *)
(* Some assets are there at once, before the next request is even counted. *)
(***************************************************************************)
EXTENDS Integers, FiniteSets

CONSTANTS MaxAssets  \* bound: assets

LoadingAssumption == MaxAssets \in Nat

\* "sync" is a sheet given as an object or a font of unknown format: there at once.
\* "font" is a font of a known format, which is waited for for 3 seconds at most.
Kind == {"sync", "font", "image", "sound", "file"}
Full == 12  \* divisible by every number of assets: 100 percent

VARIABLES kind,     \* the assets, in the order of their requests
          lie,      \* options.lie: the gauge runs by itself
          next,     \* the asset that load requests next
          flow,     \* asset -> none, pending, retry, resolved, dead
          failed,   \* loadError
          usable,   \* what AssetManager has for it can be used
          counter,  \* answers counted for the gauge
          flows,    \* flows.length
          listens,  \* the listener of progress that replaces what failed is there
          value,    \* of the gauge
          tween,    \* the gauge is being animated
          load,     \* the event 'load' was fired
          started   \* the loading scene was replaced by the game

loader == <<next, flow, failed, usable, counter, flows, listens, load>>
gauge == <<value, tween>>
options == <<kind, lie>>
vars == <<loader, gauge, options, started>>

Assets == DOMAIN kind
Count(s) == Cardinality({a \in Assets : flow[a] = s})
-----------------------------------------------------------------------------
(* Gauge *)

Clamp(v) == IF v > Full THEN Full ELSE v

\* A change clears the animation that runs and starts another; no change does nothing.
SetValue(v) ==
    IF Clamp(v) = value THEN UNCHANGED gauge
    ELSE value' = Clamp(v) /\ tween' = TRUE

IsFull(v) == v = Full

\* The tweener runs while the loading scene is updated: it ends, and "full" is fired if
\* the gauge is full by then, which replaces the scene.
Animated ==
    /\ tween /\ ~ started /\ listens
    /\ tween' = FALSE /\ started' = IsFull(value)
    /\ UNCHANGED <<loader, options, value>>
-----------------------------------------------------------------------------
(* AssetLoader *)

\* ++counter / flows.length, of the flows pushed so far; 1/0 is Infinity.
Progress(c, n) == IF n = 0 THEN Full + 1 ELSE (Full * c) \div n

AtEnd(p) == p >= Full

\* What failed is replaced by the sound 'dummy', or is given a sound of its own.
Replaced(error, kept) == [a \in Assets |-> kept[a] \/ error[a]]

\* The first callback of a flow: the asset is kept, progress is fired.
Keep(a, error) ==
    /\ flow' = [flow EXCEPT ![a] = "resolved"]
    /\ counter' = counter + 1
    /\ failed' = [failed EXCEPT ![a] = error]
    /\ LET kept == [usable EXCEPT ![a] = ~ error]
       IN  usable' = IF listens /\ AtEnd(Progress(counter + 1, flows))
                     THEN Replaced(failed', kept) ELSE kept

\* onprogress, or in mode lie onload, moves the gauge.
Move(all) == IF ~ lie THEN SetValue(Progress(counter + 1, flows))
             ELSE IF all THEN SetValue(Full) ELSE UNCHANGED gauge

\* The request of the next asset; a flow that is resolved already calls back at once,
\* before it is pushed.
Request ==
    /\ next <= Cardinality(Assets)
    /\ next' = next + 1 /\ flows' = flows + 1
    /\ IF kind[next] = "sync"
       THEN Keep(next, FALSE) /\ Move(FALSE)
       ELSE flow' = [flow EXCEPT ![next] = "pending"] /\ UNCHANGED <<gauge, failed, usable, counter>>
    /\ UNCHANGED <<options, listens, load, started>>

\* Bug: the flow of all is resolved by the last but one.
LastButOne(n) == n > 0 /\ n >= flows - 1

\* Flow.all, which without flows never resolves.
AllCounted(n) == n > 0 /\ n >= flows

\* The rest of load: the listener for failures, and the flow of all.
Listen ==
    /\ next > Cardinality(Assets) /\ ~ listens
    /\ listens' = TRUE
    /\ load' = AllCounted(Count("resolved"))
    /\ IF lie /\ load' THEN SetValue(Full) ELSE UNCHANGED gauge
    /\ UNCHANGED <<options, next, flow, failed, usable, counter, flows, started>>
-----------------------------------------------------------------------------
(* Answers *)

Waits(a, kinds) == /\ listens /\ flow[a] \in {"pending", "retry"} /\ kind[a] \in kinds

\* A flow resolves: the loader's callback, then the one of Flow.all.  A sound that
\* cannot be decoded resolves as well: it is played as silence.
Resolve(a, error) ==
    /\ Keep(a, error)
    /\ LET all == AllCounted(Count("resolved") + 1)
       IN  load' = (load \/ all) /\ Move(all /\ ~ load)
    /\ UNCHANGED <<options, next, flows, listens, started>>

Arrives(a) == Waits(a, {"image", "sound", "file"}) /\ Resolve(a, FALSE)

\* A font is there when text is drawn in it, or after thirty looks.
FontReady(a) == Waits(a, {"font"}) /\ Resolve(a, FALSE)

\* A sound that is not found, or a server's error, is an answer too.
SoundFails(a) == Waits(a, {"sound"}) /\ Resolve(a, TRUE)

\* An image that fails is asked for at dummyimage.com, once.
ImageFails(a) ==
    /\ Waits(a, {"image"})
    /\ flow' = [flow EXCEPT ![a] = IF @ = "pending" THEN "retry" ELSE "dead"]
    /\ UNCHANGED <<options, next, failed, usable, counter, flows, listens, gauge, load, started>>

\* Any other file that fails is never heard of.
FileFails(a) ==
    /\ Waits(a, {"file"})
    /\ flow' = [flow EXCEPT ![a] = "dead"]
    /\ UNCHANGED <<options, next, failed, usable, counter, flows, listens, gauge, load, started>>
-----------------------------------------------------------------------------
Init ==
    /\ \E n \in 0 .. MaxAssets : kind \in [1 .. n -> Kind]
    /\ lie \in BOOLEAN
    /\ next = 1 /\ flow = [a \in Assets |-> "none"]
    /\ failed = [a \in Assets |-> FALSE] /\ usable = [a \in Assets |-> FALSE]
    /\ counter = 0 /\ flows = 0 /\ listens = FALSE /\ load = FALSE /\ started = FALSE
    /\ value = IF lie THEN Full - 1 ELSE 0
    /\ tween = lie

Answer(a) == Arrives(a) \/ FontReady(a) \/ SoundFails(a) \/ ImageFails(a) \/ FileFails(a)

Next == Request \/ Listen \/ Animated \/ \E a \in Assets : Answer(a)

Spec == Init /\ [][Next]_vars

-----------------------------------------------------------------------------
(* Properties *)

\* The gauge stays within its bounds, though progress is above 1 when an asset is there
\* before it is counted (phina.js:11500); the counters are those of the flows.
TypeOK ==
    /\ \A a \in Assets : /\ flow[a] \in {"none", "pending", "retry", "resolved", "dead"}
                         /\ failed[a] => kind[a] = "sound"
    /\ value \in 0 .. Full /\ flows = next - 1 /\ counter = Count("resolved")

\* The event 'load' means that everything was loaded, whatever the order.
LoadMeansAll == load => Count("resolved") = Cardinality(Assets)

\* An asset that is there at once as the first or second: progress is then 1 or more
\* before anything else is loaded.
Early == \E a \in Assets : a <= 2 /\ kind[a] = "sync"

\* A game does not start without its assets, unless one of the first two is there at
\* once: the gauge may be drawn full by that alone (phina.js:4598).
StartsLoaded ==
    started => IF lie THEN load ELSE Early \/ Count("resolved") = Cardinality(Assets)

\* When the game starts every asset can be used, in place of sounds that failed a dummy
\* (phina.js:4604), which takes that the last answer comes after the request of the last.
UsableOnStart == started => (~ lie /\ Early) \/ \A a \in Assets : usable[a]

=============================================================================
