--------------------------------- MODULE Sounds ---------------------------------
(***************************************************************************)
(* Music (phina.asset.Sound and SoundManager): the sounds, each with the   *)
(* source it started last, the current music, and the intervals that fade  *)
(* music in and out.  An interval keeps the sound it was made for, and the *)
(* volume of that moment, whatever becomes of the sound meanwhile.         *)
(***************************************************************************)
EXTENDS Integers, Sequences

CONSTANTS Music, None,
          Steps,    \* ticks of a fade; 32 in the code
          Levels,   \* volumes that are set
          MaxFades  \* bound: intervals at a time

SoundsAssumption ==
    /\ None \notin Music /\ Steps \in Nat \ {0} /\ MaxFades \in Nat
    /\ Levels # {} /\ \A v \in Levels : v \in Nat /\ v % Steps = 0

VARIABLES source,       \* of a sound: none, on, off (disconnected), ended
          sourceLoop,   \* its source was started with loop
          lost,         \* kinds of sources that sound without being anyone's source
          volume,       \* gain of a sound
          musicVolume, muteFlag, currentMusic,
          fades,        \* the intervals: [music, dir, counter, volume]
          crossed       \* history: sounds played, or whose volume was set, while being faded

sounds == <<source, sourceLoop, lost>>
manager == <<musicVolume, muteFlag, currentMusic>>
vars == <<sounds, volume, manager, fades, crossed>>

Fading(m) == \E i \in DOMAIN fades : fades[i].music = m
Crossing(S) == crossed' = crossed \cup {m \in S : Fading(m)}
-----------------------------------------------------------------------------
(* Sound, in terms of the sources before the call *)

\* Bug: a sound that is stopped keeps its source.
StopKeeps(src, m) == src

Stopped(src, m) == [src EXCEPT ![m] = "none"]

\* A source that sounds when another is started is no longer anyone's.
Play(src, m, loop) ==
    /\ source' = [src EXCEPT ![m] = "on"]
    /\ sourceLoop' = [sourceLoop EXCEPT ![m] = loop]
    /\ lost' = [lost EXCEPT ![m] = IF src[m] = "on" THEN @ \cup {sourceLoop[m]} ELSE @]

\* A source without loop comes to its end.
Ended(m) ==
    /\ \/ /\ source[m] = "on" /\ ~ sourceLoop[m]
          /\ source' = [source EXCEPT ![m] = "ended"] /\ UNCHANGED lost
       \/ /\ FALSE \in lost[m]
          /\ lost' = [lost EXCEPT ![m] = @ \ {FALSE}] /\ UNCHANGED source
    /\ UNCHANGED <<sourceLoop, volume, manager, fades, crossed>>
-----------------------------------------------------------------------------
(* SoundManager *)

Fade(m, dir) == [music |-> m, dir |-> dir, counter |-> 0, volume |-> musicVolume]

\* What stopMusic makes of the sources, the volumes and the intervals.
AfterStop(fade) == IF currentMusic = None \/ fade THEN source ELSE Stopped(source, currentMusic)
Silent(fade) ==
    IF currentMusic = None \/ ~ fade THEN volume ELSE [volume EXCEPT ![currentMusic] = 0]
Outs(fade) == IF currentMusic = None \/ ~ fade THEN <<>> ELSE <<Fade(currentMusic, "out")>>
Room == Len(fades') <= MaxFades

NoMusic == None

StopMusic(fade) ==
    /\ source' = AfterStop(fade) /\ volume' = Silent(fade)
    /\ fades' = fades \o Outs(fade) /\ Room
    /\ currentMusic' = NoMusic
    /\ Crossing({currentMusic} \ {None})
    /\ UNCHANGED <<sourceLoop, lost, musicVolume, muteFlag>>

PlayMusic(m, fade, loop) ==
    /\ Play(AfterStop(fade), m, loop)
    /\ volume' = [Silent(fade) EXCEPT ![m] = IF fade THEN 0 ELSE musicVolume]
    /\ fades' = fades \o Outs(fade) \o (IF fade THEN <<Fade(m, "in")>> ELSE <<>>)
    /\ Room
    /\ currentMusic' = m
    /\ crossed' = crossed \cup {n \in {m, currentMusic} \ {None} : Fading(n)}
                          \cup (IF fade /\ currentMusic = m THEN {m} ELSE {})
    /\ UNCHANGED <<musicVolume, muteFlag>>

\* A sound without source throws a TypeError.
Connect(to) ==
    /\ currentMusic # None
    /\ source' = [source EXCEPT ![currentMusic] = IF @ \in {"on", "off"} THEN to ELSE @]
    /\ UNCHANGED <<sourceLoop, lost, volume, manager, fades, crossed>>
PauseMusic == Connect("off")
ResumeMusic == Connect("on")

SetCurrentVolume(v) ==
    /\ volume' = IF currentMusic = None THEN volume ELSE [volume EXCEPT ![currentMusic] = v]
    /\ Crossing({currentMusic} \ {None})
    /\ UNCHANGED <<sounds, currentMusic, fades>>

UnmuteVolume == musicVolume

Mute == muteFlag' = TRUE /\ SetCurrentVolume(0) /\ UNCHANGED musicVolume
Unmute == muteFlag' = FALSE /\ SetCurrentVolume(UnmuteVolume) /\ UNCHANGED musicVolume
SetVolumeMusic(v) == musicVolume' = v /\ SetCurrentVolume(v) /\ UNCHANGED muteFlag
-----------------------------------------------------------------------------

Over(f) == f.counter + 1 >= Steps

Without(i) == SubSeq(fades, 1, i - 1) \o SubSeq(fades, i + 1, Len(fades))

\* A tick of the i-th interval.
Tick(i) ==
    LET f == [fades[i] EXCEPT !.counter = IF @ < Steps THEN @ + 1 ELSE @]
        rate == IF f.dir = "in" THEN f.counter ELSE Steps - f.counter
    IN  /\ volume' = [volume EXCEPT ![f.music] = (rate * f.volume) \div Steps]
        /\ fades' = IF Over(fades[i]) THEN Without(i) ELSE [fades EXCEPT ![i] = f]
        /\ source' = IF f.dir = "out" /\ Over(fades[i]) THEN Stopped(source, f.music) ELSE source
        /\ UNCHANGED <<sourceLoop, lost, manager, crossed>>

Init ==
    /\ source = [m \in Music |-> "none"] /\ sourceLoop = [m \in Music |-> FALSE]
    /\ lost = [m \in Music |-> {}] /\ volume = [m \in Music |-> 0]
    /\ musicVolume \in Levels /\ muteFlag = FALSE /\ currentMusic = None
    /\ fades = <<>> /\ crossed = {}

Next ==
    \/ \E m \in Music, fade, loop \in BOOLEAN : PlayMusic(m, fade, loop)
    \/ \E fade \in BOOLEAN : StopMusic(fade)
    \/ PauseMusic \/ ResumeMusic \/ Mute \/ Unmute
    \/ \E v \in Levels : SetVolumeMusic(v)
    \/ \E i \in DOMAIN fades : Tick(i)
    \/ \E m \in Music : Ended(m)

Spec == Init /\ [][Next]_vars

-----------------------------------------------------------------------------
(* Properties *)

TypeOK ==
    /\ source \in [Music -> {"none", "on", "off", "ended"}]
    /\ sourceLoop \in [Music -> BOOLEAN] /\ lost \in [Music -> SUBSET BOOLEAN]
    /\ volume \in [Music -> Nat] /\ currentMusic \in Music \cup {None}
    /\ \A i \in DOMAIN fades : fades[i].counter \in 0 .. Steps - 1

Sounds(m) == source[m] = "on" \/ lost[m] # {}
FadesOut(m) == \E i \in DOMAIN fades : fades[i].music = m /\ fades[i].dir = "out"

\* What sounds is the current music or is being faded out, as long as it was not played
\* again while it was faded (phina.js:4931): nothing loops on with nobody to stop it.
OneMusic == \A m \in Music \ crossed : Sounds(m) => m = currentMusic \/ FadesOut(m)

\* Music that was faded undisturbed has the volume that was set, or is muted, once the
\* fade is over (phina.js:5254).
VolumeSettles ==
    LET m == currentMusic
    IN  m # None /\ m \notin crossed /\ ~ Fading(m) =>
            volume[m] = musicVolume \/ (muteFlag /\ volume[m] = 0)

\* The current music can be paused and resumed, as long as it was not played while it was
\* faded (phina.js:4969).
PauseWorks == currentMusic \in Music \ crossed => source[currentMusic] # "none"

=============================================================================
