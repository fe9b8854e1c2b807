------------------------------- MODULE MCStage --------------------------------
(***************************************************************************)
(* What phina.js runs for the game once a frame, and what that rests on:   *)
(* the tree of elements, the stack of scenes, the loading of assets,       *)
(* sounds, events, ticker, animations, tweens and text.  The parts share   *)
(* no state; a behaviour is about one of them.                             *)
(***************************************************************************)
EXTENDS Integers, Sequences, TLC

\* Of the parts, in their order; what they mean is said there.
CONSTANTS
    None,
    Node, Two, Root, Listening, TreeCalls, PairCalls, MaxLinks,
    SceneList, StartLabel, AutoPause, SceneDepth, PanelDepth,
    MaxAssets,
    Music, Solo, Steps, OneLevel, Levels, MaxFades,
    Plain, Once, MaxList, FireDepth, MaxFires,
    FrameTimes, MaxTime, MaxSkew,
    Cols, Rows, Specs, MaxTicks,
    Task, Unit, DefaultDuration, StackDepth, MaxValue, MaxTasks, MaxControls,
    BoxWidths, Radii, MaxLines, TextSize, Padding,
    CharWidths, AreaWidths, Wide, MaxChars, MaxParagraphs, Offsets, Halves, LineSize

VARIABLE part  \* the part a behaviour is about

\* A root and elements of which some listen to their removal, or fewer and more calls in a frame.
VARIABLES
    parent, children, awake, pending, walk, running, elementsCalls, updated, moved, torn
elementsVars ==
    <<parent, children, awake, pending, walk, running, elementsCalls, updated, moved, torn>>
Tree(nodes, most) == INSTANCE Elements WITH
    Node <- nodes, MaxCalls <- most, calls <- elementsCalls
ASSUME TreeAssumption == Tree(Node, TreeCalls)!ElementsAssumption /\ Tree(Two, PairCalls)!ElementsAssumption

\* Scenes, some with a nextLabel.
VARIABLES
    scenesScene, scenesApp, scenesSuspended, scenesStack, scenesSceneIndex, scenesTodo,
    scenesAstray
scenesVars ==
    <<scenesScene, scenesApp, scenesSuspended, scenesStack, scenesSceneIndex,
      scenesTodo, scenesAstray>>
Stack == INSTANCE Scenes WITH
    List <- SceneList, Eager <- {}, Debug <- FALSE, MaxDepth <- SceneDepth,
    scene <- scenesScene, app <- scenesApp,
    suspended <- scenesSuspended, stack <- scenesStack, sceneIndex <- scenesSceneIndex,
    todo <- scenesTodo, astray <- scenesAstray
ASSUME StackAssumption == Stack!ScenesAssumption

\* The same with the debug panel, which may replace any scene.
VARIABLES
    panelScene, panelApp, panelSuspended, panelStack, panelSceneIndex, panelTodo,
    panelAstray
panelVars ==
    <<panelScene, panelApp, panelSuspended, panelStack, panelSceneIndex, panelTodo,
      panelAstray>>
Panel == INSTANCE Scenes WITH
    List <- SceneList, Eager <- {}, Debug <- TRUE, MaxDepth <- PanelDepth,
    scene <- panelScene, app <- panelApp,
    suspended <- panelSuspended, stack <- panelStack, sceneIndex <- panelSceneIndex,
    todo <- panelTodo, astray <- panelAstray
ASSUME PanelAssumption == Panel!ScenesAssumption

\* Assets of every kind, the gauge of both sorts.
VARIABLES
    kind, lie, next, flow, failed, usable, counter, flows, listens, loadingValue, tween,
    load, started
loadingVars ==
    <<kind, lie, next, flow, failed, usable, counter, flows, listens, loadingValue,
      tween, load, started>>
Load == INSTANCE Loading WITH
    value <- loadingValue
ASSUME LoadAssumption == Load!LoadingAssumption

\* Some musics at one volume, or one at several.
VARIABLES
    source, sourceLoop, lost, volume, musicVolume, muteFlag, currentMusic, fades,
    crossed
soundsVars ==
    <<source, sourceLoop, lost, volume, musicVolume, muteFlag, currentMusic, fades,
      crossed>>
Sound(music, levels) == INSTANCE Sounds WITH
    Music <- music, Levels <- levels
ASSUME SoundAssumption ==
    Sound(Music, OneLevel)!SoundsAssumption /\ Sound(Solo, Levels)!SoundsAssumption

\* Functions and wrappers in a list, fires within fires.
VARIABLES
    listeners, known, handler, eventsStack, fires, deepest, thrown, eventsCalls
eventsVars ==
    <<listeners, known, handler, eventsStack, fires, deepest, thrown, eventsCalls>>
Fires == INSTANCE Events WITH
    MaxDepth <- FireDepth, stack <- eventsStack, calls <- eventsCalls
ASSUME FiresAssumption == Fires!EventsAssumption

\* Frames of several lengths, work of any length, and a date that is set forward and back.
VARIABLES
    time, skew, tickerState, due, frameTime, startTime, currentTime, deltaTime,
    elapsedTime, began, ended, skewed, waited, sum
tickerVars ==
    <<time, skew, tickerState, due, frameTime, startTime, currentTime, deltaTime,
      elapsedTime, began, ended, skewed, waited, sum>>
Clock == INSTANCE Ticker WITH
    state <- tickerState
ASSUME ClockAssumption == Clock!TickerAssumption

\* A sheet with animations that end, or lead into others, and the default one.
VARIABLES
    current, frame, index, paused, finished, shown, called, ticks, owed
animationVars ==
    <<current, frame, index, paused, finished, shown, called, ticks, owed>>
Sheet == INSTANCE Animation
ASSUME SheetAssumption == Sheet!AnimationAssumption

\* One property, a queue of every kind of task.
VARIABLES
    tweener, tweenerValue, crashed, controls
tweenerVars ==
    <<tweener, tweenerValue, crashed, controls>>
Tween == INSTANCE Tweener WITH
    value <- tweenerValue
ASSUME TweenAssumption == Tween!TweenerAssumption

\* Several widths, and texts of several lines.
VARIABLES
    prop, boundingType, dirty, watchDraw, picture, seen, retyped, touched
labelsVars ==
    <<prop, boundingType, dirty, watchDraw, picture, seen, retyped, touched>>
Text == INSTANCE Labels WITH
    Widths <- BoxWidths, LineSize <- TextSize
ASSUME TextAssumption == Text!LabelsAssumption

\* Paragraphs of characters of several widths, in narrow and wide areas.
VARIABLES
    row, given, lines, breaksI, breaksJ, pos, breaksState
breaksVars ==
    <<row, given, lines, breaksI, breaksJ, pos, breaksState>>
Area == INSTANCE LineBreaks WITH
    Widths <- CharWidths, Rows <- AreaWidths, i <- breaksI, j <- breaksJ,
    state <- breaksState
ASSUME AreaAssumption == Area!LineBreaksAssumption

-----------------------------------------------------------------------------
vars == <<part, elementsVars, scenesVars, panelVars, loadingVars, soundsVars,
        eventsVars, tickerVars, animationVars, tweenerVars, labelsVars, breaksVars>>

Init ==
    /\ part \in {"elements", "pair", "scenes", "panel", "loading", "sounds", "levels", "events",
               "ticker", "animation", "tweener", "labels", "breaks"}
    /\ IF part = "pair" THEN Tree(Two, PairCalls)!Init ELSE Tree(Node, TreeCalls)!Init
    /\ Stack!Init
    /\ Panel!Init
    /\ IF part = "loading" THEN Load!Init
       ELSE kind = 0 /\ lie = 0 /\ next = 0 /\ flow = 0 /\ failed = 0 /\ usable = 0 /\
            counter = 0 /\ flows = 0 /\ listens = 0 /\ loadingValue = 0 /\
            tween = 0 /\ load = 0 /\ started = 0
    /\ IF part = "sounds" THEN Sound(Music, OneLevel)!Init
       ELSE IF part = "levels" THEN Sound(Solo, Levels)!Init
       ELSE source = 0 /\ sourceLoop = 0 /\ lost = 0 /\ volume = 0 /\ musicVolume = 0 /\
            muteFlag = 0 /\ currentMusic = 0 /\ fades = 0 /\ crossed = 0
    /\ Fires!Init
    /\ IF part = "ticker" THEN Clock!Init
       ELSE time = 0 /\ skew = 0 /\ tickerState = 0 /\ due = 0 /\ frameTime = 0 /\
            startTime = 0 /\ currentTime = 0 /\ deltaTime = 0 /\ elapsedTime = 0
            /\ began = 0 /\ ended = 0 /\ skewed = 0 /\ waited = 0 /\ sum = 0
    /\ Sheet!Init
    /\ Tween!Init
    /\ Text!Init
    /\ IF part = "breaks" THEN Area!Init
       ELSE row = 0 /\ given = 0 /\ lines = 0 /\ breaksI = 0 /\ breaksJ = 0 /\ pos = 0 /\
            breaksState = 0

\* One part moves, the others stand still.
Next ==
    /\ UNCHANGED part
    /\ IF part = "elements" THEN Tree(Node, TreeCalls)!Next
       ELSE IF part = "pair" THEN Tree(Two, PairCalls)!Next ELSE UNCHANGED elementsVars
    /\ IF part = "scenes" THEN Stack!Next ELSE UNCHANGED scenesVars
    /\ IF part = "panel" THEN Panel!Next ELSE UNCHANGED panelVars
    /\ IF part = "loading" THEN Load!Next ELSE UNCHANGED loadingVars
    /\ IF part = "sounds" THEN Sound(Music, OneLevel)!Next
       ELSE IF part = "levels" THEN Sound(Solo, Levels)!Next ELSE UNCHANGED soundsVars
    /\ IF part = "events" THEN Fires!Next ELSE UNCHANGED eventsVars
    /\ IF part = "ticker" THEN Clock!Next ELSE UNCHANGED tickerVars
    /\ IF part = "animation" THEN Sheet!Next ELSE UNCHANGED animationVars
    /\ IF part = "tweener" THEN Tween!Next ELSE UNCHANGED tweenerVars
    /\ IF part = "labels" THEN Text!Next ELSE UNCHANGED labelsVars
    /\ IF part = "breaks" THEN Area!Next ELSE UNCHANGED breaksVars

Spec == Init /\ [][Next]_vars

\* Elements that listen to nothing are alike, and so is music.
Symmetry == Permutations(Node \ ({Root} \cup Listening)) \cup Permutations(Music)
-----------------------------------------------------------------------------
(* Properties *)

\* Every element is in one place of the tree, and a frame updates what stays in it once,
\* whatever handlers add, move and remove while the tree is walked (phina.js:7090, 7608).
TreeIsWalkedOnce ==
    /\ [](/\ part = "elements" => Tree(Node, TreeCalls)!TypeOK /\ Tree(Node, TreeCalls)!InOnePlace
          /\ part = "pair" => Tree(Two, PairCalls)!TypeOK /\ Tree(Two, PairCalls)!InOnePlace)
    /\ [][/\ part = "elements" => Tree(Node, TreeCalls)!UpdatedOnce
          /\ part = "pair" => Tree(Two, PairCalls)!UpdatedOnce]_elementsVars

\* The player sees one scene after the other as the list or the scenes ask, and a scene is
\* paused exactly while another covers it, however scenes exit, pause and are replaced
\* (phina.js:12097, 7343, 8148).
ScenesFollow ==
    /\ [](Stack!TypeOK /\ Stack!AppBound /\ Stack!SuspendedIsCovered /\ Stack!IndexIsShown)
    /\ [](Panel!TypeOK /\ Panel!AppBound /\ Panel!SuspendedIsCovered)
    /\ Stack!ImplementsFlow

\* 'load' means everything, and a game starts with what it needs, in whatever order answers
\* and failures come (phina.js:4598, 4604, 11500).
GameStartsLoaded ==
    part = "loading" =>
        Load!TypeOK /\ Load!LoadMeansAll /\ Load!StartsLoaded /\ Load!UsableOnStart

\* One music sounds or is being faded out, at the volume that was set once its fade is
\* over, and it can be paused, whatever was played, faded, muted and stopped before
\* (phina.js:4931, 5254, 4969).
MusicIsManaged ==
    /\ part = "sounds" =>
        /\ Sound(Music, OneLevel)!TypeOK /\ Sound(Music, OneLevel)!OneMusic
        /\ Sound(Music, OneLevel)!VolumeSettles /\ Sound(Music, OneLevel)!PauseWorks
    /\ part = "levels" =>
        /\ Sound(Solo, Levels)!TypeOK /\ Sound(Solo, Levels)!OneMusic
        /\ Sound(Solo, Levels)!VolumeSettles /\ Sound(Solo, Levels)!PauseWorks

\* A fire calls who listened when it began, each once, though listeners add, remove and
\* fire while they are called; what was to be called once is (phina.js:3178, 3203).
FiresReachListeners ==
    part = "events" => Fires!CallsThoseOfItsStart /\ Fires!OneIsOnce

\* Time is neither lost nor counted twice: frames add up to what all took, however the date
\* is set, and an animation shows each cell for as long as it says (phina.js:3628, 3643,
\* 8852).
TimeAddsUp ==
    /\ part = "ticker" => Clock!DeltasAddUp /\ Clock!PutOffBySkew
    /\ part = "animation" => Sheet!ShownOnTime /\ Sheet!OneCellEach

\* A tween ends exactly where it should, tasks follow each other without one skipped or
\* started twice, and a frame ends unless the queue goes round in tasks that take no time
\* (phina.js:3343, 8487, 8479).
TweensRunInOrder == []Tween!TypeOK /\ Tween!EndsExact /\ Tween!InOrder /\ Tween!FrameEnds

\* The picture of a label is that of its properties at the last frame that could draw, and
\* a text broken into lines loses nothing and fits (phina.js:10298, 11754, 11736).
TextIsShown ==
    /\ part = "labels" => Text!PictureFollows /\ Text!LinesCentred /\ Text!CleanIfDrawn
    /\ part = "breaks" =>
        Area!NothingLost /\ Area!LinesFit /\ Area!LinesFull /\ Area!NoneMissing
-----------------------------------------------------------------------------
(* Values for TLC *)

Scene(label, follows) == [label |-> label, next |-> follows]
FourScenes ==
    <<Scene("title", None), Scene("main", None), Scene("result", "title"), Scene("end", None)>>

SheetSpecs ==
    [die |-> <<4, 6, None, 2>>, walk |-> <<0, 3, "run", 0>>, run |-> <<2, 4, "die", 3>>]

Timed(mode, to, duration) ==
    [type |-> "tween", mode |-> mode, to |-> to, duration |-> duration]
Tasks == {Timed("to", 6, 5), Timed("by", -3, 0), Timed("from", 9, 4),
          [type |-> "wait", duration |-> 3], [type |-> "set", to |-> 1]}
            \cup [type : {"call"}, do : {"play", "pause", "rewind", "stop", "clear"}]

FarAndNear == -9 .. 9
=============================================================================
