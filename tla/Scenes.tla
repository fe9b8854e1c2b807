--------------------------------- MODULE Scenes ---------------------------------
(***************************************************************************)
(* The scenes of a game (phina.app.BaseApp, phina.game.ManagerScene and    *)
(* GameApp): a stack whose top is shown, with the manager at its root,     *)
(* which pushes the next scene when one above it was popped.  Calls nest:  *)
(* a scene's exit pops it, which resumes the manager, which pushes a new   *)
(* scene, whose listener of "enter" may exit at once.  What is left of the *)
(* calls under way is kept in todo.                                        *)
(***************************************************************************)
EXTENDS Integers, Sequences, FiniteSets

CONSTANTS List, StartLabel, None,
          Eager,      \* labels of scenes that exit in their listener of "enter"
          AutoPause,  \* options.autoPause
          Debug,      \* options.debug: the panel that replaces scenes
          MaxDepth    \* bound: scenes at a time

Label == {List[i].label : i \in DOMAIN List}

ScenesAssumption ==
    /\ List \in Seq([label : Label, next : Label \cup {None}]) /\ List # <<>>
    /\ StartLabel \in Label /\ None \notin Label /\ Eager \subseteq Label
    /\ AutoPause \in BOOLEAN /\ Debug \in BOOLEAN
    /\ MaxDepth \in Nat \ {0, 1}  \* the manager and a scene

VARIABLES scene,       \* id -> [kind, label, next]
          app,         \* ids whose app is set
          suspended,   \* history: ids that got "pause" and no "resume" since
          stack,       \* _scenes
          sceneIndex,  \* of the manager
          todo,        \* what is left of the calls under way
          astray       \* history: the panel has replaced another scene than the manager's

vars == <<scene, app, suspended, stack, sceneIndex, todo, astray>>

Id == 1 .. MaxDepth + 1
Blank(kind) == [kind |-> kind, label |-> None, next |-> None]
Depth == Len(stack)
Current == stack[Depth]
Is(i, kind) == scene[i].kind = kind
Fresh == CHOOSE i \in Id : Is(i, "none") /\ \A j \in Id : Is(j, "none") => i <= j
IndexOf(l) == CHOOSE i \in DOMAIN List : List[i].label = l
Content(l) == [kind |-> "content", label |-> l, next |-> List[IndexOf(l)].next]

Call(op, id, index, prev) == [op |-> op, id |-> id, index |-> index, prev |-> prev]
Enter(i) == Call("enter", i, 0, Blank("none"))
SetIndex(n) == Call("index", 0, n, Blank("none"))
-----------------------------------------------------------------------------
(* BaseApp: calls of the application, with the rest to do afterwards *)

PushScene(s, rest) ==
    /\ scene' = [scene EXCEPT ![Fresh] = s] /\ app' = app \cup {Fresh}
    /\ stack' = Append(stack, Fresh)
    /\ suspended' = suspended \cup {Current}
    /\ todo' = <<Enter(Fresh)>> \o rest

TellBelow(below, prev) == <<Call("resume", below, 0, prev)>>

\* The listeners of "exit" run before app is cleared, those of "resume" after.
\* Nothing is below the last one: the call fails.
PopScene(table, rest) ==
    /\ stack' = SubSeq(stack, 1, Depth - 1)
    /\ app' = app \ {Current} /\ scene' = [table EXCEPT ![Current] = Blank("none")]
    /\ todo' = IF Depth = 1 THEN <<>> ELSE TellBelow(stack[Depth - 1], table[Current]) \o rest
    /\ UNCHANGED suspended

LosesApp(i) == app \ {i}
ReplaceScene(s, rest) ==
    /\ scene' = [scene EXCEPT ![Fresh] = s, ![Current] = Blank("none")]
    /\ app' = LosesApp(Current) \cup {Fresh}
    /\ stack' = [stack EXCEPT ![Depth] = Fresh]
    /\ suspended' = suspended
    /\ todo' = <<Enter(Fresh)>> \o rest

\* Scene.exit: pops whatever is on top, if the scene is in the application.
MayExit(i) == i \in app
Exit(i, l, rest) ==
    IF MayExit(i)
    THEN PopScene(IF l = None THEN scene ELSE [scene EXCEPT ![i].next = l], rest)
    ELSE UNCHANGED <<scene, app, suspended, stack>> /\ todo' = rest
-----------------------------------------------------------------------------
(* ManagerScene *)

\* labelToIndex
LabelToIndex(l) == IndexOf(l)

\* The index is set after the scene was pushed, and after all that this led to.
GotoScene(l, rest) == PushScene(Content(l), <<SetIndex(LabelToIndex(l))>> \o rest)

\* Bug: a scene without nextLabel is followed by the one after next.
SkipsOne(n) == n + 2

Following(n) == n + 1

\* onnext and gotoNext
OnNext(prev, rest) ==
    LET given == List[sceneIndex].next
        n == Following(sceneIndex)
    IN  CASE prev.next # None -> GotoScene(prev.next, rest)
          [] prev.next = None /\ given # None -> GotoScene(given, rest)
          [] prev.next = None /\ given = None /\ n <= Len(List) -> GotoScene(List[n].label, rest)
          [] OTHER -> UNCHANGED <<scene, app, suspended, stack>> /\ todo' = rest  \* finish
-----------------------------------------------------------------------------
(* The calls under way *)

Step(op, kind) == todo # <<>> /\ Head(todo).op = op /\ Is(Head(todo).id, kind)

EnterManager ==
    /\ Step("enter", "manager")
    /\ GotoScene(StartLabel, Tail(todo))
    /\ UNCHANGED <<sceneIndex, astray>>

EnterScene ==
    /\ Step("enter", "content") \/ Step("enter", "pause")
    /\ LET i == Head(todo).id
       IN  IF scene[i].label \in Eager THEN Exit(i, None, Tail(todo))
           ELSE UNCHANGED <<scene, app, suspended, stack>> /\ todo' = Tail(todo)
    /\ UNCHANGED <<sceneIndex, astray>>

SetsIndex ==
    /\ todo # <<>> /\ Head(todo).op = "index"
    /\ sceneIndex' = Head(todo).index /\ todo' = Tail(todo)
    /\ UNCHANGED <<scene, app, suspended, stack, astray>>

\* "resume"
ResumeManager ==
    /\ Step("resume", "manager") /\ Head(todo).id \in suspended
    /\ suspended' = suspended \ {Head(todo).id}
    /\ todo' = <<Call("next", Head(todo).id, 0, Head(todo).prev)>> \o Tail(todo)
    /\ UNCHANGED <<scene, app, stack, sceneIndex, astray>>

NextScene ==
    /\ Step("next", "manager")
    /\ OnNext(Head(todo).prev, Tail(todo))
    /\ UNCHANGED <<sceneIndex, astray>>

ResumeScene ==
    /\ \E kind \in {"content", "pause", "loading"} : Step("resume", kind)
    /\ suspended' = suspended \ {Head(todo).id} /\ todo' = Tail(todo)
    /\ UNCHANGED <<scene, app, stack, sceneIndex, astray>>
-----------------------------------------------------------------------------
(* Events *)

Idle == todo = <<>> /\ stack # <<>>

\* GameApp: the loading scene is updated, and so loaded, only while it is the current one.
Loaded ==
    /\ Idle /\ Is(Current, "loading")
    /\ ReplaceScene(Blank("manager"), <<>>)
    /\ UNCHANGED <<sceneIndex, astray>>

\* A touch, a tween or an answer of the network: a scene calls exit, perhaps of a scene
\* that has left already, or that is suspended.
SceneExits(i, l) ==
    /\ Idle /\ (l # None => Is(i, "content")) /\ (Is(i, "content") \/ Is(i, "none"))
    /\ Exit(i, l, <<>>)
    /\ UNCHANGED <<sceneIndex, astray>>

TouchPause ==
    /\ Idle /\ Is(Current, "pause")
    /\ Exit(Current, None, <<>>)
    /\ UNCHANGED <<sceneIndex, astray>>

\* autoPause
Blur ==
    /\ AutoPause /\ Idle /\ Depth < MaxDepth
    /\ PushScene(Blank("pause"), <<>>)
    /\ UNCHANGED <<sceneIndex, astray>>

\* _enableDebugger: the root's replaceScene, which replaces the application's current one.
PanelReplaces(l) ==
    /\ Debug /\ Idle /\ Is(stack[1], "manager")
    /\ ReplaceScene(Content(l), <<SetIndex(LabelToIndex(l))>>)
    /\ astray' = (astray \/ ~ (Depth = 2 /\ Is(Current, "content")))
    /\ UNCHANGED sceneIndex
-----------------------------------------------------------------------------
Init ==
    /\ scene = [i \in Id |-> IF i = 1 THEN Blank("loading") ELSE Blank("none")]
    /\ app = {1} /\ suspended = {} /\ stack = <<1>>
    /\ sceneIndex = 1 /\ todo = <<>> /\ astray = FALSE

Next == \/ EnterManager \/ EnterScene \/ SetsIndex \/ ResumeManager \/ NextScene \/ ResumeScene
        \/ Loaded \/ TouchPause \/ Blur
        \/ \E i \in Id, l \in Label \cup {None} : SceneExits(i, l)
        \/ \E l \in Label : PanelReplaces(l)

Spec == Init /\ [][Next]_vars
-----------------------------------------------------------------------------
(* Properties *)

Kinds == {"none", "loading", "manager", "content", "pause"}

\* The application is never without a scene, so that its next frame has one to update,
\* unless the panel has replaced the manager itself.
TypeOK ==
    /\ scene \in [Id -> [kind : Kinds, label : Label \cup {None}, next : Label \cup {None}]]
    /\ app \subseteq Id /\ suspended \subseteq Id /\ sceneIndex \in DOMAIN List
    /\ \A k \in DOMAIN stack : stack[k] \in Id
    /\ stack = <<>> => astray

OnStack == {stack[k] : k \in DOMAIN stack}

\* Scenes of the stack have their app and no other has: the first can exit, and a scene
\* that exits twice, or after it was replaced, takes no other from the player
\* (phina.js:8148).
AppBound ==
    /\ app = OnStack /\ Cardinality(OnStack) = Depth
    /\ \A i \in Id : Is(i, "none") <=> i \notin OnStack

\* Between two events a scene has got "pause" and not yet "resume" exactly while another
\* is on top of it, whichever scene took whose place (phina.js:7343).
SuspendedIsCovered == Idle => suspended = OnStack \ {Current}

\* The manager's index is that of the scene above it (phina.js:12068, "getCurrentIndex").
IndexIsShown ==
    Idle /\ ~ astray => \A k \in DOMAIN stack :
        k > 1 /\ Is(stack[k], "content") => List[sceneIndex].label = scene[stack[k]].label

\* A scene that is about to be followed is still the current one.
Left == {f \in {todo[k] : k \in DOMAIN todo} :
            f.op \in {"resume", "next"} /\ Is(f.id, "manager") /\ f.prev.kind = "content"}
Screen(name) == [Blank("none") EXCEPT !.label = name]
Shown ==
    IF \E i \in OnStack : Is(i, "content") THEN scene[CHOOSE i \in OnStack : Is(i, "content")]
    ELSE IF Left # {} THEN (CHOOSE f \in Left : TRUE).prev
    ELSE IF Is(stack[1], "loading") \/ \E k \in DOMAIN todo : todo[k] = Enter(stack[1])
         THEN Screen("loading") ELSE Screen("finished")
Flow == INSTANCE SceneFlow WITH current <- Shown.label, wish <- Shown.next

\* The player sees one scene after the other, in the order of the list or as they ask,
\* however often scenes exit and pauses come between (phina.js:12097).
ImplementsFlow == Flow!Spec
=============================================================================
