--------------------------------- MODULE Events ---------------------------------
(***************************************************************************)
(* phina.util.EventDispatcher: the listeners of one type of event of one   *)
(* object.  A listener runs while others wait to be called, and may itself *)
(* add and remove listeners, fire the event again, or throw.               *)
(***************************************************************************)
EXTENDS Integers, Sequences, FiniteSets, SequencesExt

CONSTANTS Plain,    \* functions given to on and off
          Once,     \* the wrappers one makes, each for one call of it
          MaxList, MaxDepth, MaxFires  \* bounds: of the list, of fires within fires, of fires

Handler == "handler"  \* the method 'on' + type

EventsAssumption ==
    /\ MaxList \in Nat /\ MaxDepth \in Nat /\ MaxFires \in Nat
    /\ Plain \cap Once = {} /\ {Handler, "nothing"} \cap (Plain \cup Once) = {}

VARIABLES
    listeners, known,  \* _listeners[type], and whether it is defined
    handler,           \* the object has the method
    stack,             \* the fires under way, the innermost last: what they call, and where they are
    \* history
    fires, deepest,    \* how often was fired; the most fires at once
    thrown,            \* how often what was called has thrown
    calls              \* wrapper -> how often it was called

vars == <<listeners, known, handler, stack, fires, deepest, thrown, calls>>

Top == Last(stack)
Running == IF stack = <<>> THEN {} ELSE {Top.calling}
-----------------------------------------------------------------------------
\* Bug: the live list is gone through.
FromLive(f) == IF f.i <= Len(listeners) THEN listeners[f.i] ELSE "nothing"

Callee(f) == f.temp[f.i]

\* What a fire calls next: nothing when it has come to the end.
Enter(f, list) ==
    LET g == [f EXCEPT !.temp = list, !.i = @ + 1]
    IN  IF g.i > Len(g.temp) THEN [g EXCEPT !.calling = "nothing"]
        ELSE [g EXCEPT !.calling = Callee(g), !.called = Append(@, Callee(g))]

Counted(f) == calls' = IF f.calling \in Once THEN [calls EXCEPT ![f.calling] = @ + 1] ELSE calls

\* fire begins: the handler first, and the list is taken after it.
Fire ==
    /\ Len(stack) < MaxDepth /\ fires < MaxFires /\ Running # {"nothing"}
    /\ LET f == [calling |-> Handler, i |-> 0, temp |-> <<>>, called |-> <<>>, took |-> <<>>]
           g == IF handler THEN f ELSE [Enter(f, listeners) EXCEPT !.took = listeners]
       IN  stack' = Append(stack, g) /\ Counted(g)
    /\ fires' = fires + 1 /\ deepest' = IF deepest > Len(stack) THEN deepest ELSE Len(stack) + 1
    /\ UNCHANGED <<listeners, known, handler, thrown>>

AfterCall(f) == IF f \in Once THEN RemoveFirst(listeners, f) ELSE listeners

\* What was called returns, and the next is called.
CallReturns ==
    /\ stack # <<>> /\ Top.calling # "nothing"
    /\ listeners' = AfterCall(Top.calling)
    /\ LET g == IF Top.calling = Handler THEN [Enter(Top, listeners) EXCEPT !.took = listeners]
                ELSE Enter(Top, Top.temp)
       IN  stack' = Append(Front(stack), g) /\ Counted(g)
    /\ UNCHANGED <<known, handler, fires, deepest, thrown>>

FireReturns ==
    /\ stack # <<>> /\ Top.calling = "nothing"
    /\ stack' = Front(stack)
    /\ UNCHANGED <<listeners, known, handler, fires, deepest, thrown, calls>>

\* What was called throws: all the fires under way end, and a wrapper that was
\* running stays in the list.
Unwind == stack' = <<>> /\ thrown' = thrown + 1 /\ UNCHANGED <<listeners, known, handler, fires, deepest, calls>>
Throw == stack # <<>> /\ Top.calling # "nothing" /\ Unwind
-----------------------------------------------------------------------------
(* Between fires, or by what is called *)

Program == Running # {"nothing"} /\ UNCHANGED <<stack, fires, deepest, thrown, calls>>

Add(f) == /\ Len(listeners) < MaxList
          /\ listeners' = Append(listeners, f) /\ known' = TRUE /\ UNCHANGED handler

On(f) == Program /\ Add(f)

\* A new wrapper: one that was never in a list.
One(w) == Program /\ calls[w] = 0 /\ Add(w)
          /\ w \notin UNION ({Range(listeners)} \cup {Range(stack[k].temp) : k \in DOMAIN stack})

Off(f) == /\ Program /\ known /\ listeners' = RemoveFirst(listeners, f) /\ UNCHANGED <<known, handler>>

\* off of a type that nothing was ever added to throws.
OffUnknown == stack # <<>> /\ Top.calling # "nothing" /\ ~known /\ Unwind

Clear == Program /\ listeners' = <<>> /\ known' = TRUE /\ handler' = FALSE

SetHandler == Program /\ ~handler /\ handler' = TRUE /\ UNCHANGED <<listeners, known>>
-----------------------------------------------------------------------------
Init ==
    /\ listeners = <<>> /\ known = FALSE /\ handler = FALSE /\ stack = <<>>
    /\ fires = 0 /\ deepest = 0 /\ thrown = 0 /\ calls = [w \in Once |-> 0]

Next ==
    \/ Fire \/ CallReturns \/ FireReturns \/ Throw \/ OffUnknown \/ Clear \/ SetHandler
    \/ \E f \in Plain : On(f) \/ Off(f)
    \/ \E w \in Once : One(w)

Spec == Init /\ [][Next]_vars

-----------------------------------------------------------------------------
(* Properties *)

\* A fire calls those that were listeners when its handler had returned, in their order,
\* each of them, whatever it and the fires within it add and remove (phina.js:3178).
CallsThoseOfItsStart ==
    \A k \in DOMAIN stack :
        LET f == stack[k]
        IN  IF f.calling = "nothing" THEN f.called = f.took
            ELSE IsPrefix(f.called, f.took)

\* What one adds is called once, and once more for a fire within the fire, as it is taken
\* out only after it was called; what throws is not taken out (phina.js:3203).
OneIsOnce == \A w \in Once : calls[w] <= deepest * (thrown + 1)

=============================================================================
