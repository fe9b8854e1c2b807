-------------------------------- MODULE Elements --------------------------------
(***************************************************************************)
(* The tree of elements of the game library (phina.app.Element) and the    *)
(* Updater that walks it each frame.  Every handler may change the tree it *)
(* is being walked in: an update may add, move and remove elements, and so *)
(* may a listener of "removed", which runs in the middle of remove().      *)
(***************************************************************************)
EXTENDS Integers, Sequences, FiniteSets

CONSTANTS Node, Root, None,
          Listening,  \* elements with a listener of "removed"
          MaxCalls,   \* bound: calls that change the tree, in one frame
          MaxLinks    \* bound: entries in all lists of children

ElementsAssumption == Root \in Node /\ None \notin Node /\ Listening \subseteq Node \ {Root}
                             /\ MaxCalls \in Nat /\ MaxLinks \in Nat

VARIABLES parent, children,
          awake,
          pending,  \* what is left of the calls under way: a stack
          walk,     \* the loops of _updateElement: a stack of [list, i]
          running,  \* the element whose update runs, or None
          calls,
          updated,  \* history: how often each was updated in this frame
          moved,    \* history: what was added, removed, woken or put to sleep in this frame
          torn      \* history: touched by the listener of their own removal

tree == <<parent, children, awake>>
history == <<updated, moved, torn>>
vars == <<tree, pending, walk, running, calls, history>>

Members(list) == {list[k] : k \in DOMAIN list}

\* Including what is about to be attached; what is under an element is in every set that
\* has it and what is below its own.
Below(n) == Members(children[n]) \cup {f.child : f \in {g \in Members(pending) : g.to = n}}
Under(c) == {n \in Node : \A S \in SUBSET Node : c \in S /\ (\A m \in S : Below(m) \subseteq S) => n \in S}
-----------------------------------------------------------------------------
(* Calls *)

\* Application code runs: in an update, between frames, or in a listener of "removed",
\* which remove() calls between the splice and parent = null.
Listener == Head(pending).op = "clear" /\ Head(pending).heard
CanCall == calls < MaxCalls /\ (pending # <<>> => Listener) /\ (running = None => walk = <<>>)

Touch(c) ==
    /\ calls' = calls + 1
    /\ moved' = IF walk = <<>> THEN moved ELSE moved \cup {c}
    /\ torn' = IF \E k \in DOMAIN pending : pending[k].child = c THEN torn \cup {c} ELSE torn
    /\ UNCHANGED <<walk, running, updated>>

\* erase takes out the first that is equal; splice puts one in, at the end if that is before.
First(list, c) == CHOOSE k \in DOMAIN list : list[k] = c /\ \A l \in 1 .. k - 1 : list[l] # c
Erased(list, c) ==
    IF c \notin Members(list) THEN list
    ELSE [k \in 1 .. Len(list) - 1 |-> IF k < First(list, c) THEN list[k] ELSE list[k + 1]]
Inserted(list, i, c) ==
    LET at == IF i > Len(list) + 1 THEN Len(list) + 1 ELSE i
    IN  [k \in 1 .. Len(list) + 1 |-> IF k < at THEN list[k] ELSE IF k = at THEN c ELSE list[k - 1]]

Splice(p, c) == children' = [children EXCEPT ![p] = Erased(@, c)]
Has(p, c) == c \in Members(children[p])
Clear(c) == [op |-> "clear", child |-> c, to |-> None, at |-> 0,
             heard |-> Has(parent[c], c) /\ c \in Listening]
Attach(c, p, i) == [op |-> "attach", child |-> c, to |-> p, at |-> i, heard |-> FALSE]

RemoveElement(c) ==
    /\ CanCall /\ parent[c] # None
    /\ Splice(parent[c], c)
    /\ pending' = <<Clear(c)>> \o pending
    /\ Touch(c)
    /\ UNCHANGED <<parent, awake>>

\* Leaves child.parent as it is.
RemoveChild(p, c) ==
    /\ CanCall /\ Has(p, c)
    /\ Splice(p, c)
    /\ Touch(c)
    /\ UNCHANGED <<parent, awake, pending>>

\* addChild, addChildTo and addChildAt; that p is not below c is left to the caller.
RemovesFirst(c) == parent[c] # None
Links == UNION {{n} \X DOMAIN children[n] : n \in Node}
AddChild(c, p, i) ==
    /\ CanCall /\ c # Root /\ i \in {1, Len(children[p]) + 1}
    /\ Cardinality(Links) < MaxLinks /\ p \notin Under(c)
    /\ IF RemovesFirst(c)
       THEN Splice(parent[c], c) /\ pending' = <<Clear(c), Attach(c, p, i)>> \o pending
       ELSE UNCHANGED children /\ pending' = <<Attach(c, p, i)>> \o pending
    /\ Touch(c)
    /\ UNCHANGED <<parent, awake>>

\* sleep and wakeUp
SetAwake(c, b) ==
    /\ CanCall /\ awake[c] # b
    /\ awake' = [awake EXCEPT ![c] = b]
    /\ Touch(c)
    /\ UNCHANGED <<parent, children, pending>>

\* The rest of remove() and of addChild(): listeners of "added" run last, as any code.
Finish ==
    /\ pending # <<>>
    /\ LET f == Head(pending)
       IN  /\ parent' = [parent EXCEPT ![f.child] = f.to]
           /\ children' = IF f.op = "clear" THEN children
                          ELSE [children EXCEPT ![f.to] = Inserted(@, f.at, f.child)]
    /\ pending' = Tail(pending)
    /\ UNCHANGED <<awake, walk, running, calls, history>>
-----------------------------------------------------------------------------
(* Updater *)

Idle == pending = <<>> /\ running = None

StartFrame ==
    /\ Idle /\ walk = <<>>
    /\ walk' = <<[of |-> None, list |-> <<Root>>, i |-> 1]>>
    /\ calls' = 0
    /\ UNCHANGED <<tree, pending, running, history>>

\* Bug: the loop runs over the children as they are now.
LiveList(f) == IF f.of = None THEN f.list ELSE children[f.of]

\* The loop runs over a copy of the children.
ListOf(f) == f.list

\* enterframe and update of the next element; an element asleep is passed over.
UpdateElement ==
    /\ Idle /\ walk # <<>> /\ Head(walk).i <= Len(ListOf(Head(walk)))
    /\ LET n == ListOf(Head(walk))[Head(walk).i]
       IN  IF awake[n] THEN running' = n /\ updated' = [updated EXCEPT ![n] = @ + 1]
                       ELSE UNCHANGED <<running, updated>>
    /\ walk' = [walk EXCEPT ![1].i = @ + 1]
    /\ UNCHANGED <<tree, pending, calls, moved, torn>>

UpdateChildren ==
    /\ running # None /\ pending = <<>>
    /\ walk' = <<[of |-> running, list |-> children[running], i |-> 1]>> \o walk
    /\ running' = None
    /\ UNCHANGED <<tree, pending, calls, history>>

Return ==
    /\ Idle /\ walk # <<>> /\ Head(walk).i > Len(ListOf(Head(walk)))
    /\ walk' = Tail(walk)
    /\ IF walk' = <<>> THEN calls' = 0 /\ updated' = [n \in Node |-> 0] /\ moved' = {}
                       ELSE UNCHANGED <<calls, updated, moved>>
    /\ UNCHANGED <<tree, pending, running, torn>>
-----------------------------------------------------------------------------
Init ==
    /\ parent = [n \in Node |-> None] /\ children = [n \in Node |-> <<>>]
    /\ awake = [n \in Node |-> TRUE]
    /\ pending = <<>> /\ walk = <<>> /\ running = None /\ calls = 0
    /\ updated = [n \in Node |-> 0] /\ moved = {} /\ torn = {}

Call(c) == \/ RemoveElement(c) \/ \E b \in BOOLEAN : SetAwake(c, b)
           \/ \E p \in Node : RemoveChild(p, c) \/ \E i \in 1 .. Cardinality(Node) : AddChild(c, p, i)

Next == \/ \E c \in Node : Call(c)
        \/ Finish \/ StartFrame \/ UpdateElement \/ UpdateChildren \/ Return

Spec == Init /\ [][Next]_vars
-----------------------------------------------------------------------------
(* Properties *)

\* The walk's loops stay within the lists they run over, whatever handlers do to the
\* children (phina.js:7091).
TypeOK ==
    /\ parent \in [Node -> Node \cup {None}] /\ awake \in [Node -> BOOLEAN]
    /\ \A n \in Node : Members(children[n]) \subseteq Node \ {Root}
    /\ running \in Node \cup {None} /\ calls \in 0 .. MaxCalls
    /\ \A k \in DOMAIN walk : walk[k].i \in 1 .. Len(ListOf(walk[k])) + 1

\* An element is drawn and hit in one place: it is one child of one element, the one it
\* has as its parent, unless a listener of its own removal has touched it: remove() then
\* takes the new parent away (phina.js:7608) and nothing finds it any more.
InOnePlace ==
    \A p \in Node : \A k \in DOMAIN children[p] :
        LET c == children[p][k]
        IN  c \notin torn => /\ parent[c] = p \/ \E f \in Members(pending) : f.child = c
                             /\ \A q \in Node : \A m \in DOMAIN children[q] :
                                    children[q][m] = c => q = p /\ m = k

\* What is under the root without an element asleep above it.
Reached ==
    {n \in Node : awake[n] /\ \A S \in SUBSET Node :
        Root \in S /\ (\A m \in S : awake[m] => Members(children[m]) \subseteq S) => n \in S}

\* A frame updates every element in the tree once, and nothing else, whatever else is
\* added, moved or removed while it runs; what is itself moved may be updated never or
\* twice (phina.js:7090).
UpdatedOnce ==
    Return /\ walk' = <<>> =>
        \A n \in Node \ UNION {Under(m) : m \in moved \cup torn} :
            updated[n] = IF n \in Reached THEN 1 ELSE 0
=============================================================================
