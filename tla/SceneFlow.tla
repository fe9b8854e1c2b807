------------------------------- MODULE SceneFlow -------------------------------
(***************************************************************************)
(* What a game made of scenes shows its player, without the stack of       *)
(* scenes: after the loading screen one scene at a time, each followed by  *)
(* the one it has asked for, or else by the one the list of scenes gives.  *)
(* Scenes implements it.                                                   *)
(***************************************************************************)
EXTENDS Integers, Sequences

CONSTANTS List,     \* the scenes: a sequence of [label, next]
          StartLabel, None

VARIABLES current,  \* "loading", a label, or "finished"
          wish      \* the label of the next scene, None: the next of the list

vars == <<current, wish>>

Label == {List[i].label : i \in DOMAIN List}
IndexOf(l) == CHOOSE i \in DOMAIN List : List[i].label = l

\* A scene wishes what the list says, until it asks for another.
Show(l) == current' = l /\ wish' = List[IndexOf(l)].next

Init == current = "loading" /\ wish = None

Start == current = "loading" /\ Show(StartLabel)

Ask(l) == current \in Label /\ wish' = l /\ UNCHANGED current

Leave ==
    /\ current \in Label
    /\ LET n == IndexOf(current) + 1
       IN  \/ wish # None /\ Show(wish)
           \/ wish = None /\ n <= Len(List) /\ Show(List[n].label)
           \/ wish = None /\ n > Len(List) /\ current' = "finished" /\ wish' = None

Next == Start \/ Leave \/ \E l \in Label : Ask(l)

Spec == Init /\ [][Next]_vars
=============================================================================
