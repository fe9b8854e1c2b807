------------------------------ MODULE MCClients -------------------------------
(***************************************************************************)
(* Those who use a game server or the portal from outside: the browser's   *)
(* page, a player of the benchmark, a team that reads the leaderboard, and *)
(* who calls /initialize while players are connected.  The parts share no  *)
(* state; a behaviour is about one of them.                                *)
(***************************************************************************)
EXTENDS Gui, BenchClient, Leaderboard, Initialize, TLC

\* One small room: copy n of item 1 costs n + 1 isu and makes 2^n milli-isu per ms; copy
\* n of item 2 costs 2^n and makes n + 1.
SmallItems ==
    << [price1 |-> 0, price2 |-> 0, price3 |-> 1, price4 |-> 1,
        power1 |-> 1, power2 |-> 0, power3 |-> 0, power4 |-> 2],
       [price1 |-> 1, price2 |-> 0, price3 |-> 0, price4 |-> 2,
        power1 |-> 0, power2 |-> 0, power3 |-> 1, power4 |-> 1] >>

ASSUME GuiAssumption /\ BenchClientAssumption /\ LeaderboardAssumption

VARIABLE part  \* the part a behaviour is about
-----------------------------------------------------------------------------
vars == <<part, guiVars, clientVars, boardVars, initializeVars>>

Init ==
    /\ part \in {"gui", "client", "board", "initialize"}
    /\ GuiInit
    /\ ClientInit
    /\ BoardInit
    /\ InitializeInit

\* One part moves, the others stand still.
Next ==
    /\ UNCHANGED part
    /\ IF part = "gui" THEN GuiNext ELSE UNCHANGED guiVars
    /\ IF part = "client" THEN ClientNext ELSE UNCHANGED clientVars
    /\ IF part = "board" THEN BoardNext ELSE UNCHANGED boardVars
    /\ IF part = "initialize" THEN InitializeNext ELSE UNCHANGED initializeVars

Spec == Init /\ [][Next]_vars

\* Goroutines are alike, and so are the teams that play.
Symmetry == Permutations(Goroutine) \cup Permutations(Team \ {Admin})
=============================================================================
