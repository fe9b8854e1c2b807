------------------------------ MODULE ClientView ------------------------------
(***************************************************************************)
(* What the browser makes of a status until the next one arrives           *)
(* (webapp/public/game.js): the isu it shows, the copies it draws as built *)
(* and the buttons it enables, for every millisecond of the window, against*)
(* what buyItem would compute at that time.                                *)
(* The browser's floating point is not modelled.                           *)
(***************************************************************************)
EXTENDS CalcStatus

\* The number an exponential stands for; what truncation may have taken off it.
Value(x) == x.mantissa * Radix^x.exponent
Slack(x) == IF x.exponent = 0 THEN 0 ELSE Radix^x.exponent - 1

\* The last entry of S at time t.
LastAt(S, t) == CHOOSE x \in S : /\ x.time <= t
                                 /\ \A y \in S : y.time <= t => y.time <= x.time

\* calcSchedule: the isu go on from the last entry with its power.
ShownIsu(s, t) ==
    LET k == LastAt(s.schedule, t) IN Value(k.milli_isu) + Value(k.total_power) * (t - k.time)
ShownSlack(s, t) ==
    LET k == LastAt(s.schedule, t) IN Slack(k.milli_isu) + Slack(k.total_power) * (t - k.time)

\* calcItem: the entry of building that is in force, or the item itself.
ShownItem(item, t) ==
    IF \E x \in item.building : x.time <= t
    THEN LET k == LastAt(item.building, t) IN [count_built |-> k.count_built, power |-> k.power]
    ELSE [count_built |-> item.count_built, power |-> item.power]

\* calcDisabled, negated: the button of item i can be pressed.
Enabled(s, i, t) == i \in DOMAIN s.on_sale /\ t >= s.on_sale[i]
-----------------------------------------------------------------------------
(* Properties *)

\* Throughout the window the browser shows the isu buyItem would count at that
\* time, up to the digits big2exp has cut off (rounding is towards zero).
ShownIsuExact ==
    LET s == Status
    IN  \A t \in Window :
           LET d == MilliIsu(adding, buying, t) - ShownIsu(s, t)
           IN  -ShownSlack(s, t) <= d /\ d <= ShownSlack(s, t)

\* A button is enabled exactly when buyItem would accept the purchase at that
\* time, though the status is a simulation, the check of buyItem a closed form,
\* and what the browser shows is truncated.
EnabledIfAffordable ==
    LET s == Status
    IN  \A t \in Window, i \in Item :
           Enabled(s, i, t) <=> Affordable(i, s.items[i].count_bought, t)

\* Throughout the window the browser draws the copies that produce by then, with
\* the power of their ordinals (calcStatus counts rows instead, Game.js:185).
ShownItemsExact ==
    LET s == Status
    IN  \A t \in Window, i \in Item :
           LET B == {b \in buying : b.item = i /\ b.time <= t}
           IN  ShownItem(s.items[i], t) =
                  [count_built |-> Cardinality(B), power |-> Big2Exp(PowerOf(B, i))]

\* What the browser shows of a status is what the room has at that time, up to what the
\* exponential notation cuts off: the isu, and the number of copies of each item
\* (game.js:69-121, Game.js:146-299).
ShownExact == ShownIsuExact /\ ShownItemsExact
=============================================================================
