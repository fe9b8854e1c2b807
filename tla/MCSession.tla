------------------------------- MODULE MCSession -------------------------------
(* One player, two concurrent requests, and other players.                  *)
EXTENDS Session, TLC

\* Copy n costs n isu and makes 1 milli-isu per ms.
MCItems == << [price1 |-> 0, price2 |-> 1, price3 |-> 0, price4 |-> 1,
               power1 |-> 0, power2 |-> 1, power3 |-> 0, power4 |-> 1] >>
MCClock == 2 .. 3
MCReqTime == 1 .. 5
MCIsu == {2}
MCCount == 0 .. 3
\* Handlers are alike.
Symmetry == Permutations(Handler)

\* Bound: two clicks, or one click and one error.
Bound == clicks' <= 1 \/ faults' = 0
=============================================================================
