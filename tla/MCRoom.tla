-------------------------------- MODULE MCRoom --------------------------------
(* The abstract room on a small instance: two items, four milliseconds.     *)
EXTENDS Room

\* The formulas of m_item with small columns: copy n of item 1 costs n + 1 isu
\* and makes 2^n milli-isu per ms; copy n of item 2 costs 2^n and makes n + 1.
MCItems ==
    << [price1 |-> 0, price2 |-> 0, price3 |-> 1, price4 |-> 1,
        power1 |-> 1, power2 |-> 0, power3 |-> 0, power4 |-> 2],
       [price1 |-> 1, price2 |-> 0, price3 |-> 0, price4 |-> 2,
        power1 |-> 0, power2 |-> 0, power3 |-> 1, power4 |-> 1] >>
MCMilli == 2
MCClock == 0 .. 4
MCReqTime == 1 .. 4
MCIsu == {2}
MCCount == 0 .. 2

\* Bound: what one row of adding may reach.
MaxIsu == 4
BoundedNext ==
    \E c \in Clock :
       \/ \E t \in ReqTime, isu \in Isu :
             adding[t] + isu <= MaxIsu /\ AddIsu(c, t, isu)
       \/ \E t \in ReqTime, i \in Item, n \in Count : BuyItem(c, t, i, n)
       \/ GetStatus(c)
BoundedSpec == RoomInit /\ [][BoundedNext]_roomVars
=============================================================================
