------------------------------- MODULE MCGameTx -------------------------------
(* The transactions of one room on a small instance.                        *)
EXTENDS GameTx

CONSTANT h3

\* A copy of item 1 costs 1 isu, a copy of item 2 costs 2: one amount of 2 isu
\* pays for two copies of item 1 or for one of item 2, not for one of each.
\* Copy n makes 2^n, respectively n + 1, milli-isu per millisecond.
MCItems ==
    << [price1 |-> 0, price2 |-> 0, price3 |-> 0, price4 |-> 1,
        power1 |-> 1, power2 |-> 0, power3 |-> 0, power4 |-> 2],
       [price1 |-> 0, price2 |-> 1, price3 |-> 0, price4 |-> 2,
        power1 |-> 0, power2 |-> 0, power3 |-> 1, power4 |-> 1] >>
MCMilli == 4
MCClock == 1 .. 2
MCReqTime == 1 .. 2
MCIsu == {2}
MCCount == 0 .. 1

\* Isu for time 1 (a request that may be late), the first copy of item 1 at the
\* same time, and its second copy at time 2.
MCRequest ==
    {r \in AddReq \cup BuyReq :
        IF r.kind = "add" THEN r.time = 1
        ELSE <<r.item, r.count, r.time>> \in {<<1, 0, 1>>, <<1, 1, 2>>}}

\* Bound: three handlers on two connections as long as they only serve ticks, two of them
\* once requests are received.
Bound == reqs' = 0 \/ pc'[h3] = "idle"
=============================================================================
