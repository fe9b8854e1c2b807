------------------------------ MODULE CalcStatus ------------------------------
(***************************************************************************)
(* The status the server sends (webapp/nodejs/Game.js calcStatus): what a  *)
(* room owns and produces at the time of the status, and a simulation,     *)
(* millisecond by millisecond, of what arrives within the next Horizon.    *)
(* Numbers are sent as mantissa and exponent (big2exp): only their leading *)
(* Digits characters survive.                                              *)
(*                                                                         *)
(* A row of adding with isu '0' is not told from an absent row; the rows   *)
(* of buying come in the order of the primary key.                         *)
(***************************************************************************)
EXTENDS Room, FiniteSetsExt

CONSTANTS Horizon,    \* how far a status looks ahead; 1000 ms in the code
          Radix,      \* base of the exponents; 10
          Digits      \* characters of a mantissa; 15

ASSUME HorizonAssumption == Horizon \in Nat
ASSUME RadixAssumption == Radix \in Nat \ {0, 1} /\ Digits \in Nat \ {0, 1}

Window == roomTime .. roomTime + Horizon

-----------------------------------------------------------------------------
(* big2exp *)

\* The first d digits of n, and how many follow them.
Leading(n, d) ==
    LET e == CHOOSE k \in 0 .. n : /\ n \div Radix^k < Radix^d
                                   /\ k = 0 \/ n \div Radix^(k - 1) >= Radix^d
    IN  [mantissa |-> n \div Radix^e, exponent |-> e]

\* The sign of a negative number takes the place of one digit.
Big2Exp(n) == IF n >= 0 THEN Leading(n, Digits)
              ELSE LET l == Leading(-n, Digits - 1) IN [l EXCEPT !.mantissa = -@]
-----------------------------------------------------------------------------
(* calcStatus *)

AddingAt(t) == IF t \in ReqTime THEN adding[t] ELSE 0
Built == {b \in buying : b.time <= roomTime}

\* itemBought[b.item_id] when row b is reached: the number calcStatus passes to
\* getPower in place of the ordinal.
RunningCount(b) == Cardinality({x \in buying : x.item = b.item /\ x.ordinal <= b.ordinal})

PowerOf(B, i) == SumFunctionOnSet([b \in B |-> Power(i, b.ordinal)], {b \in B : b.item = i})
TotalPower(itemPower) == SumFunctionOnSet(itemPower, Item)

\* The loops over addings and buyings.
Start ==
    LET power == [b \in Built |-> Power(b.item, RunningCount(b))]
        itemPower == [i \in Item |-> SumFunctionOnSet(power, {b \in Built : b.item = i})]
    IN  [milli |-> Milli * AddedIsu(adding, roomTime) - Milli * Cost(buying)
                     + SumFunctionOnSet([b \in Built |-> power[b] * (roomTime - b.time)], Built),
         power |-> TotalPower(itemPower),
         itemPower |-> itemPower,
         itemBuilt |-> [i \in Item |-> CountBuying(Built, i)]]

\* Bug: the copies built at t produce in the millisecond before t.
AdvanceEarly(s, t) ==
    LET B == {b \in buying : b.time = t}
        itemPower == [i \in Item |-> s.itemPower[i] + PowerOf(B, i)]
    IN  [milli |-> s.milli + TotalPower(itemPower) + Milli * AddingAt(t),
         power |-> TotalPower(itemPower),
         itemPower |-> itemPower,
         itemBuilt |-> [i \in Item |-> s.itemBuilt[i] + CountBuying(B, i)]]

\* The loop from currentTime + 1 on: what happens at time t.
Advance(s, t) ==
    LET B == {b \in buying : b.time = t}
        itemPower == [i \in Item |-> s.itemPower[i] + PowerOf(B, i)]
    IN  [milli |-> s.milli + s.power + Milli * AddingAt(t),
         power |-> TotalPower(itemPower),
         itemPower |-> itemPower,
         itemBuilt |-> [i \in Item |-> s.itemBuilt[i] + CountBuying(B, i)]]

Simulation ==
    LET sim[t \in Window] == IF t = roomTime THEN Start ELSE Advance(sim[t - 1], t)
    IN  sim

\* Bug: the price of the copy bought last.
LastPrice(i) == Price(i, CountBuying(buying, i))

NextPrice(i) == Price(i, CountBuying(buying, i) + 1)

\* itemOnSale: when the next copy can be bought, 0 if at once; an item that the
\* window does not see on sale has no entry.
OnSale(sim) ==
    LET Times(i) == {t \in Window : sim[t].milli >= Milli * NextPrice(i)}
    IN  [i \in {j \in Item : Times(j) # {}} |->
            IF roomTime \in Times(i) THEN 0 ELSE Min(Times(i))]

\* The times at which something arrives or is built: the entries of schedule.
Updates == {t \in Window : t > roomTime /\ (AddingAt(t) # 0 \/ \E b \in buying : b.time = t)}

\* adding, schedule and building are sets here: their entries carry their times.
Status ==
    LET sim == Simulation
    IN  [adding |-> {[time |-> t, isu |-> adding[t]] :
                        t \in {u \in ReqTime : u > roomTime /\ adding[u] # 0}},
         schedule |-> {[time |-> t, milli_isu |-> Big2Exp(sim[t].milli),
                        total_power |-> Big2Exp(sim[t].power)] : t \in {roomTime} \cup Updates},
         items |-> [i \in Item |->
            [count_bought |-> CountBuying(buying, i),
             count_built |-> sim[roomTime].itemBuilt[i],
             next_price |-> Big2Exp(NextPrice(i)),
             power |-> Big2Exp(sim[roomTime].itemPower[i]),
             building |-> {[time |-> t, count_built |-> sim[t].itemBuilt[i],
                            power |-> Big2Exp(sim[t].itemPower[i])] :
                              t \in {u \in Updates : \E b \in buying : b.item = i /\ b.time = u}}]],
         on_sale |-> OnSale(sim)]
=============================================================================
