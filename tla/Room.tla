--------------------------------- MODULE Room ---------------------------------
(***************************************************************************)
(* A room of the game (abstract): what it keeps in the database            *)
(* (db/isudb.sql), the arithmetic the game does on it, and what it         *)
(* promises, whatever runs concurrently.  A room is                        *)
(*   adding   the rows (time, isu) of table adding: a function from times  *)
(*            to the isu that arrive then (no row is the same as isu '0');  *)
(*   buying   the rows (item_id, ordinal, time) of table buying: copy      *)
(*            number ordinal of an item, which produces from time on.      *)
(* The unit of account is the milli-isu: a power of p makes p of them per  *)
(* millisecond, and Milli of them are one isu (1000 in the code).          *)
(* Every request takes effect in one step, at some reading c of the        *)
(* database clock that is not before the previous one, on the rows every   *)
(* earlier request left.  GameTx shows that the transactions of Game.js    *)
(* implement this specification.                                           *)
(***************************************************************************)
EXTENDS Integers, FiniteSets, Functions

-----------------------------------------------------------------------------
(* The master table m_item (webapp/nodejs/MItem.js): the price and the      *)
(* production power of the n-th copy of an item.  Both are                  *)
(*        f(x) = (c*x + 1) * d^(a*x + b)                                    *)
(* over the columns price1..4, respectively power1..4, of its row.          *)

\* A row of m_item: the columns are non-negative, as in db/m_item.sql.
ItemRow == [price1 : Nat, price2 : Nat, price3 : Nat, price4 : Nat,
            power1 : Nat, power2 : Nat, power3 : Nat, power4 : Nat]

\* MItem.getPrice(count)
GetPrice(m, x) == (m.price3 * x + 1) * m.price4 ^ (m.price1 * x + m.price2)

\* MItem.getPower(count)
GetPower(m, x) == (m.power3 * x + 1) * m.power4 ^ (m.power1 * x + m.power2)

-----------------------------------------------------------------------------
CONSTANTS MItems,     \* the master table: item_id -> row of m_item
          Milli,      \* milli-isu per isu; the code's 1000
          Clock,      \* readings of the database clock, in milliseconds
          ReqTime,    \* times a request may ask for
          Isu,        \* amounts of isu a request may add
          Count       \* values of count_bought a request may carry

Item == DOMAIN MItems

ASSUME MItemsAssumption == IsFiniteSet(Item) /\ \A i \in Item : MItems[i] \in ItemRow
ASSUME MilliAssumption == Milli \in Nat \ {0}
ASSUME ClockAssumption == Clock \subseteq Nat
ASSUME ReqTimeAssumption == ReqTime \subseteq Nat \ {0}
ASSUME IsuAssumption == Isu \subseteq Nat
ASSUME CountAssumption == Count \subseteq Nat

\* item.getPrice(n), item.getPower(n) for the row item of m_item.
Price(i, n) == GetPrice(MItems[i], n)
Power(i, n) == GetPower(MItems[i], n)

\* The formulas of m_item, whose columns are not negative, give every copy a price
\* and a power that are not negative.
ASSUME ItemsAssumption ==
    \A i \in Item, n \in {0} \cup Count \cup {m + 1 : m \in Count} :
        Price(i, n + 1) \in Nat /\ Power(i, n + 1) \in Nat

VARIABLES roomTime,   \* table room_time: the last clock reading a request saw
          adding,     \* table adding
          buying      \* table buying

roomVars == <<roomTime, adding, buying>>

-----------------------------------------------------------------------------
(* The books *)

\* A row of table buying.
BuyingRow == [item : Item, ordinal : Nat \ {0}, time : Nat]

\* SELECT COUNT(*) FROM buying WHERE item_id = i
CountBuying(rows, i) == Cardinality({b \in rows : b.item = i})

\* The isu that have arrived by time t.
AddedIsu(adds, t) == SumFunctionOnSet(adds, {u \in DOMAIN adds : u <= t})

\* What all the bought copies cost, those still to be built included.
Cost(rows) ==
    SumFunctionOnSet([b \in rows |-> Price(b.item, b.ordinal)], rows)

\* The milli-isu that the built copies have produced by time t.
Gain(rows, t) ==
    SumFunctionOnSet([b \in rows |-> Power(b.item, b.ordinal) * (t - b.time)],
                     {b \in rows : b.time <= t})

\* The milli-isu of the room at time t, as buyItem computes them: a purchase
\* is paid for at once, whenever its copy starts to produce.
MilliIsu(adds, rows, t) ==
    Milli * AddedIsu(adds, t) - Milli * Cost(rows) + Gain(rows, t)
-----------------------------------------------------------------------------
(* The requests *)

\* Bug: a request may ask for a time that has passed.
NoPastCheck(t, c) == TRUE

\* updateRoomTime, for a clock reading c: the room's time never runs backwards,
\* and a request (time 0: none was asked for) is not in the past.
Current(c) == roomTime <= c
NotPast(t, c) == t # 0 => c <= t
MoveTime(c, t) == Current(c) /\ NotPast(t, c) /\ roomTime' = c

\* Bugs: a count that runs ahead is accepted; copies that are still to be built are not
\* paid for.
SeenEnough(i, n) == CountBuying(buying, i) <= n
AffordableIfBuilt(i, n, t) ==
    MilliIsu(adding, {b \in buying : b.time <= t}, t) >= Milli * Price(i, n + 1)

\* The copy buyItem buys when the buyer knows of n.
NextOrdinal(n) == n + 1

\* buyItem's checks: the buyer has seen every copy bought so far, and the room
\* can afford the next one at time t.
SeenAll(i, n) == CountBuying(buying, i) = n
Affordable(i, n, t) == MilliIsu(adding, buying, t) >= Milli * Price(i, NextOrdinal(n))

RoomInit == /\ roomTime = 0
            /\ adding = [t \in ReqTime |-> 0]
            /\ buying = {}

\* addIsu: isu more arrive at time t.
AddIsu(c, t, isu) ==
    /\ MoveTime(c, t)
    /\ UNCHANGED buying
    /\ adding' = [adding EXCEPT ![t] = @ + isu]

\* buyItem: copy n + 1 of item i is bought, to produce from time t on.
BuyItem(c, t, i, n) ==
    /\ MoveTime(c, t)
    /\ UNCHANGED adding
    /\ SeenAll(i, n)
    /\ Affordable(i, n, t)
    /\ buying' = buying \cup {[item |-> i, ordinal |-> NextOrdinal(n), time |-> t]}

\* getStatus: reads everything, and moves the room's time.
GetStatus(c) ==
    /\ MoveTime(c, 0)
    /\ UNCHANGED <<adding, buying>>

RoomNext == \E c \in Clock :
          \/ \E t \in ReqTime, isu \in Isu : AddIsu(c, t, isu)
          \/ \E t \in ReqTime, i \in Item, n \in Count : BuyItem(c, t, i, n)
          \/ GetStatus(c)

RoomSpec == RoomInit /\ [][RoomNext]_roomVars

-----------------------------------------------------------------------------
(* Properties *)

\* The tables hold rows of their types (db/isudb.sql).
RoomTypeOK ==
    /\ roomTime \in Nat
    /\ adding \in [ReqTime -> Nat]
    /\ buying \subseteq BuyingRow

\* The copies of an item are numbered 1..n without gap or repetition, n being
\* what COUNT(*) returns: the numbering that addresses the prices and powers
\* (getPrice(ordinal), getPower(ordinal)) and that calcStatus replaces by a
\* running count.
OrdinalsContiguous ==
    /\ \A b1, b2 \in buying :
          b1.item = b2.item /\ b1.ordinal = b2.ordinal => b1 = b2
    /\ \A i \in Item :
          {b.ordinal : b \in {x \in buying : x.item = i}} = 1 .. CountBuying(buying, i)

\* From the moment the last bought copy starts to produce, the room is never in
\* debt: no order of purchases, for however early or late a time each, spends
\* the same isu twice.
Solvent ==
    \A t \in ReqTime :
        (\A b \in buying : b.time <= t) => MilliIsu(adding, buying, t) >= 0

\* The room's time never runs backwards, though the database clock may.
RoomTimeMonotone == [][roomTime' >= roomTime]_roomVars

\* The past a status has shown is final: no request changes what arrived, or
\* what started to produce, before the room's time.
PastFrozen ==
    [][/\ \A t \in ReqTime : t < roomTime => adding'[t] = adding[t]
       /\ {b \in buying' : b.time < roomTime} = {b \in buying : b.time < roomTime}]_roomVars

\* What updateRoomTime is for: what a status has shown up to the room's time stays
\* true, because that time only grows and no request reaches back behind it.
PastKept == RoomTimeMonotone /\ PastFrozen

-----------------------------------------------------------------------------
(* What the validator of the benchmarker asserts of the answers in its      *)
(* pre-test; the room does not promise it.                                  *)

\* validateStatus (bench gamelog.go:279): the isu a status shows for the current
\* time are never negative.
NeverNegative == MilliIsu(adding, buying, roomTime) >= 0
=============================================================================
