----------------------------- MODULE GameTxProofs -----------------------------
(***************************************************************************)
(* The transactions of Game.js implement the atomic room, for every number *)
(* of handlers, every set of requests, every clock and every pool size.    *)
(* The invariant follows one handler from the lock of the room's row to    *)
(* the COMMIT: what it has read and checked stays true of the committed    *)
(* tables, because only the holder of the lock can change them.            *)
(* /initialize, which locks nothing, leaves no room in debt all the same.  *)
(***************************************************************************)
EXTENDS GameTx, Initialize, RoomProofs, TLAPS

USE DEF Item

Decided == {"upsert", "count", "total", "insert", "read", "commit"}

\* A transaction belongs to a request of its kind, and runs its own queries.
KindInv(h) ==
    /\ tx[h] = "add" => op[h] \in AddReq
    /\ tx[h] = "buy" => op[h] \in BuyReq
    /\ pc[h] = "upsert" => tx[h] = "add"
    /\ pc[h] \in {"count", "total", "insert"} => tx[h] = "buy"
    /\ pc[h] = "read" => tx[h] = "status"

\* The view is opened under the lock, and is what is committed.
ViewInv(h) ==
    /\ pc[h] \in {"idle", "connect", "lock", "clock", "upsert"} => ~ view[h].open
    /\ pc[h] \in UnderLock /\ view[h].open => view[h] = Committed

\* The checks made so far hold of the committed tables.
CheckedInv(h) ==
    /\ pc[h] \in Decided => /\ clock[h] \in Clock
                            /\ Current(clock[h])
                            /\ NotPast(RequestedTime(h), clock[h])
    /\ pc[h] \in {"total", "insert", "commit"} /\ tx[h] = "buy" =>
         SeenAll(op[h].item, op[h].count)
    /\ pc[h] \in {"insert", "commit"} /\ tx[h] = "buy" =>
         Affordable(op[h].item, op[h].count, op[h].time)
    /\ pc[h] = "commit" /\ tx[h] = "add" => sum[h] = NewIsu(h)

HandlerInv(h) ==
    /\ KindInv(h)
    /\ pc[h] \in UnderLock => lock = h
    /\ ViewInv(h)
    /\ CheckedInv(h)

IInv == TypeOK /\ \A h \in Handler : HandlerInv(h)

-----------------------------------------------------------------------------
(* Types *)

\* What the fields of a request are.
LEMMA RequestTypes ==
  ASSUME NEW o, o \in AddReq \/ o \in BuyReq
  PROVE  /\ o \in AddReq => o.time \in ReqTime /\ o.isu \in Isu /\ o.kind = "add"
         /\ o \in BuyReq => /\ o.time \in ReqTime /\ o.item \in Item
                            /\ o.count \in Count /\ o.kind = "buy"
  BY DEF AddReq, BuyReq

\* A transaction that has read nothing has a view of the right type.
LEMMA NoViewType == NoView \in ViewType
  BY DEF NoView, ViewType

\* So has one that has read the committed tables.
LEMMA CommittedType == RoomTypeOK => Committed \in ViewType
  BY DEF RoomTypeOK, Committed, ViewType

\* The row buyItem inserts is a row of buying.
LEMMA BoughtType == \A o \in BuyReq : Bought(o) \in BuyingRow
<1> TAKE o \in BuyReq
<1>1. /\ o.item \in Item
      /\ NextOrdinal(o.count) \in Nat \ {0}
      /\ o.time \in Nat
  <2>1. o.time \in ReqTime /\ o.item \in Item /\ o.count \in Count
    BY DEF BuyReq
  <2>2. o.time \in Nat /\ o.count \in Nat
    BY <2>1, ReqTimeAssumption, CountAssumption
  <2>3. \A n \in Nat : NextOrdinal(n) \in Nat \ {0}
    BY DEF NextOrdinal
  <2> QED BY <2>1, <2>2, <2>3
<1> QED BY <1>1 DEF Bought, BuyingRow

\* The invariant holds at first.
LEMMA InitIInv == Init => IInv
<1> SUFFICES ASSUME Init PROVE IInv
  OBVIOUS
<1>1. RoomTypeOK
  BY ReqTimeAssumption DEF Init, RoomInit, RoomTypeOK
<1>2. TypeOK
  <2>1. /\ view \in [Handler -> ViewType]
        /\ op \in [Handler -> Request \cup {Tick}]
    BY NoViewType DEF Init
  <2>2. /\ pc \in [Handler -> InTransaction \cup
                     {"idle", "connect", "time", "answer", "rollback"}]
        /\ tx \in [Handler -> {"add", "buy", "status"}]
        /\ clock \in [Handler -> Nat] /\ sum \in [Handler -> Nat]
        /\ ok \in [Handler -> BOOLEAN]
    BY DEF Init
  <2>3. /\ now \in Clock /\ lock \in Handler \cup {Nobody} /\ free \in Int
        /\ reqs \in Nat /\ ackedIsu \in [ReqTime -> Nat] /\ ackedBuys \subseteq BuyingRow
    BY PoolAssumption DEF Init
  <2> QED BY <1>1, <2>1, <2>2, <2>3 DEF TypeOK
<1>3. ASSUME NEW h \in Handler PROVE HandlerInv(h)
  <2>1. pc[h] = "idle" /\ tx[h] = "status" /\ view[h] = NoView
    BY DEF Init
  <2>2. ~ view[h].open
    BY <2>1 DEF NoView
  <2> QED BY <2>1, <2>2
  DEF HandlerInv, KindInv, ViewInv, CheckedInv, InTransaction, UnderLock, Decided
<1> QED BY <1>2, <1>3 DEF IInv

\* COMMIT leaves rows of the right types.
LEMMA CommitType ==
  ASSUME IInv, NEW h \in Handler, CommitWrites(h)
  PROVE  RoomTypeOK' /\ lock' \in Handler \cup {Nobody}
<1> USE DEF IInv, TypeOK, HandlerInv
<1>1. roomTime' \in Nat
  BY DEF CommitWrites
<1>2. adding' \in [ReqTime -> Nat]
  <2>1. tx[h] = "add" => op[h].time \in ReqTime
    BY RequestTypes DEF KindInv
  <2> QED BY <2>1 DEF CommitWrites, RoomTypeOK
<1>3. buying' \subseteq BuyingRow
  BY BoughtType DEF CommitWrites, RoomTypeOK, KindInv
<1> QED BY <1>1, <1>2, <1>3 DEF RoomTypeOK, CommitWrites

\* Every query, error and restart leaves every variable in its type.
LEMMA TypeStep == IInv /\ [Next]_vars => TypeOK'
<1> SUFFICES ASSUME IInv, [Next]_vars PROVE TypeOK'
  OBVIOUS
<1>0. TypeOK /\ RoomTypeOK
  BY DEF IInv, TypeOK
<1> USE <1>0, NoViewType, CommittedType, PoolAssumption, ClockAssumption
     DEF InTransaction, dbVars, txVars, history
<1>a. ASSUME UNCHANGED dbVars PROVE RoomTypeOK'
  BY <1>a DEF RoomTypeOK
<1>1. ASSUME NEW h \in Handler, NEW o \in Request, Receive(h, o) PROVE TypeOK'
  <2>1. o.kind \in {"add", "buy"}
    BY RequestAssumption, RequestTypes
  <2> QED BY <1>1, <1>a, <2>1 DEF Receive, TypeOK
<1>2. ASSUME NEW h \in Handler, Loop(h) PROVE TypeOK'
  BY <1>2, <1>a DEF Loop, TypeOK
<1>3. ASSUME NEW h \in Handler, GetConnection(h) PROVE TypeOK'
  BY <1>3, <1>a DEF GetConnection, TypeOK
<1>4. ASSUME NEW h \in Handler, LockRoom(h) PROVE TypeOK'
  BY <1>4, <1>a DEF LockRoom, TypeOK
<1>5. ASSUME NEW h \in Handler, ReadClock(h) PROVE TypeOK'
  BY <1>5, <1>a DEF ReadClock, TypeOK, AfterClock
<1>6. ASSUME NEW h \in Handler, UpsertAdding(h) PROVE TypeOK'
  <2>1. op[h] \in AddReq
    BY <1>6 DEF UpsertAdding, IInv, HandlerInv, KindInv
  <2>2. op[h].isu \in Nat /\ adding[op[h].time] \in Nat
    BY <2>1, RequestTypes, IsuAssumption DEF RoomTypeOK
  <2>3. NewIsu(h) \in Nat
    BY <2>2 DEF NewIsu
  <2> QED BY <1>6, <1>a, <2>3 DEF UpsertAdding, TypeOK
<1>7. ASSUME NEW h \in Handler, CountBought(h) PROVE TypeOK'
  <2>1. View(h) \in ViewType
    BY DEF View, TypeOK
  <2> QED BY <1>7, <1>a, <2>1 DEF CountBought, TypeOK
<1>8. ASSUME NEW h \in Handler, CheckTotal(h) PROVE TypeOK'
  BY <1>8, <1>a DEF CheckTotal, TypeOK
<1>9. ASSUME NEW h \in Handler, InsertBuying(h) PROVE TypeOK'
  BY <1>9, <1>a DEF InsertBuying, TypeOK
<1>10. ASSUME NEW h \in Handler, ReadTables(h) PROVE TypeOK'
  <2>1. View(h) \in ViewType
    BY DEF View, TypeOK
  <2> QED BY <1>10, <1>a, <2>1 DEF ReadTables, TypeOK
<1>11. ASSUME NEW h \in Handler, Commit(h) PROVE TypeOK'
  <2>1. RoomTypeOK' /\ lock' \in Handler \cup {Nobody}
    BY <1>11, CommitType DEF Commit
  <2>2. AfterCommit[tx[h]] \in {"connect", "time"}
    BY DEF AfterCommit, TypeOK
  <2>3. free' \in Int
    BY <1>11 DEF Commit, Release, TypeOK
  <2>4. pc' \in [Handler -> InTransaction \cup
                   {"idle", "connect", "time", "answer", "rollback"}]
    BY <1>11, <2>2 DEF Commit, TypeOK
  <2>5. UNCHANGED <<now, op, history>>
    BY <1>11 DEF Commit
  <2>6. CASE tx[h] = "status"
    <3>1. /\ clock' \in [Handler -> Nat]
          /\ UNCHANGED <<tx, view, sum, ok>>
      BY <1>11, <2>6 DEF Commit, TypeOK
    <3> QED BY <2>1, <2>3, <2>4, <2>5, <3>1 DEF TypeOK
  <2>7. CASE tx[h] # "status"
    <3>1. /\ tx' = [tx EXCEPT ![h] = "status"]
          /\ ok' = [ok EXCEPT ![h] = TRUE]
          /\ EndTransaction(h)
      BY <1>11, <2>7 DEF Commit
    <3>2. /\ view' \in [Handler -> ViewType]
          /\ clock' \in [Handler -> Nat]
          /\ sum' \in [Handler -> Nat]
      BY <3>1 DEF EndTransaction, TypeOK
    <3>3. /\ tx' \in [Handler -> {"add", "buy", "status"}]
          /\ ok' \in [Handler -> BOOLEAN]
      BY <3>1 DEF TypeOK
    <3> QED BY <2>1, <2>3, <2>4, <2>5, <3>2, <3>3 DEF TypeOK
  <2> QED BY <2>6, <2>7
<1>12. ASSUME NEW h \in Handler, CommitAnswerLost(h) PROVE TypeOK'
  <2>1. RoomTypeOK' /\ lock' \in Handler \cup {Nobody}
    BY <1>12, CommitType DEF CommitAnswerLost
  <2> QED BY <1>12, <2>1 DEF CommitAnswerLost, TypeOK
<1>b. ASSUME NEW h \in Handler, End(h)
      PROVE  /\ pc' \in [Handler -> InTransaction \cup
                          {"idle", "connect", "time", "answer", "rollback"}]
             /\ op' \in [Handler -> Request \cup {Tick}]
             /\ tx' \in [Handler -> {"add", "buy", "status"}]
             /\ clock' \in [Handler -> Nat]
             /\ sum' \in [Handler -> Nat]
             /\ ok' \in [Handler -> BOOLEAN]
             /\ view' \in [Handler -> ViewType]
  BY <1>b DEF End, EndTransaction, TypeOK
<1>c. ASSUME NEW h \in Handler, Failed(h)
      PROVE  /\ pc' \in [Handler -> InTransaction \cup
                          {"idle", "connect", "time", "answer", "rollback"}]
             /\ op' \in [Handler -> Request \cup {Tick}]
             /\ tx' \in [Handler -> {"add", "buy", "status"}]
             /\ clock' \in [Handler -> Nat]
             /\ sum' \in [Handler -> Nat]
             /\ ok' \in [Handler -> BOOLEAN]
             /\ view' \in [Handler -> ViewType]
  BY <1>c, <1>b DEF Failed, EndTransaction, TypeOK
<1>13. ASSUME NEW h \in Handler, SendStatus(h) PROVE TypeOK'
  <2>1. CASE op[h] = Tick
    BY <1>13, <1>a, <1>b, <2>1 DEF SendStatus, TypeOK
  <2>2. CASE op[h] # Tick
    BY <1>13, <1>a, <2>2 DEF SendStatus, TypeOK
  <2> QED BY <2>1, <2>2
<1>14. ASSUME NEW h \in Handler, Answer(h) PROVE TypeOK'
  <2>1. op[h].kind = "add" => op[h].time \in ReqTime /\ op[h].isu \in Nat
    <3>1. CASE op[h] = Tick
      BY <3>1 DEF Tick
    <3>2. CASE op[h] \in Request
      BY <3>2, RequestAssumption, RequestTypes, IsuAssumption
    <3> QED BY <3>1, <3>2 DEF TypeOK
  <2>2. op[h].kind = "buy" => Bought(op[h]) \in BuyingRow
    <3>1. CASE op[h] = Tick
      BY <3>1 DEF Tick
    <3>2. CASE op[h] \in Request
      BY <3>2, RequestAssumption, RequestTypes, BoughtType
    <3> QED BY <3>1, <3>2 DEF TypeOK
  <2>3. ackedIsu' \in [ReqTime -> Nat] /\ ackedBuys' \subseteq BuyingRow
    BY <1>14, <2>1, <2>2 DEF Answer, TypeOK
  <2> QED BY <1>14, <1>a, <1>b, <2>3 DEF Answer, TypeOK
<1>15. ASSUME NEW h \in Handler, QueryError(h) PROVE TypeOK'
  BY <1>15, <1>a DEF QueryError, TypeOK
<1>16. ASSUME NEW h \in Handler, ConnectError(h) PROVE TypeOK'
  BY <1>16, <1>a, <1>c DEF ConnectError, TypeOK
<1>17. ASSUME NEW h \in Handler, Rollback(h) PROVE TypeOK'
  BY <1>17, <1>a, <1>c DEF Rollback, TypeOK, Release
<1>18. ASSUME ClockTick \/ ClockSetBack PROVE TypeOK'
  BY <1>18, <1>a DEF ClockTick, ClockSetBack, TypeOK
<1>19. ASSUME Restart PROVE TypeOK'
  BY <1>19, <1>a DEF Restart, TypeOK
<1>20. CASE UNCHANGED vars
  BY <1>20, <1>a DEF vars, TypeOK
<1> QED
  BY <1>1, <1>2, <1>3, <1>4, <1>5, <1>6, <1>7, <1>8, <1>9, <1>10, <1>11, <1>12,
     <1>13, <1>14, <1>15, <1>16, <1>17, <1>18, <1>19, <1>20
  DEF Next, Step, Fault

-----------------------------------------------------------------------------
(* One handler at a time *)

\* Handler g takes no part in the step.
Same(g) ==
    /\ pc'[g] = pc[g] /\ op'[g] = op[g] /\ tx'[g] = tx[g]
    /\ view'[g] = view[g] /\ clock'[g] = clock[g] /\ sum'[g] = sum[g]

\* What a handler knows stays true while the others run: under the lock, nobody
\* else changes the tables.
LEMMA Frame ==
  ASSUME IInv, NEW g \in Handler, Same(g),
         pc[g] \in UnderLock => UNCHANGED dbVars /\ lock' = g
  PROVE  HandlerInv(g)'
<1>1. HandlerInv(g)
  BY DEF IInv
<1>2. CASE pc[g] \in UnderLock
  <2>1. /\ lock' = g
        /\ roomTime' = roomTime /\ adding' = adding /\ buying' = buying
    BY <1>2 DEF dbVars
  <2> QED
    BY <1>1, <2>1
    DEF Same, HandlerInv, KindInv, ViewInv, CheckedInv, Committed, Current,
        RequestedTime, SeenAll, Affordable, NewIsu
<1>3. CASE pc[g] \notin UnderLock
  BY <1>1, <1>3
  DEF Same, HandlerInv, KindInv, ViewInv, CheckedInv, UnderLock, InTransaction,
      Decided
<1> QED BY <1>2, <1>3

\* A step of h that leaves the tables and the lock alone disturbs nobody else.
LEMMA OthersKeep ==
  ASSUME IInv, NEW h \in Handler, HandlerInv(h)',
         \A g \in Handler \ {h} : Same(g),
         \A g \in Handler \ {h} : pc[g] \in UnderLock => UNCHANGED dbVars /\ lock' = g
  PROVE  \A g \in Handler : HandlerInv(g)'
BY Frame

\* A handler past LockRoom holds the lock.
LEMMA HolderOnly ==
  ASSUME IInv, NEW g \in Handler, pc[g] \in UnderLock
  PROVE  lock = g
BY DEF IInv, HandlerInv

\* Every step keeps what each handler has read and checked.
LEMMA HandlerStep == IInv /\ [Next]_vars => \A h \in Handler : HandlerInv(h)'
<1> SUFFICES ASSUME IInv, [Next]_vars PROVE \A h \in Handler : HandlerInv(h)'
  OBVIOUS
<1>0. TypeOK /\ \A h \in Handler : HandlerInv(h)
  BY DEF IInv
<1> USE <1>0, OthersKeep, HolderOnly
     DEF TypeOK, dbVars, txVars, history, Same, InTransaction, UnderLock, Decided
<1>1. ASSUME NEW h \in Handler, NEW o \in Request, Receive(h, o)
      PROVE  \A g \in Handler : HandlerInv(g)'
  <2>1. /\ o.kind = "add" => o \in AddReq
        /\ o.kind = "buy" => o \in BuyReq
        /\ o.kind \in {"add", "buy"}
    BY RequestAssumption, RequestTypes
  <2>2. HandlerInv(h)'
    BY <1>1, <2>1 DEF Receive, HandlerInv, KindInv, ViewInv, CheckedInv
  <2> QED BY <1>1, <2>2 DEF Receive
<1>2. ASSUME NEW h \in Handler, Loop(h) PROVE \A g \in Handler : HandlerInv(g)'
  <2>1. HandlerInv(h)'
    BY <1>2 DEF Loop, HandlerInv, KindInv, ViewInv, CheckedInv
  <2> QED BY <1>2, <2>1 DEF Loop
<1>3. ASSUME NEW h \in Handler, GetConnection(h)
      PROVE  \A g \in Handler : HandlerInv(g)'
  <2>1. HandlerInv(h)'
    BY <1>3 DEF GetConnection, HandlerInv, KindInv, ViewInv, CheckedInv
  <2> QED BY <1>3, <2>1 DEF GetConnection
<1>4. ASSUME NEW h \in Handler, LockRoom(h) PROVE \A g \in Handler : HandlerInv(g)'
  <2>1. HandlerInv(h)'
    BY <1>4 DEF LockRoom, HandlerInv, KindInv, ViewInv, CheckedInv
  <2>2. \A g \in Handler : pc[g] \notin UnderLock
    BY <1>4, NobodyAssumption DEF LockRoom, RowLockFree
  <2> QED BY <1>4, <2>1, <2>2 DEF LockRoom
<1>5. ASSUME NEW h \in Handler, ReadClock(h) PROVE \A g \in Handler : HandlerInv(g)'
  <2>1. HandlerInv(h)'
    BY <1>5
    DEF ReadClock, AfterClock, HandlerInv, KindInv, ViewInv, CheckedInv, Current,
        NotPast, RequestedTime
  <2> QED BY <1>5, <2>1 DEF ReadClock
<1>6. ASSUME NEW h \in Handler, UpsertAdding(h)
      PROVE  \A g \in Handler : HandlerInv(g)'
  <2>1. HandlerInv(h)'
    BY <1>6
    DEF UpsertAdding, HandlerInv, KindInv, ViewInv, CheckedInv, Current, NotPast,
        RequestedTime, NewIsu
  <2> QED BY <1>6, <2>1 DEF UpsertAdding
<1>7. ASSUME NEW h \in Handler, CountBought(h) PROVE \A g \in Handler : HandlerInv(g)'
  <2>1. View(h) = Committed
    BY <1>7 DEF CountBought, View, HandlerInv, ViewInv
  <2>2. HandlerInv(h)'
    BY <1>7, <2>1
    DEF CountBought, HandlerInv, KindInv, ViewInv, CheckedInv, Current, NotPast,
        RequestedTime, SeenAll, Committed
  <2> QED BY <1>7, <2>2 DEF CountBought
<1>8. ASSUME NEW h \in Handler, CheckTotal(h) PROVE \A g \in Handler : HandlerInv(g)'
  <2>1. View(h).adding = adding /\ View(h).buying = buying
    BY <1>8 DEF CheckTotal, View, HandlerInv, ViewInv, Committed
  <2>2. HandlerInv(h)'
    BY <1>8, <2>1
    DEF CheckTotal, HandlerInv, KindInv, ViewInv, CheckedInv, Current, NotPast,
        RequestedTime, SeenAll, Affordable, Committed
  <2> QED BY <1>8, <2>2 DEF CheckTotal
<1>9. ASSUME NEW h \in Handler, InsertBuying(h)
      PROVE  \A g \in Handler : HandlerInv(g)'
  <2>1. HandlerInv(h)'
    BY <1>9
    DEF InsertBuying, HandlerInv, KindInv, ViewInv, CheckedInv, Current, NotPast,
        RequestedTime, SeenAll, Affordable, Committed
  <2> QED BY <1>9, <2>1 DEF InsertBuying
<1>10. ASSUME NEW h \in Handler, ReadTables(h) PROVE \A g \in Handler : HandlerInv(g)'
  <2>1. View(h) = Committed
    BY <1>10 DEF ReadTables, View, HandlerInv, ViewInv
  <2>2. HandlerInv(h)'
    BY <1>10, <2>1
    DEF ReadTables, HandlerInv, KindInv, ViewInv, CheckedInv, Current, NotPast,
        RequestedTime, Committed
  <2> QED BY <1>10, <2>2 DEF ReadTables
<1>a. ASSUME NEW h \in Handler, CommitWrites(h)
      PROVE  \A g \in Handler \ {h} : pc[g] \notin UnderLock
  BY <1>a DEF CommitWrites
<1>11. ASSUME NEW h \in Handler, Commit(h) PROVE \A g \in Handler : HandlerInv(g)'
  <2>1. CASE tx[h] = "status"
    <3>1. HandlerInv(h)'
      BY <1>11, <2>1
      DEF Commit, AfterCommit, HandlerInv, KindInv, ViewInv, CheckedInv
    <3>2. \A g \in Handler \ {h} : Same(g)
      BY <1>11, <2>1 DEF Commit
    <3> QED BY <1>11, <1>a, <3>1, <3>2 DEF Commit
  <2>2. CASE tx[h] # "status"
    <3>1. HandlerInv(h)'
      BY <1>11, <2>2
      DEF Commit, AfterCommit, EndTransaction, NoView, HandlerInv, KindInv,
          ViewInv, CheckedInv
    <3>2. \A g \in Handler \ {h} : Same(g)
      BY <1>11, <2>2 DEF Commit, EndTransaction
    <3> QED BY <1>11, <1>a, <3>1, <3>2 DEF Commit
  <2> QED BY <2>1, <2>2
<1>12. ASSUME NEW h \in Handler, CommitAnswerLost(h)
       PROVE  \A g \in Handler : HandlerInv(g)'
  <2>1. HandlerInv(h)'
    BY <1>12 DEF CommitAnswerLost, HandlerInv, KindInv, ViewInv, CheckedInv
  <2> QED BY <1>12, <1>a, <2>1 DEF CommitAnswerLost
<1>b. ASSUME NEW h \in Handler, End(h)
      PROVE  HandlerInv(h)' /\ \A g \in Handler \ {h} : Same(g)
  BY <1>b DEF End, EndTransaction, NoView, HandlerInv, KindInv, ViewInv, CheckedInv
<1>c. ASSUME NEW h \in Handler, Failed(h)
      PROVE  HandlerInv(h)' /\ \A g \in Handler \ {h} : Same(g)
  <2>1. CASE tx[h] = "status"
    BY <1>b, <1>c, <2>1 DEF Failed
  <2>2. CASE tx[h] # "status"
    BY <1>c, <2>2
    DEF Failed, EndTransaction, NoView, HandlerInv, KindInv, ViewInv, CheckedInv
  <2> QED BY <2>1, <2>2
<1>13. ASSUME NEW h \in Handler, SendStatus(h) PROVE \A g \in Handler : HandlerInv(g)'
  <2>1. HandlerInv(h)' /\ \A g \in Handler \ {h} : Same(g)
    <3>1. CASE op[h] = Tick
      BY <1>13, <1>b, <3>1 DEF SendStatus
    <3>2. CASE op[h] # Tick
      BY <1>13, <3>2 DEF SendStatus, HandlerInv, KindInv, ViewInv, CheckedInv
    <3> QED BY <3>1, <3>2
  <2> QED BY <1>13, <2>1 DEF SendStatus
<1>14. ASSUME NEW h \in Handler, Answer(h) PROVE \A g \in Handler : HandlerInv(g)'
  <2>1. HandlerInv(h)' /\ \A g \in Handler \ {h} : Same(g)
    BY <1>14, <1>b DEF Answer
  <2> QED BY <1>14, <2>1 DEF Answer
<1>15. ASSUME NEW h \in Handler, QueryError(h) PROVE \A g \in Handler : HandlerInv(g)'
  <2>1. HandlerInv(h)'
    BY <1>15 DEF QueryError, HandlerInv, KindInv, ViewInv, CheckedInv
  <2> QED BY <1>15, <2>1 DEF QueryError
<1>16. ASSUME NEW h \in Handler, ConnectError(h)
       PROVE  \A g \in Handler : HandlerInv(g)'
  <2>1. HandlerInv(h)' /\ \A g \in Handler \ {h} : Same(g)
    BY <1>16, <1>c DEF ConnectError
  <2> QED BY <1>16, <2>1 DEF ConnectError
<1>17. ASSUME NEW h \in Handler, Rollback(h) PROVE \A g \in Handler : HandlerInv(g)'
  <2>1. HandlerInv(h)' /\ \A g \in Handler \ {h} : Same(g)
    BY <1>17, <1>c DEF Rollback
  <2> QED BY <1>17, <2>1 DEF Rollback
<1>18. ASSUME ClockTick \/ ClockSetBack PROVE \A g \in Handler : HandlerInv(g)'
  BY <1>18, Frame DEF ClockTick, ClockSetBack
<1>19. ASSUME Restart PROVE \A g \in Handler : HandlerInv(g)'
  BY <1>19
  DEF Restart, NoView, HandlerInv, KindInv, ViewInv, CheckedInv
<1>20. CASE UNCHANGED vars
  BY <1>20, Frame DEF vars
<1> QED
  BY <1>1, <1>2, <1>3, <1>4, <1>5, <1>6, <1>7, <1>8, <1>9, <1>10, <1>11, <1>12,
     <1>13, <1>14, <1>15, <1>16, <1>17, <1>18, <1>19, <1>20
  DEF Next, Step, Fault

-----------------------------------------------------------------------------
(* The invariant *)

\* The invariant is inductive.
LEMMA NextIInv == IInv /\ [Next]_vars => IInv'
  BY TypeStep, HandlerStep DEF IInv

\* What a handler has read and checked under the row lock stays true of the
\* committed tables until its transaction ends (Game.js:123).
THEOREM InvariantCorrect == Spec => []IInv
<1> QED BY InitIInv, NextIInv, PTL DEF Spec

\* Every variable keeps its type on every path of queries and errors.
THEOREM TypeCorrect == Spec => []TypeOK
<1>1. IInv => TypeOK
  BY DEF IInv
<1> QED BY InvariantCorrect, <1>1, PTL

\* At most one transaction of a room is between the lock of its row and its end:
\* the serialisation updateRoomTime is there for (Game.js:123).
THEOREM LockCorrect == Spec => []LockInv
<1>1. IInv => LockInv
  BY DEF IInv, HandlerInv, LockInv
<1> QED BY InvariantCorrect, <1>1, PTL

\* What a transaction decides from is what is committed (Game.js:125, MVCC).
THEOREM FreshViewCorrect == Spec => []FreshView
<1>1. IInv => FreshView
  BY DEF IInv, HandlerInv, ViewInv, FreshView
<1> QED BY InvariantCorrect, <1>1, PTL

\* The transactions of a room run one after the other under its row lock, for any
\* number of handlers, requests and connections (Game.js:125-135).
THEOREM SerializedCorrect == Spec => []Serialized
<1>1. LockInv /\ FreshView => Serialized
  BY DEF Serialized
<1> QED BY LockCorrect, FreshViewCorrect, <1>1, PTL

-----------------------------------------------------------------------------
(* The connections of the pool *)

Holders == {h \in Handler : pc[h] \in InTransaction \cup {"rollback"}}
Accounted == free + Cardinality(Holders) = PoolSize

\* One handler more holds a connection, or one less.
LEMMA HoldersCount ==
  /\ Cardinality(Holders) \in Nat
  /\ \A h \in Handler \ Holders : Cardinality(Holders \cup {h}) = Cardinality(Holders) + 1
  /\ \A h \in Holders : Cardinality(Holders \ {h}) = Cardinality(Holders) - 1
<1>1. IsFiniteSet(Holders)
  BY HandlerAssumption, FS_Subset DEF Holders
<1>2. ASSUME NEW h \in Handler \ Holders
      PROVE  Cardinality(Holders \cup {h}) = Cardinality(Holders) + 1
  BY <1>1, <1>2, FS_AddElement
<1>3. ASSUME NEW h \in Holders
      PROVE  Cardinality(Holders \ {h}) = Cardinality(Holders) - 1
  BY <1>1, <1>3, FS_RemoveElement
<1> QED BY <1>1, <1>2, <1>3, FS_CardinalityType

\* A step that leaves the connections alone: its handler holds one before and after
\* it, or neither.
LEMMA SameHolders ==
  ASSUME TypeOK, NEW h \in Handler, NEW q, pc' = [pc EXCEPT ![h] = q],
         h \in Holders <=> q \in InTransaction \cup {"rollback"}
  PROVE  Holders' = Holders
<1>1. \A g \in Handler : pc'[g] = IF g = h THEN q ELSE pc[g]
  BY DEF TypeOK
<1> QED BY <1>1 DEF Holders

\* Every path gives back what it took: the pool and the handlers share the connections.
LEMMA AccountedStep == TypeOK /\ Accounted /\ [Next]_vars => Accounted'
<1> SUFFICES ASSUME TypeOK, Accounted, [Next]_vars PROVE Accounted'
  OBVIOUS
<1> DEFINE Unchanged == UNCHANGED free /\ Holders' = Holders
<1>0. ASSUME Unchanged PROVE Accounted'
  BY <1>0 DEF Accounted
<1>a. free \in Int /\ PoolSize \in Nat
  BY PoolAssumption DEF TypeOK
<1>1. ASSUME NEW h \in Handler, NEW o \in Request, Receive(h, o) PROVE Unchanged
  BY <1>1, SameHolders DEF Receive, Holders, InTransaction
<1>2. ASSUME NEW h \in Handler, Loop(h) PROVE Unchanged
  BY <1>2, SameHolders DEF Loop, Holders, InTransaction
<1>3. ASSUME NEW h \in Handler, GetConnection(h) PROVE Accounted'
  <2>1. h \in Handler \ Holders /\ free' = free - 1
    BY <1>3 DEF GetConnection, Holders, InTransaction
  <2>2. Holders' = Holders \cup {h}
    <3>1. \A g \in Handler : pc'[g] = IF g = h THEN "lock" ELSE pc[g]
      BY <1>3 DEF GetConnection, TypeOK
    <3> QED BY <3>1 DEF Holders, InTransaction
  <2> QED BY <2>1, <2>2, <1>a, HoldersCount DEF Accounted
<1>4. ASSUME NEW h \in Handler, LockRoom(h) PROVE Unchanged
  BY <1>4, SameHolders DEF LockRoom, Holders, InTransaction
<1>5. ASSUME NEW h \in Handler, ReadClock(h) PROVE Unchanged
  <2>1. AfterClock[tx[h]] \in InTransaction
    BY DEF AfterClock, InTransaction, TypeOK
  <2> QED BY <1>5, <2>1, SameHolders DEF ReadClock, Holders, InTransaction
<1>6. ASSUME NEW h \in Handler, UpsertAdding(h) PROVE Unchanged
  BY <1>6, SameHolders DEF UpsertAdding, Holders, InTransaction
<1>7. ASSUME NEW h \in Handler, CountBought(h) PROVE Unchanged
  BY <1>7, SameHolders DEF CountBought, Holders, InTransaction
<1>8. ASSUME NEW h \in Handler, CheckTotal(h) PROVE Unchanged
  BY <1>8, SameHolders DEF CheckTotal, Holders, InTransaction
<1>9. ASSUME NEW h \in Handler, InsertBuying(h) PROVE Unchanged
  BY <1>9, SameHolders DEF InsertBuying, Holders, InTransaction
<1>10. ASSUME NEW h \in Handler, ReadTables(h) PROVE Unchanged
  BY <1>10, SameHolders DEF ReadTables, Holders, InTransaction
<1>11. ASSUME NEW h \in Handler, NEW q, h \in Holders, pc' = [pc EXCEPT ![h] = q],
              q \notin InTransaction \cup {"rollback"}, Release
       PROVE  Accounted'
  <2>1. free' = free + 1
    BY <1>11 DEF Release
  <2>2. Holders' = Holders \ {h}
    <3>1. \A g \in Handler : pc'[g] = IF g = h THEN q ELSE pc[g]
      BY <1>11 DEF TypeOK
    <3> QED BY <3>1, <1>11 DEF Holders
  <2> QED BY <1>11, <2>1, <2>2, <1>a, HoldersCount DEF Accounted
<1>12. ASSUME NEW h \in Handler, Commit(h) PROVE Accounted'
  <2>1. h \in Holders
    BY <1>12 DEF Commit, CommitWrites, Holders, InTransaction
  <2>2. AfterCommit[tx[h]] \in {"connect", "time"}
    BY DEF AfterCommit, TypeOK
  <2>3. AfterCommit[tx[h]] \notin InTransaction \cup {"rollback"}
    BY <2>2 DEF InTransaction
  <2> QED BY <1>12, <1>11, <2>1, <2>3 DEF Commit
<1>13. ASSUME NEW h \in Handler, Rollback(h) PROVE Accounted'
  <2>1. h \in Holders
    BY <1>13 DEF Rollback, Holders
  <2>2. PICK q \in {"idle", "answer"} : pc' = [pc EXCEPT ![h] = q]
    BY <1>13 DEF Rollback, Failed, End
  <2>3. q \notin InTransaction \cup {"rollback"}
    BY DEF InTransaction
  <2> QED BY <1>13, <1>11, <2>1, <2>2, <2>3 DEF Rollback
<1>14. ASSUME NEW h \in Handler, CommitAnswerLost(h) PROVE Unchanged
  BY <1>14, SameHolders DEF CommitAnswerLost, CommitWrites, Holders, InTransaction
<1>15. ASSUME NEW h \in Handler, SendStatus(h) \/ Answer(h) \/ ConnectError(h) PROVE Unchanged
  <2>1. UNCHANGED free /\ h \notin Holders
    BY <1>15 DEF SendStatus, Answer, ConnectError, Holders, InTransaction
  <2>2. PICK q \in {"idle", "answer"} : pc' = [pc EXCEPT ![h] = q]
    BY <1>15 DEF SendStatus, Answer, ConnectError, Failed, End
  <2>3. q \notin InTransaction \cup {"rollback"}
    BY DEF InTransaction
  <2> QED BY <2>1, <2>2, <2>3, SameHolders
<1>16. ASSUME NEW h \in Handler, QueryError(h) PROVE Unchanged
  BY <1>16, SameHolders DEF QueryError, Holders
<1>17. CASE Restart
  <2>1. Holders' = {} /\ free' = PoolSize
    BY <1>17 DEF Restart, Holders, InTransaction
  <2> QED BY <2>1, <1>a, FS_EmptySet DEF Accounted
<1>18. CASE ClockTick \/ ClockSetBack \/ UNCHANGED vars
  <2>1. UNCHANGED <<pc, free>>
    BY <1>18 DEF ClockTick, ClockSetBack, vars
  <2> QED BY <2>1 DEF Accounted, Holders
<1> QED
  BY <1>0, <1>1, <1>2, <1>3, <1>4, <1>5, <1>6, <1>7, <1>8, <1>9, <1>10, <1>12, <1>13,
     <1>14, <1>15, <1>16, <1>17, <1>18
  DEF Next, Step, Fault

\* No path of errors leaks a connection of the pool or releases one twice, for any
\* number of handlers and connections (Game.js:25, Game.js:36).
THEOREM ConnectionsCorrect == Spec => []ConnectionsAccounted
<1>1. Init => Accounted
  <2> SUFFICES ASSUME Init PROVE Accounted
    OBVIOUS
  <2>1. Holders = {} /\ free = PoolSize
    BY DEF Init, Holders, InTransaction
  <2> QED BY <2>1, PoolAssumption, FS_EmptySet DEF Accounted
<1>2. Accounted => ConnectionsAccounted
  BY DEF Accounted, ConnectionsAccounted, Holders
<1> QED BY TypeCorrect, AccountedStep, <1>1, <1>2, PTL DEF Spec

-----------------------------------------------------------------------------
(* The refinement *)

\* A COMMIT is one request of the abstract room, at the clock its transaction read.
LEMMA CommitImplements ==
  ASSUME IInv, NEW h \in Handler, CommitWrites(h)
  PROVE  RoomNext
<1> DEFINE c == clock[h]
<1>1. /\ pc[h] = "commit"
      /\ c \in Clock /\ Current(c) /\ NotPast(RequestedTime(h), c)
      /\ roomTime' = c
  BY DEF CommitWrites, IInv, HandlerInv, CheckedInv, Decided
<1>2. tx[h] \in {"add", "buy", "status"}
  BY DEF IInv, TypeOK
<1>3. CASE tx[h] = "add"
  <2>1. op[h].time \in ReqTime /\ op[h].isu \in Isu
    BY <1>3, RequestTypes DEF IInv, HandlerInv, KindInv
  <2>2. sum[h] = NewIsu(h)
    BY <1>1, <1>3 DEF IInv, HandlerInv, CheckedInv
  <2>3. adding[op[h].time] \in Nat /\ op[h].isu \in Nat
    BY <2>1, IsuAssumption DEF IInv, TypeOK, RoomTypeOK
  <2>4. sum[h] = adding[op[h].time] + op[h].isu
    BY <2>2, <2>3 DEF NewIsu
  <2>5. /\ adding' = [adding EXCEPT ![op[h].time] = sum[h]]
        /\ buying' = buying
    BY <1>3 DEF CommitWrites
  <2>6. AddIsu(c, op[h].time, op[h].isu)
    BY <1>1, <1>3, <2>4, <2>5 DEF AddIsu, MoveTime, RequestedTime
  <2> QED BY <1>1, <2>1, <2>6 DEF RoomNext
<1>4. CASE tx[h] = "buy"
  <2>1. op[h].time \in ReqTime /\ op[h].item \in Item /\ op[h].count \in Count
    BY <1>4, RequestTypes DEF IInv, HandlerInv, KindInv
  <2>2. /\ SeenAll(op[h].item, op[h].count)
        /\ Affordable(op[h].item, op[h].count, op[h].time)
    BY <1>1, <1>4 DEF IInv, HandlerInv, CheckedInv
  <2>3. adding' = adding /\ buying' = buying \cup {Bought(op[h])}
    BY <1>4 DEF CommitWrites
  <2>4. BuyItem(c, op[h].time, op[h].item, op[h].count)
    BY <1>1, <1>4, <2>2, <2>3 DEF BuyItem, MoveTime, RequestedTime, Bought
  <2> QED BY <1>1, <2>1, <2>4 DEF RoomNext
<1>5. CASE tx[h] = "status"
  <2>1. adding' = adding /\ buying' = buying
    BY <1>5 DEF CommitWrites
  <2>2. GetStatus(c)
    BY <1>1, <1>5, <2>1 DEF GetStatus, MoveTime, RequestedTime
  <2> QED BY <1>1, <2>2 DEF RoomNext
<1> QED BY <1>2, <1>3, <1>4, <1>5

\* Every other step leaves the room as it is.
LEMMA StepImplements == IInv /\ [Next]_vars => [RoomNext]_roomVars
<1> SUFFICES ASSUME IInv, [Next]_vars PROVE [RoomNext]_roomVars
  OBVIOUS
<1>1. ASSUME NEW h \in Handler, CommitWrites(h) PROVE RoomNext
  BY <1>1, CommitImplements
<1>2. CASE UNCHANGED dbVars
  BY <1>2 DEF dbVars, roomVars
<1>3. CASE \E h \in Handler : Commit(h) \/ CommitAnswerLost(h)
  BY <1>1, <1>3 DEF Commit, CommitAnswerLost
<1>4. CASE UNCHANGED vars
  BY <1>2, <1>4 DEF vars
<1>5. CASE ClockTick \/ ClockSetBack \/ Restart
  BY <1>2, <1>5 DEF ClockTick, ClockSetBack, Restart
<1>6. ASSUME NEW h \in Handler,
             \/ \E o \in Request : Receive(h, o)
             \/ Loop(h) \/ GetConnection(h) \/ LockRoom(h) \/ ReadClock(h)
             \/ UpsertAdding(h) \/ CountBought(h) \/ CheckTotal(h)
             \/ InsertBuying(h) \/ ReadTables(h) \/ SendStatus(h)
             \/ Answer(h) \/ Rollback(h) \/ QueryError(h) \/ ConnectError(h)
      PROVE  UNCHANGED dbVars
  BY <1>6
  DEF Receive, Loop, GetConnection, LockRoom, ReadClock, UpsertAdding, CountBought,
      CheckTotal, InsertBuying, ReadTables, SendStatus, Answer, Rollback, QueryError,
      ConnectError
<1> QED BY <1>2, <1>3, <1>4, <1>5, <1>6 DEF Next, Step, Fault

\* The transactions of Game.js, interleaved, failing and restarted in any way,
\* implement the room whose requests take effect one at a time.
THEOREM ImplementsRoom == Spec => RoomSpec
<1>1. Init => RoomInit
  BY DEF Init
<1> QED BY InvariantCorrect, StepImplements, <1>1, PTL DEF Spec, RoomSpec

\* So the tables of the running system have what every atomic room has: copies
\* numbered without gap, no debt once all is built, a time that never runs backwards,
\* a past that is final.
THEOREM BooksKept ==
  Spec => []OrdinalsContiguous /\ []Solvent /\ RoomTimeMonotone /\ PastFrozen
BY ImplementsRoom, RoomNumbering, RoomSolvent, RoomTimeNeverBack, RoomPastFrozen, PTL
-----------------------------------------------------------------------------
(* What a player was told has succeeded *)

\* The effect of a request is in these rows.
Has(add, buy, o) == /\ o.kind = "add" => add[o.time] >= o.isu
                    /\ o.kind = "buy" => Bought(o) \in buy

\* A handler that has committed its request runs getStatus, whose view shows the
\* effect of the request from the moment it reads the tables.
SuccessInv(h) ==
    ok[h] => /\ tx[h] = "status" /\ pc[h] # "idle"
             /\ op[h] \in AddReq \cup BuyReq
             /\ Has(adding, buying, op[h])
             /\ pc[h] \in {"commit", "time", "answer"} =>
                   Has(view[h].adding, view[h].buying, op[h])

SInv == IInv /\ \A h \in Handler : SuccessInv(h)

\* Nothing is ever taken out of the tables.
LEMMA TablesGrow ==
  ASSUME IInv, [Next]_vars
  PROVE  /\ buying \subseteq buying'
         /\ \A t \in ReqTime : adding[t] \in Nat /\ adding'[t] \in Nat /\ adding[t] <= adding'[t]
<1>1. adding \in [ReqTime -> Nat]
  BY DEF IInv, TypeOK, RoomTypeOK
<1>2. CASE \E c \in Clock, t \in ReqTime, isu \in Isu : AddIsu(c, t, isu)
  <2>1. PICK t \in ReqTime, isu \in Isu :
           adding' = [adding EXCEPT ![t] = @ + isu] /\ buying' = buying
    BY <1>2 DEF AddIsu
  <2>2. isu \in Nat
    BY IsuAssumption
  <2> QED BY <1>1, <2>1, <2>2
<1>3. CASE UNCHANGED adding /\ buying \subseteq buying'
  BY <1>1, <1>3
<1> QED
  BY StepImplements, <1>2, <1>3 DEF RoomNext, BuyItem, GetStatus, roomVars

\* What a request has done is never undone.
LEMMA EffectStays ==
  ASSUME IInv, [Next]_vars, NEW o \in AddReq \cup BuyReq, Has(adding, buying, o)
  PROVE  Has(adding', buying', o)
<1>1. CASE o \in AddReq
  <2>1. o.time \in ReqTime /\ o.isu \in Nat /\ o.kind = "add"
    BY <1>1, RequestTypes, IsuAssumption
  <2> QED BY <2>1, TablesGrow DEF Has
<1>2. CASE o \in BuyReq
  BY <1>2, RequestTypes, TablesGrow DEF Has
<1> QED BY <1>1, <1>2

\* COMMIT leaves the effect of its request in the tables.
LEMMA CommitHas ==
  ASSUME IInv, NEW h \in Handler, CommitWrites(h), tx[h] # "status"
  PROVE  Has(adding', buying', op[h])
<1> USE DEF IInv, HandlerInv
<1>1. tx[h] \in {"add", "buy"}
  BY DEF TypeOK
<1>2. CASE tx[h] = "add"
  <2>1. /\ op[h].kind = "add" /\ op[h].time \in ReqTime /\ op[h].isu \in Nat
        /\ adding[op[h].time] \in Nat
    BY <1>2, RequestTypes, IsuAssumption DEF KindInv, TypeOK, RoomTypeOK
  <2>2. adding'[op[h].time] = op[h].isu + adding[op[h].time]
    BY <1>2, <2>1 DEF CommitWrites, CheckedInv, NewIsu, TypeOK, RoomTypeOK
  <2> QED BY <2>1, <2>2 DEF Has
<1>3. CASE tx[h] = "buy"
  <2>1. op[h].kind = "buy"
    BY <1>3, RequestTypes DEF KindInv
  <2> QED BY <1>3, <2>1 DEF CommitWrites, Has
<1> QED BY <1>1, <1>2, <1>3

\* Every step shows and keeps what has been committed.
LEMMA SuccessStep == SInv /\ [Next]_vars => \A h \in Handler : SuccessInv(h)'
<1> SUFFICES ASSUME SInv, [Next]_vars, NEW g \in Handler, ok'[g] PROVE SuccessInv(g)'
  BY DEF SuccessInv
<1>0. TypeOK /\ HandlerInv(g) /\ SuccessInv(g) /\ IInv
  BY DEF SInv, IInv
<1> USE DEF SuccessInv
<1>a. ASSUME ok'[g] = ok[g], op'[g] = op[g], tx'[g] = tx[g], pc'[g] # "idle",
             pc'[g] \in {"commit", "time", "answer"} =>
                \/ view'[g] = Committed
                \/ pc[g] \in {"commit", "time", "answer"} /\ view'[g] = view[g]
      PROVE  SuccessInv(g)'
  <2>1. /\ tx[g] = "status" /\ op[g] \in AddReq \cup BuyReq
        /\ Has(adding, buying, op[g])
    BY <1>0, <1>a
  <2>2. Has(adding', buying', op[g])
    BY <1>0, <2>1, EffectStays
  <2>3. pc'[g] \in {"commit", "time", "answer"} =>
           Has(view'[g].adding, view'[g].buying, op[g])
    BY <1>0, <1>a, <2>1 DEF Committed
  <2> QED BY <1>a, <2>1, <2>2, <2>3
<1>b. ASSUME UNCHANGED <<pc[g], op[g], tx[g], ok[g], view[g]>> PROVE SuccessInv(g)'
  BY <1>0, <1>a, <1>b
<1>1. ASSUME NEW h \in Handler, NEW o \in Request, Receive(h, o) PROVE SuccessInv(g)'
  <2>1. ok' = ok /\ g # h
    BY <1>0, <1>1 DEF Receive
  <2> QED BY <1>1, <2>1, <1>b, <1>0 DEF Receive, TypeOK
<1>2. ASSUME NEW h \in Handler, Loop(h) PROVE SuccessInv(g)'
  <2>1. ok' = ok /\ g # h
    BY <1>0, <1>2 DEF Loop, txVars
  <2> QED BY <1>2, <2>1, <1>b, <1>0 DEF Loop, TypeOK, txVars
<1>3. ASSUME NEW h \in Handler,
             GetConnection(h) \/ LockRoom(h) \/ ReadClock(h) \/ CountBought(h) \/ QueryError(h)
      PROVE  SuccessInv(g)'
  <2>1. CASE g = h
    <3>1. ok' = ok /\ op' = op /\ tx' = tx
      BY <1>3 DEF GetConnection, LockRoom, ReadClock, CountBought, QueryError, txVars
    <3>2. pc'[g] \notin {"idle", "commit", "time", "answer"}
      BY <1>0, <1>3, <2>1
      DEF GetConnection, LockRoom, ReadClock, AfterClock, CountBought, QueryError, TypeOK
    <3> QED BY <3>1, <3>2, <1>a
  <2>2. CASE g # h
    BY <1>3, <2>2, <1>b, <1>0
    DEF GetConnection, LockRoom, ReadClock, CountBought, QueryError, TypeOK, txVars
  <2> QED BY <2>1, <2>2
<1>4. ASSUME NEW h \in Handler, UpsertAdding(h) \/ CheckTotal(h) \/ InsertBuying(h)
      PROVE  SuccessInv(g)'
  <2>1. ok' = ok /\ g # h
    BY <1>0, <1>4 DEF UpsertAdding, CheckTotal, InsertBuying, HandlerInv, KindInv, txVars
  <2> QED BY <1>4, <2>1, <1>b, <1>0
          DEF UpsertAdding, CheckTotal, InsertBuying, TypeOK, txVars
<1>5. ASSUME NEW h \in Handler, ReadTables(h) PROVE SuccessInv(g)'
  <2>1. CASE g = h
    <3>1. View(g) = Committed
      BY <1>0, <1>5, <2>1 DEF ReadTables, View, HandlerInv, ViewInv, UnderLock, InTransaction
    <3>2. ok' = ok /\ op' = op /\ tx' = tx
      BY <1>5 DEF ReadTables
    <3>3. pc'[g] = "commit" /\ view'[g] = Committed
      BY <1>0, <1>5, <2>1, <3>1 DEF ReadTables, TypeOK
    <3>4. ok'[g] = ok[g] /\ op'[g] = op[g] /\ tx'[g] = tx[g] /\ pc'[g] # "idle"
      BY <3>2, <3>3
    <3> QED BY <3>3, <3>4, <1>a
  <2>2. CASE g # h
    BY <1>5, <2>2, <1>b, <1>0 DEF ReadTables, TypeOK
  <2> QED BY <2>1, <2>2
<1>6. ASSUME NEW h \in Handler, Commit(h) PROVE SuccessInv(g)'
  <2>1. CASE tx[h] = "status"
    <3>1. UNCHANGED <<op, tx, view, ok>>
      BY <1>6, <2>1 DEF Commit
    <3>2. CASE g = h
      <4>1. pc[g] = "commit" /\ pc'[g] = "time"
        BY <1>0, <1>6, <2>1, <3>2 DEF Commit, CommitWrites, AfterCommit, TypeOK
      <4> QED BY <3>1, <4>1, <1>a
    <3>3. CASE g # h
      <4>1. pc'[g] = pc[g]
        BY <1>0, <1>6, <3>3 DEF Commit, TypeOK
      <4> QED BY <3>1, <4>1, <1>b
    <3> QED BY <3>2, <3>3
  <2>2. CASE tx[h] # "status"
    <3>1. /\ tx' = [tx EXCEPT ![h] = "status"]
          /\ ok' = [ok EXCEPT ![h] = TRUE]
          /\ pc' = [pc EXCEPT ![h] = "connect"]
          /\ view' = [view EXCEPT ![h] = NoView]
          /\ op' = op
      <4>1. AfterCommit[tx[h]] = "connect"
        BY <1>0, <2>2 DEF AfterCommit, TypeOK
      <4> QED BY <1>6, <2>2, <4>1 DEF Commit, EndTransaction
    <3>2. CASE g = h
      <4>1. op[g] \in AddReq \cup BuyReq
        BY <1>0, <2>2, <3>2 DEF HandlerInv, KindInv, TypeOK
      <4>2. Has(adding', buying', op[g])
        BY <1>0, <1>6, <2>2, <3>2, CommitHas DEF Commit
      <4> QED BY <1>0, <3>1, <3>2, <4>1, <4>2 DEF TypeOK
    <3>3. CASE g # h
      BY <1>0, <3>1, <3>3, <1>b DEF TypeOK
    <3> QED BY <3>2, <3>3
  <2> QED BY <2>1, <2>2
<1>7. ASSUME NEW h \in Handler, CommitAnswerLost(h) PROVE SuccessInv(g)'
  <2>1. UNCHANGED txVars /\ pc' = [pc EXCEPT ![h] = "rollback"]
    BY <1>7 DEF CommitAnswerLost
  <2>2. CASE g = h
    BY <1>0, <2>1, <2>2, <1>a DEF TypeOK, txVars
  <2>3. CASE g # h
    BY <1>0, <2>1, <2>3, <1>b DEF TypeOK, txVars
  <2> QED BY <2>2, <2>3
<1>c. ASSUME NEW h \in Handler, End(h) PROVE SuccessInv(g)'
  <2>1. g # h
    BY <1>0, <1>c DEF End, TypeOK
  <2> QED BY <1>0, <1>b, <1>c, <2>1 DEF End, EndTransaction, TypeOK
<1>d. ASSUME NEW h \in Handler, Failed(h) PROVE SuccessInv(g)'
  <2>1. CASE tx[h] = "status"
    BY <1>c, <1>d, <2>1 DEF Failed
  <2>2. CASE tx[h] # "status"
    <3>1. g # h
      BY <1>0, <1>d, <2>2 DEF Failed
    <3> QED BY <1>0, <1>b, <1>d, <2>2, <3>1 DEF Failed, EndTransaction, TypeOK
  <2> QED BY <2>1, <2>2
<1>8. ASSUME NEW h \in Handler, SendStatus(h) PROVE SuccessInv(g)'
  <2>1. CASE op[h] = Tick
    BY <1>c, <1>8, <2>1 DEF SendStatus
  <2>2. CASE op[h] # Tick
    <3>1. pc[h] = "time" /\ pc' = [pc EXCEPT ![h] = "answer"] /\ UNCHANGED txVars
      BY <1>8, <2>2 DEF SendStatus
    <3>2. CASE g = h
      BY <1>0, <3>1, <3>2, <1>a DEF TypeOK, txVars
    <3>3. CASE g # h
      BY <1>0, <3>1, <3>3, <1>b DEF TypeOK, txVars
    <3> QED BY <3>2, <3>3
  <2> QED BY <2>1, <2>2
<1>9. ASSUME NEW h \in Handler, Answer(h) \/ ConnectError(h) \/ Rollback(h)
      PROVE  SuccessInv(g)'
  BY <1>9, <1>c, <1>d DEF Answer, ConnectError, Rollback
<1>10. CASE Restart
  BY <1>10 DEF Restart
<1>11. CASE ClockTick \/ ClockSetBack \/ UNCHANGED vars
  <2>1. UNCHANGED <<pc, txVars>>
    BY <1>11 DEF ClockTick, ClockSetBack, vars
  <2> QED BY <2>1, <1>b DEF txVars
<1> QED
  BY <1>1, <1>2, <1>3, <1>4, <1>5, <1>6, <1>7, <1>8, <1>9, <1>10, <1>11
  DEF SInv, Next, Step, Fault
-----------------------------------------------------------------------------
(* Nothing that was answered is lost *)

\* What is still to be answered counts as well: two additions to the same time may
\* both be committed before either is answered.  f[h] units for every h in S:
Units(S, f) == {u \in S \X Nat : u[2] \in 1 .. f[u[1]]}

\* The additions to time t that have been committed and not been answered.
Unanswered(t) == {h \in Handler : ok[h] /\ op[h].kind = "add" /\ op[h].time = t}
Amount == [h \in Handler |-> op[h].isu]
Owed(t) == Cardinality(Units(Unanswered(t), Amount))

PaidInv == /\ ackedBuys \subseteq buying
           /\ \A t \in ReqTime : ackedIsu[t] + Owed(t) <= adding[t]

\* Finitely many amounts make a finite sum.
LEMMA UnitsFinite ==
  ASSUME NEW S, IsFiniteSet(S), NEW f, NEW n \in Nat, \A h \in S : f[h] \in Nat /\ f[h] <= n
  PROVE  IsFiniteSet(Units(S, f)) /\ Cardinality(Units(S, f)) \in Nat
<1>1. IsFiniteSet(1 .. n)
  BY FS_Interval
<1>2. IsFiniteSet(S \X (1 .. n))
  BY <1>1, FS_Product
<1>3. Units(S, f) \subseteq S \X (1 .. n)
  BY DEF Units
<1>4. IsFiniteSet(Units(S, f))
  BY <1>2, <1>3, FS_Subset
<1> QED BY <1>4, FS_CardinalityType

\* Less is owed to a part of them.
LEMMA UnitsSubset ==
  ASSUME NEW S, IsFiniteSet(S), NEW f, NEW n \in Nat, \A h \in S : f[h] \in Nat /\ f[h] <= n,
         NEW T \in SUBSET S, NEW e, \A h \in T : e[h] = f[h]
  PROVE  /\ Cardinality(Units(T, e)) \in Nat
         /\ Cardinality(Units(T, e)) <= Cardinality(Units(S, f))
<1>1. Units(T, e) \subseteq Units(S, f)
  BY DEF Units
<1>2. IsFiniteSet(Units(S, f))
  BY UnitsFinite
<1>3. /\ IsFiniteSet(Units(T, e))
      /\ Cardinality(Units(T, e)) <= Cardinality(Units(S, f))
  BY <1>1, <1>2, FS_Subset
<1> QED BY <1>3, FS_CardinalityType

\* One of them more makes the sum greater by its amount.
LEMMA UnitsOneMore ==
  ASSUME NEW S, IsFiniteSet(S), NEW f, NEW n \in Nat, \A h \in S : f[h] \in Nat /\ f[h] <= n,
         NEW x \in S, NEW e, \A h \in S \ {x} : e[h] = f[h]
  PROVE  Cardinality(Units(S, f)) = Cardinality(Units(S \ {x}, e)) + f[x]
<1> DEFINE A == Units(S \ {x}, e)
           B == {x} \X (1 .. f[x])
<1>1. f[x] \in Nat
  OBVIOUS
<1>2. Units(S, f) = A \cup B
  <2>1. ASSUME NEW u \in Units(S, f) PROVE u \in A \cup B
    BY <2>1 DEF Units
  <2>2. ASSUME NEW u \in A PROVE u \in Units(S, f)
    BY <2>2 DEF Units
  <2>3. ASSUME NEW u \in B PROVE u \in Units(S, f)
    BY <2>3 DEF Units
  <2> QED BY <2>1, <2>2, <2>3
<1>3. A \cap B = {}
  BY DEF Units
<1>4. IsFiniteSet(A)
  <2>1. A \subseteq Units(S, f)
    BY <1>2
  <2>2. IsFiniteSet(Units(S, f))
    BY UnitsFinite
  <2> QED BY <2>1, <2>2, FS_Subset
<1>5. IsFiniteSet(B) /\ Cardinality(B) = f[x]
  <2>1. IsFiniteSet(1 .. f[x]) /\ Cardinality(1 .. f[x]) = f[x]
    <3>1. ASSUME NEW k \in Nat PROVE IsFiniteSet(1 .. k) /\ Cardinality(1 .. k) = k
      BY FS_Interval
    <3> QED BY <1>1, <3>1
  <2>2. IsFiniteSet({x}) /\ Cardinality({x}) = 1
    BY FS_Singleton
  <2>3. IsFiniteSet(B) /\ Cardinality(B) = 1 * f[x]
    BY <2>1, <2>2, FS_Product
  <2> QED BY <1>1, <2>3
<1>6. Cardinality(A \cup B) = Cardinality(A) + Cardinality(B) - Cardinality(A \cap B)
  BY <1>4, <1>5, FS_Union
<1>7. Cardinality(A \cap B) = 0 /\ Cardinality(A) \in Nat
  BY <1>3, <1>4, FS_EmptySet, FS_CardinalityType
<1> QED BY <1>1, <1>2, <1>5, <1>6, <1>7

\* What is owed is an amount, and none of it exceeds what is in the tables.
LEMMA OwedType ==
  ASSUME SInv, NEW t \in ReqTime
  PROVE  /\ IsFiniteSet(Unanswered(t)) /\ adding[t] \in Nat
         /\ \A h \in Unanswered(t) : Amount[h] \in Nat /\ Amount[h] <= adding[t]
<1>1. IsFiniteSet(Unanswered(t))
  BY HandlerAssumption, FS_Subset DEF Unanswered
<1>2. adding[t] \in Nat
  BY DEF SInv, IInv, TypeOK, RoomTypeOK
<1>3. ASSUME NEW h \in Unanswered(t) PROVE Amount[h] \in Nat /\ Amount[h] <= adding[t]
  <2>1. /\ h \in Handler /\ ok[h] /\ op[h].kind = "add" /\ op[h].time = t
        /\ op[h] \in AddReq \cup BuyReq /\ Has(adding, buying, op[h])
    BY DEF SInv, SuccessInv, Unanswered
  <2>2. op[h].isu \in Nat
    BY <2>1, RequestTypes, IsuAssumption
  <2> QED BY <1>2, <2>1, <2>2 DEF Has, Amount
<1> QED BY <1>1, <1>2, <1>3

\* So it is after the step.
LEMMA OwedTypeNext ==
  SInv' => \A t \in ReqTime :
              /\ IsFiniteSet(Unanswered(t)') /\ adding'[t] \in Nat
              /\ \A h \in Unanswered(t)' : Amount'[h] \in Nat /\ Amount'[h] <= adding'[t]
<1> DEFINE Bounded == \A t \in ReqTime :
              /\ IsFiniteSet(Unanswered(t)) /\ adding[t] \in Nat
              /\ \A h \in Unanswered(t) : Amount[h] \in Nat /\ Amount[h] <= adding[t]
<1>1. SInv => Bounded
  BY OwedType
<1>2. SInv' => Bounded'
  <2> HIDE DEF Bounded
  <2> QED BY <1>1, PTL
<1> QED BY <1>2

\* A step after which no more is to be answered than before.
LEMMA PaidFrame ==
  ASSUME SInv, PaidInv, [Next]_vars, UNCHANGED <<ackedIsu, ackedBuys>>,
         \A h \in Handler : ok'[h] /\ op'[h].kind = "add" => ok[h] /\ op'[h] = op[h]
  PROVE  PaidInv'
<1>1. ackedBuys' \subseteq buying'
  BY TablesGrow DEF SInv, PaidInv
<1>2. ASSUME NEW t \in ReqTime PROVE ackedIsu'[t] + Owed(t)' <= adding'[t]
  <2>1. /\ Unanswered(t)' \subseteq Unanswered(t)
        /\ \A h \in Unanswered(t)' : Amount'[h] = Amount[h]
    BY DEF Unanswered, Amount
  <2>2. Owed(t)' \in Nat /\ Owed(t)' <= Owed(t)
    BY <2>1, OwedType, UnitsSubset DEF Owed
  <2>3. Owed(t) \in Nat
    BY OwedType, UnitsFinite DEF Owed
  <2>4. adding[t] \in Nat /\ adding'[t] \in Nat /\ adding[t] <= adding'[t] /\ ackedIsu[t] \in Nat
    BY TablesGrow DEF SInv, IInv, TypeOK
  <2> QED BY <2>2, <2>3, <2>4 DEF PaidInv
<1> QED BY <1>1, <1>2 DEF PaidInv

\* Every step keeps what was answered, and what is owed, in the tables.
LEMMA PaidStep ==
  ASSUME SInv, SInv', PaidInv, [Next]_vars
  PROVE  PaidInv'
<1>0. TypeOK /\ IInv /\ IInv'
  BY DEF SInv, IInv
<1>a. ASSUME UNCHANGED <<ackedIsu, ackedBuys, ok>>,
             \A h \in Handler : ok[h] => op'[h] = op[h]
      PROVE  PaidInv'
  BY <1>a, PaidFrame
<1>1. ASSUME NEW h \in Handler, NEW o \in Request, Receive(h, o) PROVE PaidInv'
  <2>1. ~ ok[h]
    BY <1>1 DEF SInv, SuccessInv, Receive
  <2> QED BY <1>0, <1>1, <1>a, <2>1 DEF Receive, TypeOK
<1>2. ASSUME NEW h \in Handler,
             \/ Loop(h) \/ GetConnection(h) \/ LockRoom(h) \/ ReadClock(h) \/ UpsertAdding(h)
             \/ CountBought(h) \/ CheckTotal(h) \/ InsertBuying(h) \/ ReadTables(h)
             \/ CommitAnswerLost(h) \/ QueryError(h)
      PROVE  PaidInv'
  <2>1. UNCHANGED <<op, ok, history>>
    BY <1>2
    DEF Loop, GetConnection, LockRoom, ReadClock, UpsertAdding, CountBought, CheckTotal,
        InsertBuying, ReadTables, CommitAnswerLost, QueryError, txVars
  <2> QED BY <2>1, <1>a DEF history
<1>3. ASSUME NEW h \in Handler, Commit(h) PROVE PaidInv'
  <2>1. UNCHANGED <<op, ackedIsu, ackedBuys>>
    BY <1>3 DEF Commit, history
  <2>2. CASE tx[h] = "status"
    BY <1>3, <1>a, <2>1, <2>2 DEF Commit
  <2>3. CASE tx[h] = "buy"
    <3>1. ok' = [ok EXCEPT ![h] = TRUE] /\ op[h].kind = "buy"
      BY <1>3, <1>0, <2>3, RequestTypes DEF Commit, IInv, HandlerInv, KindInv
    <3> QED BY <1>0, <2>1, <3>1, PaidFrame DEF TypeOK
  <2>4. CASE tx[h] = "add"
    <3> DEFINE t0 == op[h].time
    <3>1. /\ ok' = [ok EXCEPT ![h] = TRUE] /\ ~ ok[h]
          /\ op[h].kind = "add" /\ t0 \in ReqTime /\ op[h].isu \in Nat
      BY <1>3, <1>0, <2>4, RequestTypes, IsuAssumption
      DEF Commit, SInv, SuccessInv, IInv, HandlerInv, KindInv
    <3>2. /\ adding' = [adding EXCEPT ![t0] = op[h].isu + adding[t0]]
          /\ buying' = buying
      BY <1>3, <1>0, <2>4 DEF Commit, CommitWrites, IInv, HandlerInv, CheckedInv, NewIsu
    <3>3. /\ adding \in [ReqTime -> Nat] /\ ackedIsu \in [ReqTime -> Nat]
      BY <1>0 DEF TypeOK, RoomTypeOK
    <3>4. ASSUME NEW t \in ReqTime PROVE ackedIsu'[t] + Owed(t)' <= adding'[t]
      <4>1. Owed(t) \in Nat
        BY OwedType, UnitsFinite DEF Owed
      <4>2. \A g \in Handler : ok'[g] = IF g = h THEN TRUE ELSE ok[g]
        BY <1>0, <3>1 DEF TypeOK
      <4>3. CASE t = t0
        <5>1. Unanswered(t)' = Unanswered(t) \cup {h} /\ h \notin Unanswered(t)
          BY <2>1, <3>1, <4>2, <4>3 DEF Unanswered
        <5>2. Amount' = Amount /\ Amount[h] = op[h].isu
          BY <2>1 DEF Amount
        <5>3. Unanswered(t)' \ {h} = Unanswered(t)
          BY <5>1
        <5>4. Owed(t)' = Owed(t) + op[h].isu
          <6> DEFINE S == Unanswered(t)'
                     f == Amount'
                     n == adding'[t]
          <6>1. /\ IsFiniteSet(S) /\ n \in Nat
                /\ \A g \in S : f[g] \in Nat /\ f[g] <= n
            BY OwedTypeNext
          <6>2. h \in S
            BY <5>1
          <6> HIDE DEF S, f, n
          <6>3. Cardinality(Units(S, f)) = Cardinality(Units(S \ {h}, f)) + f[h]
            BY <6>1, <6>2, UnitsOneMore
          <6> QED BY <6>3, <5>2, <5>3 DEF Owed, S, f
        <5>5. ackedIsu[t] + Owed(t) <= adding[t]
          BY DEF PaidInv
        <5> QED BY <2>1, <3>1, <3>2, <3>3, <4>1, <4>3, <5>4, <5>5
      <4>4. CASE t # t0
        <5>1. Unanswered(t)' = Unanswered(t) /\ Amount' = Amount
          BY <2>1, <4>2, <4>4 DEF Unanswered, Amount
        <5>2. Owed(t)' = Owed(t)
          BY <5>1 DEF Owed
        <5> QED BY <2>1, <3>2, <3>3, <4>4, <5>2 DEF PaidInv
      <4> QED BY <4>3, <4>4
    <3> QED BY <2>1, <3>2, <3>4 DEF PaidInv
  <2> QED BY <1>0, <2>2, <2>3, <2>4 DEF TypeOK
<1>b. ASSUME NEW h \in Handler, End(h), UNCHANGED <<ackedIsu, ackedBuys>> PROVE PaidInv'
  BY <1>0, <1>b, PaidFrame DEF End, Tick, TypeOK
<1>c. ASSUME NEW h \in Handler, Failed(h), UNCHANGED <<ackedIsu, ackedBuys>> PROVE PaidInv'
  BY <1>a, <1>b, <1>c DEF Failed
<1>4. ASSUME NEW h \in Handler, SendStatus(h) \/ ConnectError(h) \/ Rollback(h)
      PROVE  PaidInv'
  <2>1. UNCHANGED <<ackedIsu, ackedBuys>>
    BY <1>4 DEF SendStatus, ConnectError, Rollback, history
  <2>2. End(h) \/ Failed(h) \/ UNCHANGED txVars
    BY <1>4 DEF SendStatus, ConnectError, Rollback
  <2>3. CASE UNCHANGED txVars
    BY <1>a, <2>1, <2>3 DEF txVars
  <2> QED BY <1>b, <1>c, <2>1, <2>2, <2>3
<1>5. ASSUME NEW h \in Handler, Answer(h) PROVE PaidInv'
  <2>1. /\ ok' = [ok EXCEPT ![h] = FALSE] /\ op' = [op EXCEPT ![h] = Tick]
        /\ UNCHANGED <<adding, buying>>
    BY <1>5 DEF Answer, End, dbVars
  <2>2. ok[h] => Has(adding, buying, op[h]) /\ op[h] \in AddReq \cup BuyReq
    BY DEF SInv, SuccessInv
  <2>3. ackedBuys' \subseteq buying'
    BY <1>5, <2>1, <2>2 DEF Answer, PaidInv, Has
  <2>4. ASSUME NEW t \in ReqTime PROVE ackedIsu'[t] + Owed(t)' <= adding'[t]
    <3>1. /\ \A g \in Handler : /\ ok'[g] = IF g = h THEN FALSE ELSE ok[g]
                                /\ g # h => op'[g] = op[g]
          /\ ackedIsu \in [ReqTime -> Nat] /\ adding[t] \in Nat
      BY <1>0, <2>1 DEF TypeOK, RoomTypeOK
    <3>2. Unanswered(t)' = Unanswered(t) \ {h}
      BY <3>1 DEF Unanswered
    <3>3. \A g \in Unanswered(t) \ {h} : Amount'[g] = Amount[g]
      BY <3>1 DEF Unanswered, Amount
    <3>4. Owed(t) \in Nat
      BY OwedType, UnitsFinite DEF Owed
    <3>5. CASE h \in Unanswered(t)
      <4>1. ackedIsu'[t] = ackedIsu[t] + op[h].isu
        BY <1>5, <3>1, <3>5 DEF Answer, Unanswered
      <4>2. Owed(t) = Owed(t)' + op[h].isu
        <5>1. Cardinality(Units(Unanswered(t), Amount))
                = Cardinality(Units(Unanswered(t) \ {h}, Amount')) + Amount[h]
          BY <3>3, <3>5, OwedType, UnitsOneMore
        <5>2. Amount[h] = op[h].isu
          BY DEF Amount
        <5> QED BY <3>2, <5>1, <5>2 DEF Owed
      <4>3. op[h].isu \in Nat
        BY <3>5, OwedType DEF Amount, Unanswered
      <4>4. Owed(t)' \in Nat
        BY <3>2, <3>3, OwedType, UnitsSubset DEF Owed
      <4> QED BY <2>1, <3>1, <4>1, <4>2, <4>3, <4>4 DEF PaidInv
    <3>6. CASE h \notin Unanswered(t)
      <4>1. ackedIsu'[t] = ackedIsu[t]
        BY <1>5, <3>1, <3>6 DEF Answer, Unanswered
      <4>2. Owed(t)' = Owed(t)
        <5>1. Owed(t)' \in Nat /\ Owed(t)' <= Owed(t)
          BY <3>2, <3>3, OwedType, UnitsSubset DEF Owed
        <5>2. Units(Unanswered(t), Amount) = Units(Unanswered(t), Amount')
          BY <3>3, <3>6 DEF Units
        <5>3. Unanswered(t)' = Unanswered(t)
          BY <3>2, <3>6
        <5> QED BY <5>2, <5>3 DEF Owed
      <4> QED BY <2>1, <4>1, <4>2 DEF PaidInv
    <3> QED BY <3>5, <3>6
  <2> QED BY <2>3, <2>4 DEF PaidInv
<1>6. CASE Restart
  BY <1>6, PaidFrame DEF Restart, history
<1>7. CASE ClockTick \/ ClockSetBack \/ UNCHANGED vars
  BY <1>7, <1>a DEF ClockTick, ClockSetBack, vars, txVars, history
<1> QED BY <1>1, <1>2, <1>3, <1>4, <1>5, <1>6, <1>7 DEF Next, Step, Fault

\* What a player was told has succeeded is in the tables for good, and a status that
\* shows it went first, however requests overlap and fail (index.js:56).
THEOREM SuccessKeptCorrect == Spec => []SuccessKept
<1>1. Init => SInv /\ PaidInv
  <2> SUFFICES ASSUME Init PROVE SInv /\ PaidInv
    OBVIOUS
  <2>1. SInv
    BY InitIInv DEF Init, SInv, SuccessInv
  <2>2. ASSUME NEW t \in ReqTime PROVE ackedIsu[t] + Owed(t) <= adding[t]
    <3>1. Unanswered(t) = {}
      BY DEF Init, Unanswered
    <3>2. Units({}, Amount) = {}
      BY DEF Units
    <3>3. Owed(t) = 0
      BY <3>1, <3>2, FS_EmptySet DEF Owed
    <3> QED BY <3>3 DEF Init, RoomInit
  <2> QED BY <2>1, <2>2 DEF Init, PaidInv
<1>2. SInv /\ [Next]_vars => SInv'
  BY NextIInv, SuccessStep DEF SInv
<1>3. SInv /\ SInv' /\ PaidInv /\ [Next]_vars => PaidInv'
  BY PaidStep
<1>4. SInv /\ PaidInv => SuccessKept
  <2> SUFFICES ASSUME SInv, PaidInv PROVE AckedKept /\ AnsweredAfterStatus
    BY DEF SuccessKept
  <2>1. AckedKept
    <3>1. ASSUME NEW t \in ReqTime PROVE ackedIsu[t] <= adding[t]
      <4>1. Owed(t) \in Nat /\ ackedIsu[t] \in Nat /\ adding[t] \in Nat
        BY OwedType, UnitsFinite DEF Owed, SInv, IInv, TypeOK
      <4> QED BY <4>1 DEF PaidInv
    <3> QED BY <3>1 DEF AckedKept, PaidInv
  <2>2. AnsweredAfterStatus
    <3> SUFFICES ASSUME NEW h \in Handler, pc[h] = "answer", ok[h]
                 PROVE  CASE op[h].kind = "add" ->
                               view[h].adding[op[h].time] >= op[h].isu
                          [] op[h].kind = "buy" -> Bought(op[h]) \in view[h].buying
      BY DEF AnsweredAfterStatus
    <3>1. Has(view[h].adding, view[h].buying, op[h]) /\ op[h] \in AddReq \cup BuyReq
      BY DEF SInv, SuccessInv
    <3> QED BY <3>1, RequestTypes DEF Has
  <2> QED BY <2>1, <2>2
<1> QED BY <1>1, <1>2, <1>3, <1>4, PTL DEF Spec

-----------------------------------------------------------------------------
(* /initialize: players may go on while it empties the tables. *)

\* The tables, whatever has been deleted from them.
RowsInv == RoomTypeOK /\ NumberingInv /\ BoughtRows(buying)

\* There is no debt but between the first TRUNCATE of a caller and its second, which
\* deletes the purchases.  A call that failed may have left some.
HalfDone(c) == truncated[c] = 1
DebtInv ==
    /\ truncated \in [Caller -> 0 .. 3] /\ failed \in BOOLEAN
    /\ ~ failed /\ (\A c \in Caller : ~ HalfDone(c)) => Solvent

InitializeInv == RowsInv /\ DebtInv

\* The three tables, in their order.
LEMMA Order ==
    /\ Len(Tables) = 3
    /\ Tables[1] = "adding" /\ Tables[2] = "buying" /\ Tables[3] = "room_time"
BY DEF Tables

\* A room without rows has its types and no debt.
LEMMA NothingBought ==
    RoomTypeOK /\ buying = {} => RowsInv /\ Solvent
<1> SUFFICES ASSUME RoomTypeOK, buying = {} PROVE RowsInv /\ Solvent
  OBVIOUS
<1>1. NumberingInv
  <2>1. IsFiniteSet(buying)
    BY FS_EmptySet
  <2>2. ASSUME NEW i \in Item
        PROVE  {b.ordinal : b \in {x \in buying : x.item = i}} = 1 .. CountBuying(buying, i)
    <3>1. {x \in buying : x.item = i} = {}
      OBVIOUS
    <3>2. CountBuying(buying, i) = 0
      BY <3>1, FS_EmptySet DEF CountBuying
    <3> QED BY <3>1, <3>2
  <2> QED BY <2>1, <2>2 DEF NumberingInv, OrdinalsContiguous
<1>2. adding \in [ReqTime -> Nat]
  BY DEF RoomTypeOK
<1> QED BY <1>1, <1>2, NothingOwed DEF RowsInv, BoughtRows

\* A request keeps the rows, and lets no debt arise.
LEMMA RequestStep == InitializeInv /\ PlayerRequest => InitializeInv'
<1> SUFFICES ASSUME InitializeInv, PlayerRequest PROVE InitializeInv'
  OBVIOUS
<1>1. RoomNext /\ truncated' = truncated /\ failed' = failed
  BY DEF PlayerRequest, RoomNext
<1>2. RoomTypeOK' /\ NumberingInv'
  BY <1>1, RoomTypeStep, NumberingStep DEF InitializeInv, RowsInv
<1>3. BoughtRows(buying')
  <2>1. CASE buying' = buying
    BY <2>1 DEF InitializeInv, RowsInv
  <2>2. ASSUME NEW c \in Clock, NEW t \in ReqTime, NEW i \in Item, NEW n \in Count,
               BuyItem(c, t, i, n)
        PROVE  BoughtRows(buying')
    <3> DEFINE row == [item |-> i, ordinal |-> NextOrdinal(n), time |-> t]
    <3>1. RoomTypeOK /\ NumberingInv /\ BoughtRows(buying)
      BY DEF InitializeInv, RowsInv
    <3>2. buying' = buying \cup {row} /\ BoughtRows(buying \cup {row})
      BY <2>2, <3>1, PurchasedRow
    <3> QED BY <3>2
  <2> QED BY <1>1, <2>1, <2>2 DEF RoomNext, AddIsu, GetStatus
<1>4. Solvent => Solvent'
  BY <1>1, BooksStep DEF BooksInv, InitializeInv, RowsInv
<1> QED BY <1>1, <1>2, <1>3, <1>4 DEF InitializeInv, RowsInv, DebtInv, HalfDone

\* A call begins when no table of its is half done.
LEMMA StartStep == ASSUME NEW c \in Caller PROVE InitializeInv /\ Start(c) => InitializeInv'
<1> SUFFICES ASSUME InitializeInv, Start(c) PROVE InitializeInv'
  OBVIOUS
<1>1. /\ truncated[c] = 3 /\ truncated' = [truncated EXCEPT ![c] = 0] /\ failed' = failed
      /\ roomTime' = roomTime /\ adding' = adding /\ buying' = buying
  BY Order DEF Start, roomVars
<1>2. RowsInv' /\ (Solvent => Solvent')
  BY <1>1 DEF InitializeInv, RowsInv, RoomTypeOK, NumberingInv, OrdinalsContiguous,
              BoughtRows, Solvent
<1>3. truncated' \in [Caller -> 0 .. 3] /\ \A d \in Caller : HalfDone(d) => HalfDone(d)'
  BY <1>1 DEF InitializeInv, DebtInv, HalfDone
<1> QED BY <1>1, <1>2, <1>3 DEF InitializeInv, DebtInv

\* The isu go first; the purchases they paid for go next, and with them the debt.
LEMMA TruncateStep ==
  ASSUME NEW c \in Caller PROVE InitializeInv /\ Truncate(c) => InitializeInv'
<1> SUFFICES ASSUME InitializeInv, Truncate(c) PROVE InitializeInv'
  OBVIOUS
<1>1. /\ RoomTypeOK /\ NumberingInv /\ BoughtRows(buying)
      /\ truncated \in [Caller -> 0 .. 3] /\ truncated[c] \in 0 .. 2
      /\ truncated' = [truncated EXCEPT ![c] = @ + 1] /\ failed' = failed
  BY Order DEF InitializeInv, RowsInv, DebtInv, Truncate
<1>2. truncated' \in [Caller -> 0 .. 3] /\ failed' \in BOOLEAN
  BY <1>1 DEF InitializeInv, DebtInv
<1>3. CASE truncated[c] = 0
  <2>1. adding' = [t \in ReqTime |-> 0] /\ buying' = buying /\ roomTime' = roomTime
    BY <1>3, Order DEF Truncate
  <2>2. RowsInv'
    BY <1>1, <2>1 DEF RowsInv, RoomTypeOK, NumberingInv, OrdinalsContiguous, BoughtRows
  <2>3. HalfDone(c)'
    BY <1>1, <1>3 DEF HalfDone
  <2> QED BY <1>2, <2>2, <2>3 DEF InitializeInv, DebtInv
<1>4. CASE truncated[c] = 1
  <2>1. adding' = adding /\ buying' = {} /\ roomTime' = roomTime
    BY <1>4, Order DEF Truncate
  <2>2. RoomTypeOK'
    BY <1>1, <2>1 DEF RoomTypeOK
  <2>3. (RoomTypeOK /\ buying = {} => RowsInv /\ Solvent)'
    BY NothingBought, PTL
  <2> QED BY <1>2, <2>1, <2>2, <2>3 DEF InitializeInv, DebtInv
<1>5. CASE truncated[c] = 2
  <2>1. adding' = adding /\ buying' = buying /\ roomTime' = 0
    BY <1>5, Order DEF Truncate
  <2>2. RowsInv' /\ (Solvent => Solvent')
    BY <1>1, <2>1 DEF RowsInv, RoomTypeOK, NumberingInv, OrdinalsContiguous, BoughtRows, Solvent
  <2>3. \A d \in Caller : HalfDone(d) => HalfDone(d)'
    BY <1>1, <1>5 DEF HalfDone
  <2> QED BY <1>1, <1>2, <2>2, <2>3 DEF InitializeInv, DebtInv
<1> QED BY <1>1, <1>3, <1>4, <1>5

\* A call that fails may leave a debt, and says so.
LEMMA FailStep ==
  ASSUME NEW c \in Caller PROVE InitializeInv /\ TruncateFails(c) => InitializeInv'
<1> SUFFICES ASSUME InitializeInv, TruncateFails(c) PROVE InitializeInv'
  OBVIOUS
<1>1. /\ truncated' = [truncated EXCEPT ![c] = 3] /\ failed' = TRUE
      /\ roomTime' = roomTime /\ adding' = adding /\ buying' = buying
  BY Order DEF TruncateFails, roomVars
<1>2. RowsInv'
  BY <1>1 DEF InitializeInv, RowsInv, RoomTypeOK, NumberingInv, OrdinalsContiguous, BoughtRows
<1>3. DebtInv'
  BY <1>1 DEF InitializeInv, DebtInv
<1> QED BY <1>2, <1>3 DEF InitializeInv

\* Whatever callers and players do, between whichever TRUNCATEs, what is answered by
\* /initialize leaves rooms without debt and numbered without gap, unless a TRUNCATE
\* failed (index.js:23, Game.js:78).
THEOREM InitializeCorrect == InitializeSpec => []InitializeIsSafe
<1>1. InitializeInit => InitializeInv
  <2> SUFFICES ASSUME InitializeInit PROVE InitializeInv
    OBVIOUS
  <2>1. RowsInv /\ Solvent
    BY BooksInit DEF InitializeInit, RowsInv, BooksInv
  <2>2. truncated = [c \in Caller |-> 3] /\ failed = FALSE
    BY Order DEF InitializeInit
  <2>3. truncated \in [Caller -> 0 .. 3]
    BY <2>2
  <2>4. failed \in BOOLEAN
    BY <2>2
  <2> QED BY <2>1, <2>3, <2>4 DEF InitializeInv, DebtInv
<1>2. InitializeInv /\ [InitializeNext]_initializeVars => InitializeInv'
  <2> SUFFICES ASSUME InitializeInv, [InitializeNext]_initializeVars
               PROVE  InitializeInv'
    OBVIOUS
  <2>1. CASE InitializeNext
    BY <2>1, RequestStep, StartStep, TruncateStep, FailStep DEF InitializeNext, Initializing
  <2>2. CASE UNCHANGED initializeVars
    BY <2>2 DEF initializeVars, InitializeInv, RowsInv, DebtInv, HalfDone, RoomTypeOK,
                NumberingInv, OrdinalsContiguous, BoughtRows, Solvent, roomVars
  <2> QED BY <2>1, <2>2
<1>3. InitializeInv => InitializeIsSafe
  <2> SUFFICES ASSUME InitializeInv PROVE InitializeIsSafe
    OBVIOUS
  <2>1. (\A c \in Caller : truncated[c] = Len(Tables)) => \A c \in Caller : ~ HalfDone(c)
    BY Order DEF HalfDone
  <2> QED BY <2>1 DEF InitializeInv, RowsInv, DebtInv, NumberingInv, InitializeIsSafe,
                      SolventAfterInitialize, NumberedThroughout
<1> QED BY <1>1, <1>2, <1>3, PTL DEF InitializeSpec
=============================================================================
