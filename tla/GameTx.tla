-------------------------------- MODULE GameTx --------------------------------
(***************************************************************************)
(* The transactions of webapp/nodejs/Game.js on the tables of one room.    *)
(* Each handler is one invocation of the message handler or of the tick    *)
(* loop of index.js; it runs addIsu or buyItem, then getStatus, one        *)
(* database query per step, on a connection of the pool.  Any query may    *)
(* fail, a COMMIT may succeed and its answer be lost, and the server may   *)
(* be restarted at any point.                                              *)
(*                                                                         *)
(* The database (MySQL, REPEATABLE READ) is modelled as the code relies on *)
(* it: INSERT ... ON DUPLICATE KEY UPDATE takes the row lock of room_time  *)
(* and holds it to the end of the transaction; the first plain SELECT of a *)
(* transaction fixes what its plain SELECTs return; a transaction's writes *)
(* are seen by others when it commits.                                     *)
(***************************************************************************)
EXTENDS Room

CONSTANTS Handler,     \* concurrent invocations of the handlers
          Request,     \* the requests clients may send
          Nobody,      \* the holder of a free row lock
          PoolSize,    \* connectionLimit of the pool; 20 in the code
          MaxRequests  \* bound: how many requests the clients send

AddReq == [kind : {"add"}, time : ReqTime, isu : Isu]
BuyReq == [kind : {"buy"}, time : ReqTime, item : Item, count : Count]

ASSUME RequestAssumption == Request \subseteq AddReq \cup BuyReq
ASSUME HandlerAssumption == IsFiniteSet(Handler)
ASSUME NobodyAssumption == Nobody \notin Handler
ASSUME PoolAssumption == PoolSize \in Nat \ {0}

VARIABLES now,     \* the database clock
          lock,    \* who holds the lock of the room's row of room_time
          free,    \* free connections of the pool
          pc,      \* handler -> the next query or call
          op,      \* handler -> the request it serves
          tx,      \* handler -> the transaction it runs: "add", "buy", "status"
          view,    \* handler -> what the plain SELECTs of its transaction see
          clock,   \* handler -> currentTime, the clock reading under the lock
          sum,     \* handler -> newIsu, the value addIsu writes
          ok,      \* handler -> is_success
          reqs,      \* requests received so far
          ackedIsu,  \* history: time -> isu of the requests answered with success
          ackedBuys  \* history: rows of the purchases answered with success

dbVars == <<roomTime, adding, buying>>
txVars == <<op, tx, view, clock, sum, ok>>
history == <<reqs, ackedIsu, ackedBuys>>
vars == <<dbVars, now, lock, free, pc, txVars, history>>

Tick == [kind |-> "tick"]

\* A transaction has read nothing yet, or its plain SELECTs see these tables.
NoView == [open |-> FALSE, adding |-> [t \in ReqTime |-> 0], buying |-> {}]
Committed == [open |-> TRUE, adding |-> adding, buying |-> buying]
View(h) == IF view[h].open THEN view[h] ELSE Committed

ViewType == [open : BOOLEAN, adding : [ReqTime -> Nat], buying : SUBSET BuyingRow]

\* Where a handler holds a connection, and where the lock of the room as well.
InTransaction ==
    {"lock", "clock", "upsert", "count", "total", "insert", "read", "commit"}
UnderLock == InTransaction \ {"lock"}

\* The row buyItem inserts.
Bought(o) == [item |-> o.item, ordinal |-> NextOrdinal(o.count), time |-> o.time]
-----------------------------------------------------------------------------
\* The locals of addIsu, buyItem or getStatus go out of scope.
EndTransaction(h) ==
    /\ view' = [view EXCEPT ![h] = NoView]
    /\ clock' = [clock EXCEPT ![h] = 0]
    /\ sum' = [sum EXCEPT ![h] = 0]

\* Bug: the connection is not returned to the pool.
Leak == UNCHANGED free

\* connection.release()
Release == free' = free + 1

\* The handler returns.
End(h) == /\ pc' = [pc EXCEPT ![h] = "idle"]
          /\ op' = [op EXCEPT ![h] = Tick]
          /\ tx' = [tx EXCEPT ![h] = "status"]
          /\ ok' = [ok EXCEPT ![h] = FALSE]
          /\ EndTransaction(h)

\* ctx.websocket.on('message'): a request arrives and its handler starts.
Receive(h, o) ==
    /\ pc[h] = "idle"
    /\ reqs < MaxRequests
    /\ reqs' = reqs + 1
    /\ op' = [op EXCEPT ![h] = o]
    /\ tx' = [tx EXCEPT ![h] = o.kind]
    /\ pc' = [pc EXCEPT ![h] = "connect"]
    /\ UNCHANGED <<dbVars, now, lock, free, view, clock, sum, ok, ackedIsu, ackedBuys>>

\* loop: the timer of a socket asks for a status.
Loop(h) ==
    /\ pc[h] = "idle"
    /\ pc' = [pc EXCEPT ![h] = "connect"]
    /\ UNCHANGED <<dbVars, now, lock, free, txVars, history>>

\* Bug: a plain query runs before updateRoomTime.
GetConnectionAndRead(h) ==
    /\ pc[h] = "connect"
    /\ free > 0
    /\ free' = free - 1
    /\ pc' = [pc EXCEPT ![h] = "lock"]
    /\ view' = [view EXCEPT ![h] = Committed]
    /\ UNCHANGED <<dbVars, now, lock, op, tx, clock, sum, ok, history>>

\* pool.getConnection() answers, and BEGIN, which reads nothing.
GetConnection(h) ==
    /\ pc[h] = "connect"
    /\ free > 0
    /\ free' = free - 1
    /\ pc' = [pc EXCEPT ![h] = "lock"]
    /\ UNCHANGED <<dbVars, now, lock, txVars, history>>

\* Bug: the room is read without a lock.
NoRowLock == TRUE

\* updateRoomTime: INSERT INTO room_time ... ON DUPLICATE KEY UPDATE, which waits
\* for the lock of the row.
RowLockFree == lock = Nobody
LockRoom(h) ==
    /\ pc[h] = "lock"
    /\ RowLockFree
    /\ lock' = h
    /\ pc' = [pc EXCEPT ![h] = "clock"]
    /\ UNCHANGED <<dbVars, now, free, txVars, history>>

\* updateRoomTime: reads the room's time and the clock, checks both, and
\* updates room_time; getStatus passes the time 0.
RequestedTime(h) == IF tx[h] = "status" THEN 0 ELSE op[h].time
AfterClock == [add |-> "upsert", buy |-> "count", status |-> "read"]
ReadClock(h) ==
    /\ pc[h] = "clock"
    /\ clock' = [clock EXCEPT ![h] = now]
    /\ pc' = [pc EXCEPT ![h] =
                IF Current(now) /\ NotPast(RequestedTime(h), now)
                THEN AfterClock[tx[h]] ELSE "rollback"]
    /\ UNCHANGED <<dbVars, now, lock, free, op, tx, view, sum, ok, history>>

\* Bug: the amount replaces what other requests added at the same time.
OverwriteIsu(h) == op[h].isu

\* addIsu: INSERT '0' if there is no row, SELECT isu ... FOR UPDATE (a locking
\* read: it sees what is committed, not the view), UPDATE.
NewIsu(h) == op[h].isu + adding[op[h].time]
UpsertAdding(h) ==
    /\ pc[h] = "upsert"
    /\ sum' = [sum EXCEPT ![h] = NewIsu(h)]
    /\ pc' = [pc EXCEPT ![h] = "commit"]
    /\ UNCHANGED <<dbVars, now, lock, free, op, tx, view, clock, ok, history>>

\* buyItem: SELECT COUNT(*), the first plain SELECT.
CountBought(h) ==
    /\ pc[h] = "count"
    /\ view' = [view EXCEPT ![h] = View(h)]
    /\ pc' = [pc EXCEPT ![h] =
                IF CountBuying(View(h).buying, op[h].item) = op[h].count
                THEN "total" ELSE "rollback"]
    /\ UNCHANGED <<dbVars, now, lock, free, op, tx, clock, sum, ok, history>>

\* buyItem: reads addings and buyings, and compares the total with the price.
CheckTotal(h) ==
    /\ pc[h] = "total"
    /\ pc' = [pc EXCEPT ![h] =
                IF MilliIsu(View(h).adding, View(h).buying, op[h].time)
                     >= Milli * Price(op[h].item, NextOrdinal(op[h].count))
                THEN "insert" ELSE "rollback"]
    /\ UNCHANGED <<dbVars, now, lock, free, txVars, history>>

\* buyItem: INSERT INTO buying, refused if the primary key exists.
InsertBuying(h) ==
    /\ pc[h] = "insert"
    /\ pc' = [pc EXCEPT ![h] =
                IF \E b \in buying : /\ b.item = op[h].item
                                     /\ b.ordinal = NextOrdinal(op[h].count)
                THEN "rollback" ELSE "commit"]
    /\ UNCHANGED <<dbVars, now, lock, free, txVars, history>>

\* getStatus: SELECT FROM m_item, adding and buying.
ReadTables(h) ==
    /\ pc[h] = "read"
    /\ view' = [view EXCEPT ![h] = View(h)]
    /\ pc' = [pc EXCEPT ![h] = "commit"]
    /\ UNCHANGED <<dbVars, now, lock, free, op, tx, clock, sum, ok, history>>

\* COMMIT in the database: the writes appear and the lock is released.
CommitWrites(h) ==
    /\ pc[h] = "commit"
    /\ roomTime' = clock[h]
    /\ adding' = IF tx[h] = "add" THEN [adding EXCEPT ![op[h].time] = sum[h]] ELSE adding
    /\ buying' = IF tx[h] = "buy" THEN buying \cup {Bought(op[h])} ELSE buying
    /\ lock' = Nobody

\* connection.commit() answers, and connection.release().  After addIsu and
\* buyItem the handler calls getStatus; getStatus goes on to getCurrentTime.
AfterCommit == [add |-> "connect", buy |-> "connect", status |-> "time"]
Commit(h) ==
    /\ CommitWrites(h)
    /\ Release
    /\ pc' = [pc EXCEPT ![h] = AfterCommit[tx[h]]]
    /\ IF tx[h] = "status"
       THEN /\ clock' = [clock EXCEPT ![h] = 0]
            /\ UNCHANGED <<op, tx, view, sum, ok>>
       ELSE /\ tx' = [tx EXCEPT ![h] = "status"]
            /\ ok' = [ok EXCEPT ![h] = TRUE]
            /\ EndTransaction(h)
            /\ UNCHANGED op
    /\ UNCHANGED <<now, history>>

\* The database commits and connection.commit() fails: its answer is lost.
CommitAnswerLost(h) ==
    /\ CommitWrites(h)
    /\ pc' = [pc EXCEPT ![h] = "rollback"]
    /\ UNCHANGED <<now, free, txVars, history>>

\* getCurrentTime on any free connection (an error is caught: it returns 0),
\* then send(status); a request is answered next.
SendStatus(h) ==
    /\ pc[h] = "time"
    /\ free > 0
    /\ IF op[h] = Tick THEN End(h)
       ELSE /\ pc' = [pc EXCEPT ![h] = "answer"]
            /\ UNCHANGED txVars
    /\ UNCHANGED <<dbVars, now, lock, free, history>>

\* send({request_id, is_success})
Answer(h) ==
    /\ pc[h] = "answer"
    /\ ackedIsu' = IF ok[h] /\ op[h].kind = "add"
                   THEN [ackedIsu EXCEPT ![op[h].time] = @ + op[h].isu] ELSE ackedIsu
    /\ ackedBuys' = IF ok[h] /\ op[h].kind = "buy"
                    THEN ackedBuys \cup {Bought(op[h])} ELSE ackedBuys
    /\ End(h)
    /\ UNCHANGED <<dbVars, now, lock, free, reqs>>

\* A query of the transaction fails: lock wait timeout, lost connection.
QueryError(h) ==
    /\ pc[h] \in InTransaction
    /\ pc' = [pc EXCEPT ![h] = "rollback"]
    /\ UNCHANGED <<dbVars, now, lock, free, txVars, history>>

\* addIsu and buyItem catch every error and return false; getStatus throws, and
\* the handler ends without an answer.
Failed(h) ==
    IF tx[h] = "status" THEN End(h)
    ELSE /\ pc' = [pc EXCEPT ![h] = "answer"]
         /\ EndTransaction(h)
         /\ UNCHANGED <<op, tx, ok>>

\* pool.getConnection() or BEGIN fails; a connection on which BEGIN fails is lost,
\* and the pool drops it by itself (BEGIN is outside the try block that releases).
ConnectError(h) ==
    /\ pc[h] = "connect"
    /\ Failed(h)
    /\ UNCHANGED <<dbVars, now, lock, free, history>>

\* Bug: catch returns without releasing the connection.
RollbackOnly(h) ==
    /\ pc[h] = "rollback"
    /\ lock' = IF lock = h THEN Nobody ELSE lock
    /\ Failed(h)
    /\ UNCHANGED <<dbVars, now, free, history>>

\* catch: connection.rollback(); connection.release(); throw.  Where rollback()
\* fails too, release() is skipped: the connection is lost and the pool drops it.
Rollback(h) ==
    /\ pc[h] = "rollback"
    /\ lock' = IF lock = h THEN Nobody ELSE lock
    /\ Release
    /\ Failed(h)
    /\ UNCHANGED <<dbVars, now, history>>

\* The database clock advances, or is set back (a wall clock).
ClockTick == /\ now + 1 \in Clock
             /\ now' = now + 1
             /\ UNCHANGED <<dbVars, lock, free, pc, txVars, history>>
ClockSetBack == /\ \E t \in Clock : t < now /\ now' = t
                /\ UNCHANGED <<dbVars, lock, free, pc, txVars, history>>

\* The game server is restarted: its handlers are gone, the database rolls back
\* their transactions.
Restart ==
    /\ \E h \in Handler : pc[h] # "idle"
    /\ lock' = Nobody
    /\ free' = PoolSize
    /\ pc' = [h \in Handler |-> "idle"]
    /\ op' = [h \in Handler |-> Tick]
    /\ tx' = [h \in Handler |-> "status"]
    /\ view' = [h \in Handler |-> NoView]
    /\ clock' = [h \in Handler |-> 0]
    /\ sum' = [h \in Handler |-> 0]
    /\ ok' = [h \in Handler |-> FALSE]
    /\ UNCHANGED <<dbVars, now, history>>
-----------------------------------------------------------------------------
Init == /\ RoomInit
        /\ now \in Clock
        /\ lock = Nobody
        /\ free = PoolSize
        /\ pc = [h \in Handler |-> "idle"]
        /\ op = [h \in Handler |-> Tick]
        /\ tx = [h \in Handler |-> "status"]
        /\ view = [h \in Handler |-> NoView]
        /\ clock = [h \in Handler |-> 0]
        /\ sum = [h \in Handler |-> 0]
        /\ ok = [h \in Handler |-> FALSE]
        /\ reqs = 0
        /\ ackedIsu = [t \in ReqTime |-> 0]
        /\ ackedBuys = {}

\* One more query, or the end of the handler.
Step(h) == \/ GetConnection(h) \/ LockRoom(h) \/ ReadClock(h)
           \/ UpsertAdding(h)
           \/ CountBought(h) \/ CheckTotal(h) \/ InsertBuying(h)
           \/ ReadTables(h) \/ SendStatus(h)
           \/ Commit(h) \/ Answer(h) \/ Rollback(h)

Fault(h) == CommitAnswerLost(h) \/ QueryError(h) \/ ConnectError(h)

Next == \/ \E h \in Handler : \/ \E o \in Request : Receive(h, o)
                              \/ Loop(h)
                              \/ Step(h)
                              \/ Fault(h)
        \/ ClockTick \/ ClockSetBack \/ Restart

Spec == Init /\ [][Next]_vars

\* The pool hands out connections, and InnoDB row locks, in the order they were
\* asked for: a handler that can take its next step again and again takes it.
FairSpec == Spec /\ \A h \in Handler : SF_vars(Step(h))
-----------------------------------------------------------------------------
(* Properties *)

TypeOK ==
    /\ RoomTypeOK
    /\ now \in Clock
    /\ lock \in Handler \cup {Nobody}
    /\ free \in Int
    /\ pc \in [Handler -> InTransaction \cup
                 {"idle", "connect", "time", "answer", "rollback"}]
    /\ op \in [Handler -> Request \cup {Tick}]
    /\ tx \in [Handler -> {"add", "buy", "status"}]
    /\ clock \in [Handler -> Nat]
    /\ sum \in [Handler -> Nat]
    /\ ok \in [Handler -> BOOLEAN]
    /\ view \in [Handler -> ViewType]
    /\ reqs \in Nat
    /\ ackedIsu \in [ReqTime -> Nat]
    /\ ackedBuys \subseteq BuyingRow

\* Only the holder of the room's row lock is between LockRoom and the end of its
\* transaction.
LockInv == \A h \in Handler : pc[h] \in UnderLock => lock = h

\* What a transaction decides from is what is committed: the reason why no query
\* may run before updateRoomTime (Game.js:125, MVCC).
FreshView ==
    \A h \in Handler : pc[h] \in UnderLock /\ view[h].open => view[h] = Committed

\* The row lock makes the transactions of a room run one after the other, between
\* their upsert and their end: nobody else is there, and nobody decides from rows
\* that are no longer the committed ones (Game.js:125-135).
Serialized == LockInv /\ FreshView

\* Every connection is free or held by exactly one handler: none leaks on any
\* path of errors, and none is released twice.
ConnectionsAccounted ==
    free + Cardinality({h \in Handler : pc[h] \in InTransaction \cup {"rollback"}})
      = PoolSize

\* A request answered with success is in the tables, and stays there; and what
\* is in the tables was asked for: no lost update, nothing applied twice.
AckedKept ==
    /\ \A t \in ReqTime : ackedIsu[t] <= adding[t]
    /\ ackedBuys \subseteq buying

\* A success is answered after a status that shows its effect has been sent
\* (index.js:56, game.go: the GameStatus goes before the GameResponse).
AnsweredAfterStatus ==
    \A h \in Handler :
        pc[h] = "answer" /\ ok[h] =>
            CASE op[h].kind = "add" ->
                    view[h].adding[op[h].time] >= op[h].isu
              [] op[h].kind = "buy" -> Bought(op[h]) \in view[h].buying

\* What a player was told has succeeded is in the tables for good, and a status that
\* shows it went first.
SuccessKept == AckedKept /\ AnsweredAfterStatus

\* Every handler returns: no handler waits for ever for a connection or a lock.
HandlersReturn == \A h \in Handler : []<>(pc[h] = "idle")
=============================================================================
