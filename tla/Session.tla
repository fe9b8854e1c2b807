-------------------------------- MODULE Session --------------------------------
(***************************************************************************)
(* One player of a room: the browser (webapp/public/game.js, Room), the    *)
(* WebSocket, and the server's handlers for it (webapp/nodejs/index.js).   *)
(* Every request and every tick of the server is an invocation of its own: *)
(* they run concurrently, and only their transactions are serialised, by   *)
(* the room (Room, which GameTx implements).  The other players of the     *)
(* room act on it at any time.                                             *)
(*                                                                         *)
(* The browser's local clock runs as fast as the database's and is not set *)
(* back, so that Clock.get() is what the last set() stored plus the time   *)
(* gone by.  The connection may break at any point; statuses may fail.     *)
(***************************************************************************)
EXTENDS Room, Sequences

CONSTANTS Handler,    \* concurrent invocations of the message handler
          Delay,      \* AddValueDelay and BuyItemDelay; 1000 ms in the code
          MaxClicks,  \* bound: clicks on the chair
          MaxBuys,    \* bound: clicks on the buttons of the items
          Period,     \* the loop's timer; 500 ms
          MaxOthers,  \* bound: purchases and additions of other players
          MaxFaults,  \* bound: errors of the database
          MaxOnWay    \* bound: messages on their way to the browser when the loop starts

ASSUME DelayAssumption == Delay \in Nat \ {0} /\ Period \in Nat /\ \A c \in Clock : c > Delay
ASSUME StartAssumption == Clock # {}

ASSUME HandlerAssumption == Handler \cap {"first", "loop"} = {}

NoTime == -1
NoState == [time |-> NoTime, latest |-> 0, error |-> FALSE,
            adding |-> [t \in ReqTime |-> 0], buying |-> {}]
Invocation == Handler \cup {"first", "loop"}

VARIABLES
    now,        \* the database clock
    others,     \* what other players have done so far
    faults,     \* errors so far
    \* the connection
    link,       \* "connecting", "up", "down"
    toServer,   \* requests on their way
    toBrowser,  \* statuses and answers on their way
    \* index.js
    ready,      \* websocket.readyState = OPEN
    timer,      \* when tid is due; NoTime if it is not armed
    at,         \* invocation -> its next await
    req,        \* handler -> its request
    success,    \* handler -> is_success
    status,     \* invocation -> the status it is about to send
    \* game.js
    isOpen, reqCount, callbacks,
    state,      \* the status on display: stateTime, count_bought, gameState
    time,       \* clock.get(); NoTime is null
    sending,    \* time -> isu
    addValue, buying_,
    clicks, buys,
    \* history
    done,       \* handler -> when its request took effect; NoTime if it did not, as far as is_success knows
    dropped,    \* ids of requests whose handler failed before it answered; LoopId if the loop did
    acked       \* requests whose callback saw is_success, and when they took effect

net == <<link, toServer, toBrowser>>
server == <<ready, timer, at, req, success, status>>
browser == <<isOpen, reqCount, callbacks, state, time, sending, addValue, buying_, clicks, buys>>
history == <<done, dropped, acked>>
vars == <<roomVars, now, others, faults, net, server, browser, history>>

LoopId == 0
NoReq == [id |-> 0, kind |-> "none"]
-----------------------------------------------------------------------------
(* game.js: the buttons *)

\* sendAdd: while (t in self.sending) t++
FreeEntry(t) == CHOOSE u \in ReqTime : /\ u >= t /\ sending[u] = 0
                                       /\ \A v \in ReqTime : v >= t /\ v < u => sending[v] # 0

\* clock.get() + delay; null counts as 0.
In(delay) == (IF time = NoTime THEN 0 ELSE time) + delay

\* sendRequest: nothing happens if the socket is not open; what is sent on a
\* broken connection is gone.
SendRequest(r, callback) ==
    IF isOpen
    THEN /\ reqCount' = reqCount + 1
         /\ callbacks' = callbacks \cup {callback}
         /\ toServer' = IF link = "up" THEN Append(toServer, r) ELSE toServer
    ELSE UNCHANGED <<reqCount, callbacks, toServer>>

\* add: a click is collected ...
Add == /\ clicks < MaxClicks
       /\ clicks' = clicks + 1
       /\ addValue' = addValue + 1
       /\ UNCHANGED <<roomVars, now, others, faults, net, server, isOpen, reqCount, callbacks, state,
                      time, sending, buying_, buys, history>>

\* ... and update sends what has been collected, at the next frame.
Update ==
    /\ addValue > 0
    /\ \E u \in ReqTime : u >= In(Delay) /\ sending[u] = 0     \* bound: ReqTime
    /\ LET t == FreeEntry(In(Delay))
       IN  /\ sending' = [sending EXCEPT ![t] = addValue]
           /\ SendRequest([id |-> reqCount + 1, kind |-> "add", time |-> t, isu |-> addValue],
                          [id |-> reqCount + 1, kind |-> "add", time |-> t])
    /\ addValue' = 0
    /\ UNCHANGED <<roomVars, now, others, faults, link, toBrowser, server, isOpen, state, time, buying_,
                   clicks, buys, history>>

\* buy: one purchase at a time; there are buttons once there is a state.
Buy(i) ==
    /\ state # NoState
    /\ ~ buying_
    /\ buys < MaxBuys
    /\ In(Delay) \in ReqTime
    /\ buys' = buys + 1
    /\ buying_' = TRUE
    /\ SendRequest([id |-> reqCount + 1, kind |-> "buy", time |-> In(Delay), item |-> i,
                    count |-> CountBuying(state.buying, i)],
                   [id |-> reqCount + 1, kind |-> "buy", time |-> In(Delay)])
    /\ UNCHANGED <<roomVars, now, others, faults, link, toBrowser, server, isOpen, state, time, sending,
                   addValue, clicks, history>>
-----------------------------------------------------------------------------
(* game.js: the socket *)

OnOpen == /\ link = "up" /\ ~ isOpen /\ isOpen' = TRUE
          /\ UNCHANGED <<roomVars, now, others, faults, net, server, reqCount, callbacks, state, time,
                         sending, addValue, buying_, clicks, buys, history>>

OnClose == /\ link = "down" /\ isOpen /\ isOpen' = FALSE
           /\ UNCHANGED <<roomVars, now, others, faults, net, server, reqCount, callbacks, state, time,
                          sending, addValue, buying_, clicks, buys, history>>

\* Bug: every status is taken.
Always(s) == TRUE

\* receiveData: a status that is not older than the one on display replaces it,
\* and sets the clock.
NotOlder(s) == state = NoState \/ s.time >= state.time
ReceiveData ==
    /\ isOpen /\ toBrowser # <<>> /\ Head(toBrowser).kind = "status"
    /\ LET s == Head(toBrowser).status
       IN  IF NotOlder(s) THEN state' = s /\ time' = s.latest
                          ELSE UNCHANGED <<state, time>>
    /\ toBrowser' = Tail(toBrowser)
    /\ UNCHANGED <<roomVars, now, others, faults, link, toServer, server, isOpen, reqCount, callbacks,
                   sending, addValue, buying_, clicks, buys, history>>

\* onmessage with a request_id: the callback of the request.
ReceiveAnswer ==
    /\ isOpen /\ toBrowser # <<>> /\ Head(toBrowser).kind = "answer"
    /\ LET a == Head(toBrowser)
       IN  \E c \in callbacks :
              /\ c.id = a.req.id
              /\ callbacks' = callbacks \ {c}
              /\ IF c.kind = "add"
                 THEN sending' = [sending EXCEPT ![c.time] = 0] /\ UNCHANGED buying_
                 ELSE buying_' = FALSE /\ UNCHANGED sending
              /\ acked' = IF a.success THEN acked \cup {[r |-> a.req, done |-> a.done]}
                                       ELSE acked
    /\ toBrowser' = Tail(toBrowser)
    /\ UNCHANGED <<roomVars, now, others, faults, link, toServer, server, isOpen, reqCount, state, time,
                   addValue, clicks, buys, done, dropped>>
-----------------------------------------------------------------------------
(* index.js *)

\* wsGameHandler: the socket is accepted, the timer armed, a first status asked for.
Accept ==
    /\ link = "connecting"
    /\ link' = "up" /\ ready' = TRUE /\ timer' = now + Period
    /\ at' = [at EXCEPT !["first"] = "status"]
    /\ UNCHANGED <<roomVars, now, others, faults, toServer, toBrowser, req, success, status, browser,
                   history>>

\* on('message'): a handler starts with the next request.
OnMessage(h) ==
    /\ ready /\ at[h] = "idle" /\ toServer # <<>>
    /\ req' = [req EXCEPT ![h] = Head(toServer)]
    /\ toServer' = Tail(toServer)
    /\ at' = [at EXCEPT ![h] = "request"]
    /\ UNCHANGED <<roomVars, now, others, faults, link, toBrowser, ready, timer, success, status, browser,
                   history>>

Effect(r) == IF r.kind = "add" THEN AddIsu(now, r.time, r.isu)
             ELSE BuyItem(now, r.time, r.item, r.count)
Refused(r) == \/ ~ Current(now) \/ ~ NotPast(r.time, now)
              \/ r.kind = "buy" /\ (~ SeenAll(r.item, r.count)
                                    \/ ~ Affordable(r.item, r.count, r.time))

\* game.addIsu, game.buyItem: one step of the room, or they refuse; or an error,
\* before or after the COMMIT.
Request(h) ==
    /\ at[h] = "request"
    /\ \/ /\ Effect(req[h])
          /\ success' = [success EXCEPT ![h] = TRUE]
          /\ done' = [done EXCEPT ![h] = now]
          /\ at' = [at EXCEPT ![h] = "status"]
       \/ /\ Refused(req[h])
          /\ at' = [at EXCEPT ![h] = "answer"]
          /\ UNCHANGED <<roomVars, success, done>>
    /\ UNCHANGED <<now, others, faults, net, ready, timer, req, status, browser, dropped, acked>>
RequestFails(h) ==
    /\ at[h] = "request"
    /\ faults < MaxFaults /\ faults' = faults + 1
    /\ Effect(req[h]) \/ UNCHANGED roomVars
    /\ at' = [at EXCEPT ![h] = "answer"]
    /\ UNCHANGED <<now, others, net, ready, timer, req, success, status, browser, history>>

\* getStatus: its transaction, which moves the room's time.
Status(v) ==
    /\ at[v] = "status"
    /\ GetStatus(now)
    /\ status' = [status EXCEPT ![v] = [time |-> now, latest |-> 0, error |-> FALSE,
                                        adding |-> adding, buying |-> buying]]
    /\ at' = [at EXCEPT ![v] = "latest"]
    /\ UNCHANGED <<now, others, faults, net, ready, timer, req, success, browser, history>>

\* getCurrentTime, after calcStatus; an error makes it 0.
LatestReading == now
LatestTime(v) ==
    /\ at[v] = "latest"
    /\ status' = [status EXCEPT ![v].latest = LatestReading]
    /\ at' = [at EXCEPT ![v] = "send"]
    /\ UNCHANGED <<roomVars, now, others, faults, net, ready, timer, req, success, browser, history>>
LatestFails(v) ==
    /\ at[v] = "latest"
    /\ faults < MaxFaults /\ faults' = faults + 1
    /\ status' = [status EXCEPT ![v].error = TRUE]
    /\ at' = [at EXCEPT ![v] = "send"]
    /\ UNCHANGED <<roomVars, now, others, net, ready, timer, req, success, browser, history>>

\* send: nothing is sent on a socket that is not open.
Send(m) == toBrowser' = IF ready /\ link = "up" THEN Append(toBrowser, m) ELSE toBrowser

\* Bugs: the timer is armed again on a closed socket, or never; a handler ends with
\* the status.
AlwaysRearm == TRUE
NeverRearm == FALSE
NoAnswer(v) == "idle"

\* The status is sent.  A request is answered next, the loop arms its timer again
\* unless the socket has been closed.
Rearm == ready
AfterStatus(v) == IF v \in Handler THEN "answer" ELSE "idle"
SendStatus(v) ==
    /\ at[v] = "send"
    /\ Send([kind |-> "status", status |-> status[v]])
    /\ status' = [status EXCEPT ![v] = NoState]
    /\ at' = [at EXCEPT ![v] = AfterStatus(v)]
    /\ timer' = IF v = "loop" /\ Rearm THEN now + Period ELSE timer
    /\ UNCHANGED <<roomVars, now, others, faults, link, toServer, ready, req, success, browser, history>>

\* The request is answered.
Answer(h) ==
    /\ at[h] = "answer"
    /\ Send([kind |-> "answer", req |-> req[h], success |-> success[h], done |-> done[h]])
    /\ at' = [at EXCEPT ![h] = "idle"]
    /\ req' = [req EXCEPT ![h] = NoReq]
    /\ success' = [success EXCEPT ![h] = FALSE]
    /\ done' = [done EXCEPT ![h] = NoTime]
    /\ UNCHANGED <<roomVars, now, others, faults, link, toServer, ready, timer, status, browser, dropped,
                   acked>>

\* getStatus throws: a request is never answered, the loop does not go on.
StatusFails(v) ==
    /\ at[v] = "status"
    /\ faults < MaxFaults /\ faults' = faults + 1
    /\ at' = [at EXCEPT ![v] = "idle"]
    /\ IF v \in Handler
       THEN /\ dropped' = dropped \cup {req[v].id}
            /\ req' = [req EXCEPT ![v] = NoReq]
            /\ success' = [success EXCEPT ![v] = FALSE]
            /\ done' = [done EXCEPT ![v] = NoTime]
       ELSE /\ dropped' = IF v = "loop" THEN dropped \cup {LoopId} ELSE dropped
            /\ UNCHANGED <<req, success, done>>
    /\ UNCHANGED <<roomVars, now, others, net, ready, timer, status, browser, acked>>

\* The timer fires: loop.
Loop ==
    /\ timer # NoTime /\ timer <= now /\ Len(toBrowser) < MaxOnWay
    /\ timer' = NoTime
    /\ at' = [at EXCEPT !["loop"] = IF ready THEN "status" ELSE "idle"]
    /\ UNCHANGED <<roomVars, now, others, faults, net, ready, req, success, status, browser, history>>

\* on('close'): clearTimeout
ServerClose ==
    /\ link = "down" /\ ready
    /\ ready' = FALSE /\ timer' = NoTime
    /\ UNCHANGED <<roomVars, now, others, faults, net, at, req, success, status, browser, history>>
-----------------------------------------------------------------------------
(* The environment *)

\* The connection breaks; what was on its way is lost.
Disconnect ==
    /\ link = "up"
    /\ link' = "down" /\ toServer' = <<>> /\ toBrowser' = <<>>
    /\ UNCHANGED <<roomVars, now, others, faults, server, browser, history>>

\* Another player acts on the room.
Others ==
    /\ others < MaxOthers
    /\ others' = others + 1
    /\ \/ \E isu \in Isu : AddIsu(now, now + Delay, isu)
       \/ \E i \in Item : BuyItem(now, now + Delay, i, CountBuying(buying, i))
    /\ UNCHANGED <<now, faults, net, server, browser, history>>

Tick ==
    /\ now + 1 \in Clock
    /\ now' = now + 1
    /\ time' = IF time = NoTime THEN NoTime ELSE time + 1
    /\ UNCHANGED <<roomVars, others, faults, net, server, isOpen, reqCount, callbacks, state, sending,
                   addValue, buying_, clicks, buys, history>>
-----------------------------------------------------------------------------
Init ==
    /\ RoomInit
    /\ now = CHOOSE c \in Clock : \A d \in Clock : c <= d
    /\ others = 0 /\ faults = 0
    /\ link = "connecting" /\ toServer = <<>> /\ toBrowser = <<>>
    /\ ready = FALSE /\ timer = NoTime
    /\ at = [v \in Invocation |-> "idle"]
    /\ req = [h \in Handler |-> NoReq]
    /\ success = [h \in Handler |-> FALSE]
    /\ status = [v \in Invocation |-> NoState]
    /\ isOpen = FALSE /\ reqCount = 0 /\ callbacks = {}
    /\ state = NoState /\ time = NoTime
    /\ sending = [t \in ReqTime |-> 0]
    /\ addValue = 0 /\ buying_ = FALSE /\ clicks = 0 /\ buys = 0
    /\ done = [h \in Handler |-> NoTime] /\ dropped = {} /\ acked = {}

\* The steps the server's event loop takes.
Serve == \/ \E h \in Handler : OnMessage(h) \/ Request(h) \/ RequestFails(h) \/ Answer(h)
         \/ \E v \in Invocation : Status(v) \/ LatestTime(v) \/ SendStatus(v)

Next == \/ Add \/ Update \/ \E i \in Item : Buy(i)
        \/ OnOpen \/ OnClose \/ ReceiveData \/ ReceiveAnswer
        \/ Accept \/ Loop \/ ServerClose \/ Serve
        \/ \E v \in Invocation : LatestFails(v) \/ StatusFails(v)
        \/ Disconnect \/ Others \/ Tick

Spec == Init /\ [][Next]_vars

\* The event loops of the server and of the browser go on, and the connection
\* delivers what it takes; time, clicks and errors are under no obligation.
FairSpec ==
    /\ Spec
    /\ WF_vars(Accept) /\ WF_vars(Loop) /\ WF_vars(ServerClose)
    /\ \A h \in Handler : WF_vars(OnMessage(h)) /\ WF_vars(Request(h)) /\ WF_vars(Answer(h))
    /\ \A v \in Invocation : WF_vars(Status(v)) /\ WF_vars(LatestTime(v)) /\ WF_vars(SendStatus(v))
    /\ WF_vars(OnOpen) /\ WF_vars(OnClose) /\ WF_vars(ReceiveData) /\ WF_vars(ReceiveAnswer)
-----------------------------------------------------------------------------
(* Properties *)

\* Where the request with that id, or its answer, is.
Waiting(id) == \E k \in DOMAIN toServer : toServer[k].id = id
Served(id) == \E h \in Handler : req[h].id = id
Answered(id) == \E k \in DOMAIN toBrowser :
                    toBrowser[k].kind = "answer" /\ toBrowser[k].req.id = id

\* A button stays disabled, and an amount stays among those being sent, only as
\* long as the request is somewhere on its way, in exactly one place; or for ever
\* if the connection broke or its status failed (game.js:311, index.js:57).  Whatever has
\* been clicked and not answered is among the amounts being sent, each addition under a
\* time of its own (game.js:278).
PendingHasCause ==
    /\ \A c \in callbacks :
          \/ link = "down" \/ c.id \in dropped
          \/ Waiting(c.id) /\ ~ Served(c.id) /\ ~ Answered(c.id)
          \/ Served(c.id) /\ ~ Waiting(c.id) /\ ~ Answered(c.id)
          \/ Answered(c.id) /\ ~ Waiting(c.id) /\ ~ Served(c.id)
    /\ buying_ => link = "down" \/ \E c \in callbacks : c.kind = "buy"
    /\ \A c \in callbacks : c.kind = "add" => sending[c.time] > 0
    /\ \A c, d \in callbacks : c.kind = "add" /\ d.kind = "add" /\ c.time = d.time => c = d

Shows(s, r) ==
    IF r.kind = "add" THEN s.adding[r.time] >= r.isu
    ELSE [item |-> r.item, ordinal |-> NextOrdinal(r.count), time |-> r.time] \in s.buying

\* Once a success has been answered, what is on display contains it, though ticks
\* and other answers overtake one another (index.js:56, game.js:235); but for a
\* status of the very millisecond in which the request took effect.
ReadYourWrites ==
    \A a \in acked : /\ state.time >= a.done
                     /\ state.time > a.done => Shows(state, a.r)

\* The browser's clock is neither before the status on display, where there is
\* nothing to show, nor ahead of the database; unless the server could not read
\* the time (Game.js:305).
ClockInRange ==
    state # NoState /\ ~ state.error => state.time <= time /\ time <= now

\* The display never goes back: a status replaces another only if it is as recent,
\* and it has everything the other had if it is more recent; and the clock it is shown at
\* is in range.
DisplayMonotone ==
    /\ []ClockInRange
    /\ [][/\ state'.time >= state.time
          /\ state'.time > state.time =>
                /\ state.buying \subseteq state'.buying
                /\ \A t \in ReqTime : state.adding[t] <= state'.adding[t]]_vars

\* There is one loop per socket: the timer is armed only while no loop runs, and a
\* socket that has been closed leaves no timer behind, whenever it is closed
\* (index.js:67, index.js:86).
OneLoop ==
    /\ timer # NoTime => at["loop"] = "idle"
    /\ link = "down" /\ ~ ready => timer = NoTime

\* A click on a button ends: the button works again, unless the connection breaks or
\* a status fails.
BuyEnds == [](buying_ => <>(~ buying_ \/ link = "down" \/ dropped \ {LoopId} # {}))

\* What another player buys comes to be displayed, unless the connection breaks or
\* one status of the loop has failed, which ends it (index.js:85).
OthersShown ==
    \A n \in 1 .. MaxOthers :
        [](Cardinality(buying) >= n =>
              <>(Cardinality(state.buying) >= n \/ link # "up" \/ LoopId \in dropped))

=============================================================================
