----------------------------- MODULE SessionProofs -----------------------------
(***************************************************************************)
(* One player's session, for every number of concurrent handlers, every    *)
(* clock, delay and timer, and without a bound on what is on its way.      *)
(*                                                                         *)
(* Three invariants carry it.  The statuses there are, wherever they are,  *)
(* form a chain: an older one shows no more than a younger one, and none   *)
(* shows more than the tables hold.  A request that has taken effect is in *)
(* the tables and in every status younger than that, and one that is as    *)
(* old is ahead of its answer on the socket.  The number of a request is   *)
(* in one place at a time.                                                 *)
(***************************************************************************)
EXTENDS Session, RoomProofs, WellFoundedInduction, TLAPS

USE DEF Item

-----------------------------------------------------------------------------
(* The inductive invariant *)

AddRequest == [id : Nat, kind : {"add"}, time : ReqTime, isu : Nat]
BuyRequest == [id : Nat, kind : {"buy"}, time : ReqTime, item : Item, count : Nat]
RequestType == AddRequest \cup BuyRequest

Purchases == {B \in SUBSET BuyingRow : IsFiniteSet(B)}
StatusType == [time : Nat \cup {NoTime}, latest : Nat, error : BOOLEAN,
               adding : [ReqTime -> Nat], buying : Purchases]

StatusMsg == [kind : {"status"}, status : StatusType]
AnswerMsg == [kind : {"answer"}, req : RequestType, success : BOOLEAN,
              done : Nat \cup {NoTime}]
Message == StatusMsg \cup AnswerMsg

CallbackType == [id : Nat, kind : {"add", "buy"}, time : ReqTime]
AckType == [r : RequestType, done : Nat \cup {NoTime}]

\* Requests are numbers, times and amounts; only a handler that works has one.
TypeOK ==
    /\ RoomTypeOK /\ IsFiniteSet(buying)
    /\ now \in Nat
    /\ link \in {"connecting", "up", "down"}
    /\ toServer \in Seq(RequestType)
    /\ toBrowser \in Seq(Message)
    /\ ready \in BOOLEAN
    /\ timer \in Nat \cup {NoTime}
    /\ at \in [Invocation -> {"idle", "request", "status", "latest", "send", "answer"}]
    /\ req \in [Handler -> RequestType \cup {NoReq}]
    /\ \A h \in Handler : at[h] # "idle" => req[h] \in RequestType
    /\ success \in [Handler -> BOOLEAN]
    /\ status \in [Invocation -> StatusType]
    /\ isOpen \in BOOLEAN
    /\ reqCount \in Nat
    /\ callbacks \subseteq CallbackType
    /\ state \in StatusType
    /\ time \in Nat \cup {NoTime}
    /\ sending \in [ReqTime -> Nat]
    /\ addValue \in Nat
    /\ buying_ \in BOOLEAN
    /\ done \in [Handler -> Nat \cup {NoTime}]
    /\ acked \subseteq AckType

\* The timer is armed on an open socket only, while the loop waits for it.
LoopInv ==
    /\ timer # NoTime => ready /\ at["loop"] = "idle"
    /\ link = "connecting" => ~ ready /\ \A v \in Invocation : at[v] = "idle"
    /\ link = "up" => ready

\* The statuses there are: on display, being made, on their way.
OnWay(k) == k \in DOMAIN toBrowser /\ toBrowser[k].kind = "status"
Statuses == {state} \cup {status[v] : v \in Invocation}
              \cup {toBrowser[k].status : k \in {j \in DOMAIN toBrowser : OnWay(j)}}

Within(s1, s2) == /\ \A t \in ReqTime : s1.adding[t] <= s2.adding[t]
                  /\ s1.buying \subseteq s2.buying
Tables == [time |-> roomTime, adding |-> adding, buying |-> buying]
ChainInv ==
    /\ roomTime <= now
    /\ \A s \in Statuses : s.time <= roomTime /\ Within(s, Tables)
    /\ \A s1, s2 \in Statuses : s1.time < s2.time => Within(s1, s2)

\* A status that is complete was read before its clock was.
Sound(s) == s.time # NoTime /\ (~ s.error => s.time <= s.latest /\ s.latest <= now)
ClockInv ==
    /\ \A v \in Invocation : at[v] = "latest" => status[v].time # NoTime
    /\ \A v \in Invocation : at[v] = "send" => Sound(status[v])
    /\ \A k \in DOMAIN toBrowser : OnWay(k) => Sound(toBrowser[k].status)
    /\ state.time = NoTime => state = NoState
    /\ ClockInRange

\* A request that took effect at d is in the tables, and in every status younger than d.
Effective(r, d) ==
    /\ d # NoTime /\ d <= roomTime
    /\ Shows(Tables, r)
    /\ \A s \in Statuses : s.time > d => Shows(s, r)
\* A status as old as d is on display, or arrives before message k does.
Coming(d, k) == \/ state.time >= d
                \/ \E j \in 1 .. k - 1 : OnWay(j) /\ toBrowser[j].status.time >= d
AnsweredInv ==
    /\ \A h \in Handler : success[h] =>
          /\ Effective(req[h], done[h])
          /\ at[h] \in {"status", "latest", "send", "answer"}
          /\ at[h] \in {"latest", "send"} => status[h].time >= done[h]
          /\ at[h] = "answer" /\ link = "up" => Coming(done[h], Len(toBrowser) + 1)
    /\ \A k \in DOMAIN toBrowser : toBrowser[k].kind = "answer" /\ toBrowser[k].success =>
          /\ Effective(toBrowser[k].req, toBrowser[k].done)
          /\ Coming(toBrowser[k].done, k)
    /\ \A a \in acked : Effective(a.r, a.done) /\ state.time >= a.done

\* The numbers of requests: none has the next one, and each is in one place.
IsAnswer(k) == k \in DOMAIN toBrowser /\ toBrowser[k].kind = "answer"
Numbered ==
    /\ \A k \in DOMAIN toServer : toServer[k].id \in 1 .. reqCount
    /\ \A h \in Handler : req[h].id \in 0 .. reqCount /\ (at[h] = "idle" <=> req[h].id = 0)
    /\ \A k \in DOMAIN toBrowser : IsAnswer(k) => toBrowser[k].req.id \in 1 .. reqCount
    /\ \A c \in callbacks : c.id \in 1 .. reqCount
OnePlace ==
    /\ \A j, k \in DOMAIN toServer : toServer[j].id = toServer[k].id => j = k
    /\ \A j, k \in DOMAIN toBrowser :
          IsAnswer(j) /\ IsAnswer(k) /\ toBrowser[j].req.id = toBrowser[k].req.id => j = k
    /\ \A g, h \in Handler : req[g].id = req[h].id /\ req[h].id # 0 => g = h
    /\ \A k \in DOMAIN toServer, h \in Handler : toServer[k].id # req[h].id
    /\ \A j \in DOMAIN toServer, k \in DOMAIN toBrowser :
          IsAnswer(k) => toServer[j].id # toBrowser[k].req.id
    /\ \A k \in DOMAIN toBrowser, h \in Handler : IsAnswer(k) => toBrowser[k].req.id # req[h].id
HasCause(id) == link = "down" \/ id \in dropped \/ Waiting(id) \/ Served(id) \/ Answered(id)
Caused ==
    /\ \A c \in callbacks : HasCause(c.id)
    /\ \A c, d \in callbacks : c.id = d.id => c = d
Opened == /\ state # NoState /\ link # "down" => isOpen
          /\ isOpen => link # "connecting"
Buttons ==
    /\ buying_ => link = "down" \/ \E c \in callbacks : c.kind = "buy"
    /\ \A c \in callbacks : c.kind = "add" => sending[c.time] > 0
    /\ \A c, d \in callbacks : c.kind = "add" /\ d.kind = "add" /\ c.time = d.time => c = d
PendingInv == Numbered /\ OnePlace /\ Caused /\ Opened /\ Buttons

-----------------------------------------------------------------------------
(* Types *)

\* COUNT( * ) of a finite table is a number.
LEMMA CountType ==
  ASSUME NEW B \in Purchases, NEW i
  PROVE  CountBuying(B, i) \in Nat
<1>1. IsFiniteSet({b \in B : b.item = i})
  BY FS_Subset DEF Purchases
<1> QED BY <1>1, FS_CardinalityType DEF CountBuying

\* What the fields of a request are.
LEMMA RequestFields ==
  ASSUME NEW r \in RequestType
  PROVE  /\ r.id \in Nat /\ r.time \in ReqTime
         /\ r.kind = "add" => r.isu \in Nat
         /\ r.kind # "add" => r.item \in Item /\ r.count \in Nat
  BY DEF RequestType, AddRequest, BuyRequest

\* What a status has when nothing has been read.
LEMMA NoStateType == NoState \in StatusType
  BY FS_EmptySet DEF NoState, StatusType, Purchases

\* What a request does to the tables leaves rows of their types.
LEMMA EffectType ==
  ASSUME RoomTypeOK, IsFiniteSet(buying), now \in Nat,
         NEW t, NEW isu \in Nat, NEW i \in Item, NEW n \in Nat, t \in Nat,
         AddIsu(now, t, isu) \/ BuyItem(now, t, i, n)
  PROVE  RoomTypeOK' /\ IsFiniteSet(buying)'
<1>1. CASE AddIsu(now, t, isu)
  <2>1. adding' = [adding EXCEPT ![t] = adding[t] + isu] /\ adding \in [ReqTime -> Nat]
    BY <1>1 DEF AddIsu, RoomTypeOK
  <2>2. ASSUME NEW u \in ReqTime PROVE adding'[u] \in Nat
    BY <2>1
  <2>3. adding' \in [ReqTime -> Nat]
    BY <2>1, <2>2
  <2> QED BY <1>1, <2>3 DEF AddIsu, MoveTime, RoomTypeOK
<1>2. CASE BuyItem(now, t, i, n)
  <2> DEFINE row == [item |-> i, ordinal |-> NextOrdinal(n), time |-> t]
  <2>1. row \in BuyingRow
    BY DEF BuyingRow, NextOrdinal
  <2>2. buying' = buying \cup {row}
    BY <1>2 DEF BuyItem
  <2>3. IsFiniteSet(buying')
    BY <2>2, FS_AddElement
  <2> QED BY <1>2, <2>1, <2>2, <2>3 DEF BuyItem, MoveTime, RoomTypeOK
<1> QED BY <1>1, <1>2

\* The entry sendAdd takes is free.
LEMMA FreeEntryFree ==
  ASSUME NEW t \in Nat, TypeOK, \E u \in ReqTime : u >= t /\ sending[u] = 0
  PROVE  FreeEntry(t) \in ReqTime /\ sending[FreeEntry(t)] = 0
<1> DEFINE Free == {u \in ReqTime : u >= t /\ sending[u] = 0}
<1>1. Free \subseteq Nat /\ Free # {}
  BY ReqTimeAssumption
<1>2. PICK u \in Free : \A v \in Free : ~ (<<v, u>> \in OpToRel(<, Nat))
  BY <1>1, WFMin, NatLessThanWellFounded
<1>3. \A v \in Free : ~ (v < u)
  BY <1>1, <1>2 DEF OpToRel
<1>4. \A v \in ReqTime : v >= t /\ v < u => sending[v] # 0
  BY <1>3
<1> QED BY <1>2, <1>4 DEF FreeEntry

\* At first every variable has its type.
LEMMA TypeInit == Init => TypeOK
<1> SUFFICES ASSUME Init PROVE TypeOK
  OBVIOUS
<1> USE DEF Init
<1>1. RoomTypeOK /\ IsFiniteSet(buying)
  BY RoomTypeInit, FS_EmptySet DEF RoomInit
<1>2. now \in Nat
  <2>1. Clock \subseteq Nat /\ Clock # {}
    BY ClockAssumption, StartAssumption
  <2>2. PICK x \in Clock : \A y \in Clock : ~ (<<y, x>> \in OpToRel(<, Nat))
    BY <2>1, WFMin, NatLessThanWellFounded
  <2>3. \A y \in Clock : ~ (y < x)
    BY <2>1, <2>2 DEF OpToRel
  <2>4. x \in Nat /\ \A y \in Clock : y \in Nat /\ x <= y
    BY <2>1, <2>3
  <2> QED BY <2>4
<1>3. /\ status \in [Invocation -> StatusType]
      /\ state \in StatusType
  BY NoStateType
<1>4. /\ at \in [Invocation -> {"idle", "request", "status", "latest", "send", "answer"}]
      /\ req \in [Handler -> RequestType \cup {NoReq}]
      /\ \A h \in Handler : at[h] = "idle"
  BY DEF Invocation
<1>5. toServer \in Seq(RequestType) /\ toBrowser \in Seq(Message)
  OBVIOUS
<1>6. /\ success \in [Handler -> BOOLEAN]
      /\ done \in [Handler -> Nat \cup {NoTime}]
      /\ sending \in [ReqTime -> Nat]
  OBVIOUS
<1> QED BY <1>1, <1>2, <1>3, <1>4, <1>5, <1>6 DEF TypeOK

\* A request that is sent joins those on their way, and its callback those that wait.
LEMMA SendType ==
  ASSUME TypeOK, NEW r \in RequestType, NEW c \in CallbackType,
         SendRequest(r, c)
  PROVE  /\ reqCount' \in Nat
         /\ callbacks' \subseteq CallbackType
         /\ toServer' \in Seq(RequestType)
<1>1. CASE isOpen
  <2>1. reqCount' = reqCount + 1 /\ callbacks' = callbacks \cup {c}
    BY <1>1 DEF SendRequest
  <2>2. toServer' = Append(toServer, r) \/ toServer' = toServer
    BY <1>1 DEF SendRequest
  <2>3. reqCount \in Nat /\ callbacks \subseteq CallbackType /\ toServer \in Seq(RequestType)
    BY DEF TypeOK
  <2>4. toServer' \in Seq(RequestType)
    BY <2>2, <2>3
  <2> QED BY <2>1, <2>3, <2>4
<1>2. CASE ~ isOpen
  BY <1>2 DEF TypeOK, SendRequest
<1> QED BY <1>1, <1>2

\* The steps of the browser keep the types.
LEMMA TypeBrowser ==
  ASSUME TypeOK,
         \/ Add \/ Update \/ \E i \in Item : Buy(i)
         \/ OnOpen \/ OnClose \/ ReceiveData \/ ReceiveAnswer
  PROVE  TypeOK'
<1> USE DEF roomVars, net, server, history
<1>1. CASE Add
  BY <1>1 DEF Add, TypeOK, RoomTypeOK
<1>2. CASE Update
  <2> DEFINE t == FreeEntry(In(Delay))
             r == [id |-> reqCount + 1, kind |-> "add", time |-> t, isu |-> addValue]
             c == [id |-> reqCount + 1, kind |-> "add", time |-> t]
  <2>1. In(Delay) \in Nat
    BY DelayAssumption DEF TypeOK, In, NoTime
  <2>2. t \in ReqTime
    BY <1>2, <2>1, FreeEntryFree DEF Update
  <2>3. r \in RequestType /\ c \in CallbackType
    BY <2>2 DEF TypeOK, RequestType, AddRequest, CallbackType
  <2>4. SendRequest(r, c) /\ sending' = [sending EXCEPT ![t] = addValue]
    BY <1>2 DEF Update
  <2> HIDE DEF t, r, c
  <2>5. /\ reqCount' \in Nat
        /\ callbacks' \subseteq CallbackType
        /\ toServer' \in Seq(RequestType)
    BY <2>3, <2>4, SendType
  <2>6. sending' \in [ReqTime -> Nat]
    BY <2>4 DEF TypeOK
  <2>7. /\ UNCHANGED <<roomVars, now, link, toBrowser, server, isOpen, state, time, buying_, history>>
        /\ addValue' = 0
    BY <1>2 DEF Update
  <2> QED BY <2>5, <2>6, <2>7 DEF TypeOK, RoomTypeOK
<1>3. ASSUME NEW i \in Item, Buy(i) PROVE TypeOK'
  <2> DEFINE r == [id |-> reqCount + 1, kind |-> "buy", time |-> In(Delay), item |-> i,
                   count |-> CountBuying(state.buying, i)]
             c == [id |-> reqCount + 1, kind |-> "buy", time |-> In(Delay)]
  <2>1. CountBuying(state.buying, i) \in Nat
    BY CountType DEF TypeOK, StatusType
  <2>2. In(Delay) \in ReqTime /\ reqCount + 1 \in Nat
    BY <1>3 DEF Buy, TypeOK
  <2>3. r \in RequestType /\ c \in CallbackType
    BY <2>1, <2>2 DEF RequestType, BuyRequest, CallbackType
  <2>4. SendRequest(r, c)
    BY <1>3 DEF Buy
  <2> HIDE DEF r, c
  <2>5. /\ reqCount' \in Nat
        /\ callbacks' \subseteq CallbackType
        /\ toServer' \in Seq(RequestType)
    BY <2>3, <2>4, SendType
  <2>6. /\ UNCHANGED <<roomVars, now, link, toBrowser, server, isOpen, state, time, sending,
                       addValue, history>>
        /\ buying_' = TRUE
    BY <1>3 DEF Buy
  <2> QED BY <2>5, <2>6 DEF TypeOK, RoomTypeOK
<1>4. CASE OnOpen
  BY <1>4 DEF OnOpen, TypeOK, RoomTypeOK
<1>5. CASE OnClose
  BY <1>5 DEF OnClose, TypeOK, RoomTypeOK
<1>6. CASE ReceiveData
  <2>1. toBrowser # <<>> /\ Head(toBrowser).kind = "status"
    BY <1>6 DEF ReceiveData
  <2>2. Head(toBrowser) \in Message
    BY <2>1 DEF TypeOK
  <2>3. Head(toBrowser).status \in StatusType
    BY <2>1, <2>2 DEF Message, StatusMsg, AnswerMsg
  <2>4. Head(toBrowser).status.latest \in Nat
    BY <2>3 DEF StatusType
  <2>5. state' \in StatusType /\ time' \in Nat \cup {NoTime}
    BY <1>6, <2>3, <2>4 DEF ReceiveData, TypeOK
  <2>6. toBrowser' \in Seq(Message)
    BY <1>6, <2>1 DEF ReceiveData, TypeOK
  <2>7. UNCHANGED <<roomVars, now, link, toServer, server, isOpen, reqCount, callbacks,
                    sending, addValue, buying_, history>>
    BY <1>6 DEF ReceiveData
  <2> QED BY <2>5, <2>6, <2>7 DEF TypeOK, RoomTypeOK
<1>7. CASE ReceiveAnswer
  <2> DEFINE a == Head(toBrowser)
  <2>1. toBrowser # <<>> /\ a.kind = "answer"
    BY <1>7 DEF ReceiveAnswer
  <2>2. a \in Message
    BY <2>1 DEF TypeOK
  <2>3. a.req \in RequestType /\ a.done \in Nat \cup {NoTime}
    BY <2>1, <2>2 DEF Message, StatusMsg, AnswerMsg
  <2>4. /\ callbacks' \subseteq callbacks
        /\ sending' \in [ReqTime -> Nat]
        /\ buying_' \in BOOLEAN
    <3>1. PICK c \in callbacks : /\ callbacks' = callbacks \ {c}
                                 /\ \/ sending' = [sending EXCEPT ![c.time] = 0] /\ buying_' = buying_
                                    \/ buying_' = FALSE /\ sending' = sending
      BY <1>7 DEF ReceiveAnswer
    <3>2. sending' \in [ReqTime -> Nat] /\ buying_' \in BOOLEAN
      <4>1. sending \in [ReqTime -> Nat] /\ buying_ \in BOOLEAN
        BY DEF TypeOK
      <4>2. CASE sending' = [sending EXCEPT ![c.time] = 0] /\ buying_' = buying_
        BY <4>1, <4>2
      <4> QED BY <3>1, <4>1, <4>2
    <3> QED BY <3>1, <3>2
  <2>5. acked' \subseteq AckType
    BY <1>7, <2>3 DEF ReceiveAnswer, TypeOK, AckType
  <2>6. toBrowser' \in Seq(Message)
    BY <1>7, <2>1 DEF ReceiveAnswer, TypeOK
  <2>7. UNCHANGED <<roomVars, now, link, toServer, server, isOpen, reqCount, state, time,
                    addValue, done>>
    BY <1>7 DEF ReceiveAnswer
  <2> QED BY <2>4, <2>5, <2>6, <2>7 DEF TypeOK, RoomTypeOK
<1> QED BY <1>1, <1>2, <1>3, <1>4, <1>5, <1>6, <1>7

\* What a request does keeps the types.
LEMMA RequestEffect ==
  ASSUME TypeOK, NEW r \in RequestType, Effect(r)
  PROVE  RoomTypeOK' /\ IsFiniteSet(buying)'
<1>1. r.time \in Nat
  BY RequestFields, ReqTimeAssumption
<1>2. CASE r.kind = "add"
  <2>1. AddIsu(now, r.time, r.isu) /\ r.isu \in Nat
    BY <1>2, RequestFields DEF Effect
  <2>2. adding' = [adding EXCEPT ![r.time] = adding[r.time] + r.isu] /\ adding \in [ReqTime -> Nat]
    BY <2>1 DEF AddIsu, TypeOK, RoomTypeOK
  <2>3. ASSUME NEW u \in ReqTime PROVE adding'[u] \in Nat
    BY <2>1, <2>2
  <2>4. adding' \in [ReqTime -> Nat]
    BY <2>2, <2>3
  <2> QED BY <2>1, <2>4 DEF AddIsu, MoveTime, RoomTypeOK, TypeOK
<1>3. CASE r.kind # "add"
  <2>1. BuyItem(now, r.time, r.item, r.count) /\ r.item \in Item /\ r.count \in Nat
    BY <1>3, RequestFields DEF Effect
  <2>2. now \in Nat /\ RoomTypeOK /\ IsFiniteSet(buying)
    BY DEF TypeOK
  <2>3. 0 \in Nat
    OBVIOUS
  <2> QED BY <1>1, <2>1, <2>2, <2>3, EffectType
<1> QED BY <1>2, <1>3

\* The steps of a handler keep the types.
LEMMA TypeHandler ==
  ASSUME TypeOK, NEW h \in Handler,
         OnMessage(h) \/ Request(h) \/ RequestFails(h) \/ Answer(h)
  PROVE  TypeOK'
<1> USE DEF roomVars, net, server, browser, history
<1>0. h \in Invocation
  BY DEF Invocation
<1>1. CASE OnMessage(h)
  <2>1. toServer \in Seq(RequestType) /\ toServer # <<>>
    BY <1>1 DEF OnMessage, TypeOK
  <2>2. Head(toServer) \in RequestType /\ Tail(toServer) \in Seq(RequestType)
    BY <2>1
  <2>3. /\ req' = [req EXCEPT ![h] = Head(toServer)]
        /\ toServer' = Tail(toServer)
        /\ at' = [at EXCEPT ![h] = "request"]
    BY <1>1 DEF OnMessage
  <2>4. /\ at' \in [Invocation -> {"idle", "request", "status", "latest", "send", "answer"}]
        /\ req' \in [Handler -> RequestType \cup {NoReq}]
        /\ \A g \in Handler : at'[g] # "idle" => req'[g] \in RequestType
    BY <1>0, <2>2, <2>3 DEF TypeOK, Invocation
  <2>5. UNCHANGED <<roomVars, now, link, toBrowser, ready, timer, success, status, browser, history>>
    BY <1>1 DEF OnMessage
  <2> QED BY <2>2, <2>3, <2>4, <2>5 DEF TypeOK, RoomTypeOK
<1>2. CASE Request(h)
  <2>1. at[h] = "request" /\ req[h] \in RequestType
    BY <1>2 DEF Request, TypeOK
  <2>2. RoomTypeOK' /\ IsFiniteSet(buying)'
    BY <1>2, <2>1, RequestEffect DEF Request, TypeOK, RoomTypeOK
  <2>3. /\ at' \in [Invocation -> {"idle", "request", "status", "latest", "send", "answer"}]
        /\ \A g \in Handler : at'[g] # "idle" => at[g] # "idle"
    BY <1>0, <1>2, <2>1 DEF Request, TypeOK, Invocation
  <2>4. success' \in [Handler -> BOOLEAN] /\ done' \in [Handler -> Nat \cup {NoTime}]
    BY <1>2 DEF Request, TypeOK
  <2>5. UNCHANGED <<now, net, ready, timer, req, status, browser, acked>>
    BY <1>2 DEF Request
  <2> QED BY <2>2, <2>3, <2>4, <2>5 DEF TypeOK
<1>3. CASE RequestFails(h)
  <2>1. at[h] = "request" /\ req[h] \in RequestType
    BY <1>3 DEF RequestFails, TypeOK
  <2>2. RoomTypeOK' /\ IsFiniteSet(buying)'
    BY <1>3, <2>1, RequestEffect DEF RequestFails, TypeOK, RoomTypeOK
  <2>3. /\ at' \in [Invocation -> {"idle", "request", "status", "latest", "send", "answer"}]
        /\ \A g \in Handler : at'[g] # "idle" => at[g] # "idle"
    BY <1>0, <1>3, <2>1 DEF RequestFails, TypeOK, Invocation
  <2>4. UNCHANGED <<now, net, ready, timer, req, success, status, browser, history>>
    BY <1>3 DEF RequestFails
  <2> QED BY <2>2, <2>3, <2>4 DEF TypeOK
<1>4. CASE Answer(h)
  <2> DEFINE m == [kind |-> "answer", req |-> req[h], success |-> success[h], done |-> done[h]]
  <2>1. at[h] = "answer" /\ req[h] \in RequestType
    BY <1>4 DEF Answer, TypeOK
  <2>2. m \in Message
    BY <2>1 DEF Message, AnswerMsg, TypeOK
  <2>3. toBrowser' = Append(toBrowser, m) \/ toBrowser' = toBrowser
    BY <1>4 DEF Answer, Send
  <2> HIDE DEF m
  <2>4. toBrowser \in Seq(Message)
    BY DEF TypeOK
  <2>5. toBrowser' \in Seq(Message)
    BY <2>2, <2>3, <2>4
  <2>6. /\ at' = [at EXCEPT ![h] = "idle"]
        /\ req' = [req EXCEPT ![h] = NoReq]
        /\ success' = [success EXCEPT ![h] = FALSE]
        /\ done' = [done EXCEPT ![h] = NoTime]
    BY <1>4 DEF Answer
  <2>7. /\ at' \in [Invocation -> {"idle", "request", "status", "latest", "send", "answer"}]
        /\ req' \in [Handler -> RequestType \cup {NoReq}]
        /\ \A g \in Handler : at'[g] # "idle" => req'[g] \in RequestType
    BY <1>0, <2>6 DEF TypeOK, Invocation
  <2>8. success' \in [Handler -> BOOLEAN] /\ done' \in [Handler -> Nat \cup {NoTime}]
    BY <2>6 DEF TypeOK
  <2>9. UNCHANGED <<roomVars, now, link, toServer, ready, timer, status, browser, acked>>
    BY <1>4 DEF Answer
  <2> QED BY <2>5, <2>7, <2>8, <2>9 DEF TypeOK, RoomTypeOK
<1> QED BY <1>1, <1>2, <1>3, <1>4

\* The steps of a status keep the types.
LEMMA TypeStatus ==
  ASSUME TypeOK, NEW v \in Invocation,
         Status(v) \/ LatestTime(v) \/ SendStatus(v) \/ LatestFails(v) \/ StatusFails(v)
  PROVE  TypeOK'
<1> USE DEF roomVars, net, server, browser, history
<1>1. CASE Status(v)
  <2> DEFINE s == [time |-> now, latest |-> 0, error |-> FALSE, adding |-> adding, buying |-> buying]
  <2>1. s \in StatusType
    BY DEF StatusType, TypeOK, RoomTypeOK, Purchases
  <2>2. /\ at[v] = "status" /\ at' = [at EXCEPT ![v] = "latest"]
        /\ status' = [status EXCEPT ![v] = s]
        /\ roomTime' = now /\ adding' = adding /\ buying' = buying
    BY <1>1 DEF Status, GetStatus, MoveTime
  <2> HIDE DEF s
  <2>3. RoomTypeOK' /\ IsFiniteSet(buying)'
    BY <2>2 DEF TypeOK, RoomTypeOK
  <2>4. status' \in [Invocation -> StatusType]
    BY <2>1, <2>2 DEF TypeOK
  <2>5. /\ at' \in [Invocation -> {"idle", "request", "status", "latest", "send", "answer"}]
        /\ \A g \in Handler : at'[g] # "idle" => at[g] # "idle"
    BY <2>2 DEF TypeOK, Invocation
  <2>6. UNCHANGED <<now, net, ready, timer, req, success, browser, history>>
    BY <1>1 DEF Status
  <2> QED BY <2>3, <2>4, <2>5, <2>6 DEF TypeOK
<1>2. CASE LatestTime(v) \/ LatestFails(v)
  <2>1. [status[v] EXCEPT !.latest = now] \in StatusType /\ [status[v] EXCEPT !.error = TRUE] \in StatusType
    BY DEF StatusType, TypeOK
  <2>2. /\ at[v] = "latest" /\ at' = [at EXCEPT ![v] = "send"]
        /\ \/ status' = [status EXCEPT ![v] = [status[v] EXCEPT !.latest = now]]
           \/ status' = [status EXCEPT ![v] = [status[v] EXCEPT !.error = TRUE]]
    BY <1>2 DEF LatestTime, LatestFails, LatestReading
  <2>3. status' \in [Invocation -> StatusType]
    BY <2>1, <2>2 DEF TypeOK
  <2>4. /\ at' \in [Invocation -> {"idle", "request", "status", "latest", "send", "answer"}]
        /\ \A g \in Handler : at'[g] # "idle" => at[g] # "idle"
    BY <2>2 DEF TypeOK, Invocation
  <2>5. UNCHANGED <<roomVars, now, net, ready, timer, req, success, browser, history>>
    BY <1>2 DEF LatestTime, LatestFails
  <2> QED BY <2>3, <2>4, <2>5 DEF TypeOK, RoomTypeOK
<1>3. CASE SendStatus(v)
  <2> DEFINE m == [kind |-> "status", status |-> status[v]]
  <2>1. m \in Message
    BY DEF Message, StatusMsg, TypeOK
  <2>2. toBrowser' = Append(toBrowser, m) \/ toBrowser' = toBrowser
    BY <1>3 DEF SendStatus, Send
  <2> HIDE DEF m
  <2>3. toBrowser \in Seq(Message)
    BY DEF TypeOK
  <2>4. toBrowser' \in Seq(Message)
    BY <2>1, <2>2, <2>3
  <2>5. /\ at[v] = "send"
        /\ at' = [at EXCEPT ![v] = AfterStatus(v)]
        /\ status' = [status EXCEPT ![v] = NoState]
        /\ timer' \in {timer, now + Period}
    BY <1>3 DEF SendStatus
  <2>6. status' \in [Invocation -> StatusType]
    BY <2>5, NoStateType DEF TypeOK
  <2>7. timer' \in Nat \cup {NoTime}
    BY <2>5, DelayAssumption DEF TypeOK
  <2>8. /\ at' \in [Invocation -> {"idle", "request", "status", "latest", "send", "answer"}]
        /\ \A g \in Handler : at'[g] # "idle" => at[g] # "idle"
    BY <2>5 DEF TypeOK, Invocation, AfterStatus
  <2>9. UNCHANGED <<roomVars, now, link, toServer, ready, req, success, browser, history>>
    BY <1>3 DEF SendStatus
  <2> QED BY <2>4, <2>6, <2>7, <2>8, <2>9 DEF TypeOK, RoomTypeOK
<1>4. CASE StatusFails(v)
  <2>1. /\ at' = [at EXCEPT ![v] = "idle"]
        /\ \/ /\ req' = [req EXCEPT ![v] = NoReq]
              /\ success' = [success EXCEPT ![v] = FALSE]
              /\ done' = [done EXCEPT ![v] = NoTime]
           \/ UNCHANGED <<req, success, done>>
    BY <1>4 DEF StatusFails
  <2>2. /\ at' \in [Invocation -> {"idle", "request", "status", "latest", "send", "answer"}]
        /\ \A g \in Handler : at'[g] # "idle" => at[g] # "idle" /\ g # v
    BY <2>1 DEF TypeOK, Invocation
  <2>3. /\ req' \in [Handler -> RequestType \cup {NoReq}]
        /\ \A g \in Handler : at'[g] # "idle" => req'[g] \in RequestType
    BY <2>1, <2>2 DEF TypeOK
  <2>4. success' \in [Handler -> BOOLEAN] /\ done' \in [Handler -> Nat \cup {NoTime}]
    BY <2>1 DEF TypeOK
  <2>5. UNCHANGED <<roomVars, now, net, ready, timer, status, browser, acked>>
    BY <1>4 DEF StatusFails
  <2> QED BY <2>2, <2>3, <2>4, <2>5 DEF TypeOK, RoomTypeOK
<1> QED BY <1>1, <1>2, <1>3, <1>4


\* Every step keeps the types.
LEMMA TypeStep == TypeOK /\ [Next]_vars => TypeOK'
<1> SUFFICES ASSUME TypeOK, [Next]_vars PROVE TypeOK'
  OBVIOUS
<1> USE DEF roomVars, net, server, browser, history
<1>1. CASE \/ Add \/ Update \/ \E i \in Item : Buy(i)
           \/ OnOpen \/ OnClose \/ ReceiveData \/ ReceiveAnswer
  BY <1>1, TypeBrowser
<1>2. CASE Accept
  <2>1. now + Period \in Nat
    BY DelayAssumption DEF TypeOK
  <2>2. /\ timer' = now + Period /\ link' = "up" /\ ready' = TRUE
        /\ at' = [at EXCEPT !["first"] = "status"]
        /\ UNCHANGED <<roomVars, now, toServer, toBrowser, req, success, status, browser, history>>
    BY <1>2 DEF Accept
  <2>3. /\ at' \in [Invocation -> {"idle", "request", "status", "latest", "send", "answer"}]
        /\ \A g \in Handler : at'[g] = at[g]
    BY <2>2, HandlerAssumption DEF TypeOK, Invocation
  <2> QED BY <2>1, <2>2, <2>3 DEF TypeOK, RoomTypeOK
<1>3. CASE Loop
  <2>1. /\ timer' = NoTime
        /\ at' = [at EXCEPT !["loop"] = IF ready THEN "status" ELSE "idle"]
        /\ UNCHANGED <<roomVars, now, net, ready, req, success, status, browser, history>>
    BY <1>3 DEF Loop
  <2>2. /\ at' \in [Invocation -> {"idle", "request", "status", "latest", "send", "answer"}]
        /\ \A g \in Handler : at'[g] = at[g]
    BY <2>1, HandlerAssumption DEF TypeOK, Invocation
  <2> QED BY <2>1, <2>2 DEF TypeOK, RoomTypeOK
<1>4. CASE ServerClose
  BY <1>4 DEF ServerClose, TypeOK, RoomTypeOK
<1>5. CASE Serve \/ \E v \in Invocation : LatestFails(v) \/ StatusFails(v)
  BY <1>5, TypeHandler, TypeStatus DEF Serve
<1>6. CASE Disconnect
  <2>1. /\ link' = "down" /\ toServer' = <<>> /\ toBrowser' = <<>>
        /\ UNCHANGED <<roomVars, now, server, browser, history>>
    BY <1>6 DEF Disconnect
  <2>2. toServer' \in Seq(RequestType) /\ toBrowser' \in Seq(Message)
    BY <2>1
  <2> QED BY <2>1, <2>2 DEF TypeOK, RoomTypeOK
<1>7. CASE Others
  <2>1. now + Delay \in Nat /\ 0 \in Nat
    BY DelayAssumption DEF TypeOK
  <2>2. RoomTypeOK /\ IsFiniteSet(buying) /\ buying \in Purchases
    BY DEF TypeOK, RoomTypeOK, Purchases
  <2>3. RoomTypeOK' /\ IsFiniteSet(buying)'
    <3>1. CASE \E isu \in Isu : AddIsu(now, now + Delay, isu)
      <4>1. PICK isu \in Isu : AddIsu(now, now + Delay, isu)
        BY <3>1
      <4>2. adding' = [adding EXCEPT ![now + Delay] = adding[now + Delay] + isu]
            /\ adding \in [ReqTime -> Nat] /\ isu \in Nat
        BY <4>1, IsuAssumption DEF AddIsu, TypeOK, RoomTypeOK
      <4>3. ASSUME NEW u \in ReqTime PROVE adding'[u] \in Nat
        BY <4>2
      <4>4. adding' \in [ReqTime -> Nat]
        BY <4>2, <4>3
      <4> QED BY <4>1, <4>4 DEF AddIsu, MoveTime, RoomTypeOK, TypeOK
    <3>2. CASE \E i \in Item : BuyItem(now, now + Delay, i, CountBuying(buying, i))
      <4>1. PICK i \in Item : BuyItem(now, now + Delay, i, CountBuying(buying, i))
        BY <3>2
      <4>2. CountBuying(buying, i) \in Nat
        BY <2>2, CountType
      <4>3. now \in Nat
        BY DEF TypeOK
      <4> QED BY <2>1, <2>2, <4>1, <4>2, <4>3, EffectType
    <3> QED BY <1>7, <3>1, <3>2 DEF Others
  <2>4. UNCHANGED <<now, net, server, browser, history>>
    BY <1>7 DEF Others
  <2> QED BY <2>3, <2>4 DEF TypeOK
<1>8. CASE Tick
  <2>1. /\ now' = now + 1
        /\ \/ time' = NoTime
           \/ time # NoTime /\ time' = time + 1
        /\ UNCHANGED <<roomVars, net, server, isOpen, reqCount, callbacks, state, sending,
                       addValue, buying_, history>>
    BY <1>8 DEF Tick
  <2>2. now' \in Nat /\ time' \in Nat \cup {NoTime}
    BY <2>1 DEF TypeOK
  <2> QED BY <2>1, <2>2 DEF TypeOK, RoomTypeOK
<1>9. CASE UNCHANGED vars
  BY <1>9 DEF vars, TypeOK, RoomTypeOK
<1> QED BY <1>1, <1>2, <1>3, <1>4, <1>5, <1>6, <1>7, <1>8, <1>9 DEF Next

\* Every variable always has its type.
THEOREM SessionTypeCorrect == Spec => []TypeOK
<1> QED BY TypeInit, TypeStep, PTL DEF Spec

-----------------------------------------------------------------------------
(* One loop *)

\* The browser's steps do not touch the server, the tables or the link.
LEMMA BrowserFrame ==
  ASSUME \/ Add \/ Update \/ \E i \in Item : Buy(i)
         \/ OnOpen \/ OnClose \/ ReceiveData \/ ReceiveAnswer
  PROVE  UNCHANGED <<roomVars, now, link, server, done>>
<1> USE DEF net, history
<1>1. CASE Add \/ Update \/ \E i \in Item : Buy(i)
  BY <1>1 DEF Add, Update, Buy
<1>2. CASE OnOpen \/ OnClose
  BY <1>2 DEF OnOpen, OnClose
<1>3. CASE ReceiveData \/ ReceiveAnswer
  BY <1>3 DEF ReceiveData, ReceiveAnswer
<1> QED BY <1>1, <1>2, <1>3

\* No step arms the timer of a socket that is closed, or while the loop is at work.
LEMMA LoopStep == TypeOK /\ LoopInv /\ [Next]_vars => LoopInv'
<1> SUFFICES ASSUME TypeOK, LoopInv, [Next]_vars PROVE LoopInv'
  OBVIOUS
<1> USE DEF LoopInv, net, server
<1>0. at \in [Invocation -> {"idle", "request", "status", "latest", "send", "answer"}]
      /\ {"first", "loop"} \subseteq Invocation /\ \A h \in Handler : h # "loop"
  BY HandlerAssumption DEF TypeOK, Invocation
<1>1. CASE \/ Add \/ Update \/ \E i \in Item : Buy(i)
           \/ OnOpen \/ OnClose \/ ReceiveData \/ ReceiveAnswer
  <2>1. UNCHANGED <<link, server>>
    BY <1>1, BrowserFrame
  <2> QED BY <2>1
<1>2. CASE Accept
  BY <1>0, <1>2 DEF Accept
<1>3. CASE Loop
  BY <1>0, <1>3 DEF Loop
<1>4. CASE ServerClose
  BY <1>4 DEF ServerClose
<1>5. ASSUME NEW h \in Handler, OnMessage(h) \/ Request(h) \/ RequestFails(h) \/ Answer(h)
      PROVE  LoopInv'
  <2>1. at'["loop"] = at["loop"] /\ (ready \/ at[h] # "idle") /\ h \in Invocation
    BY <1>0, <1>5 DEF OnMessage, Request, RequestFails, Answer, Invocation
  <2>2. UNCHANGED <<link, ready, timer>>
    BY <1>5 DEF OnMessage, Request, RequestFails, Answer
  <2> QED BY <2>1, <2>2
<1>6. ASSUME NEW v \in Invocation, Status(v) \/ LatestTime(v) \/ LatestFails(v) \/ StatusFails(v)
      PROVE  LoopInv'
  <2>1. at[v] # "idle" /\ (at'["loop"] = at["loop"] \/ v = "loop")
    BY <1>0, <1>6 DEF Status, LatestTime, LatestFails, StatusFails
  <2>2. UNCHANGED <<link, ready, timer>>
    BY <1>6 DEF Status, LatestTime, LatestFails, StatusFails
  <2> QED BY <2>1, <2>2
<1>7. ASSUME NEW v \in Invocation, SendStatus(v) PROVE LoopInv'
  <2>1. at[v] # "idle" /\ UNCHANGED <<link, ready>>
    BY <1>7 DEF SendStatus
  <2>2. CASE v = "loop"
    <3>1. at'["loop"] = "idle" /\ (timer' = timer \/ ready)
      BY <1>0, <1>7, <2>2 DEF SendStatus, AfterStatus, Rearm
    <3> QED BY <2>1, <2>2, <3>1
  <2>3. CASE v # "loop"
    <3>1. at'["loop"] = at["loop"] /\ timer' = timer
      BY <1>0, <1>7, <2>3 DEF SendStatus
    <3> QED BY <2>1, <3>1
  <2> QED BY <2>2, <2>3
<1>8. CASE Disconnect \/ Others \/ Tick
  BY <1>8 DEF Disconnect, Others, Tick
<1>9. CASE UNCHANGED vars
  BY <1>9 DEF vars
<1> QED BY <1>1, <1>2, <1>3, <1>4, <1>5, <1>6, <1>7, <1>8, <1>9 DEF Next, Serve

\* The timer of the loop and the socket always agree.
THEOREM LoopCorrect == Spec => []LoopInv
<1>1. Init => LoopInv
  BY DEF Init, LoopInv
<1> QED BY <1>1, SessionTypeCorrect, LoopStep, PTL DEF Spec

\* There is one loop per socket, and none on a socket that is closed (index.js:67).
THEOREM OneLoopCorrect == Spec => []OneLoop
<1>1. LoopInv => OneLoop
  BY DEF LoopInv, OneLoop
<1> QED BY <1>1, LoopCorrect, PTL

-----------------------------------------------------------------------------
(* The statuses form a chain *)

\* The messages after the first one.
LEMMA TailAt ==
  ASSUME NEW T, NEW s \in Seq(T), s # <<>>, NEW k \in DOMAIN Tail(s)
  PROVE  k + 1 \in DOMAIN s /\ Tail(s)[k] = s[k + 1] /\ k \in Nat \ {0}
  OBVIOUS

\* The messages once one more is sent.
LEMMA AppendAt ==
  ASSUME NEW T, NEW s \in Seq(T), NEW e, NEW k \in DOMAIN Append(s, e)
  PROVE  \/ k \in DOMAIN s /\ Append(s, e)[k] = s[k]
         \/ k = Len(s) + 1 /\ Append(s, e)[k] = e
  OBVIOUS

\* What a status on its way is.
LEMMA MessageFields ==
  ASSUME TypeOK, NEW k \in DOMAIN toBrowser
  PROVE  /\ toBrowser[k].kind \in {"status", "answer"}
         /\ toBrowser[k].kind = "status" => toBrowser[k].status \in StatusType
         /\ toBrowser[k].kind = "answer" => /\ toBrowser[k].req \in RequestType
                                            /\ toBrowser[k].success \in BOOLEAN
                                            /\ toBrowser[k].done \in Nat \cup {NoTime}
<1>1. toBrowser[k] \in Message
  BY DEF TypeOK
<1> QED BY <1>1 DEF Message, StatusMsg, AnswerMsg

\* Where statuses are.
LEMMA StatusesAre ==
  /\ state \in Statuses
  /\ \A v \in Invocation : status[v] \in Statuses
  /\ \A k \in DOMAIN toBrowser : OnWay(k) => toBrowser[k].status \in Statuses
  /\ \A s \in Statuses : \/ s = state
                         \/ \E v \in Invocation : s = status[v]
                         \/ \E k \in DOMAIN toBrowser : OnWay(k) /\ s = toBrowser[k].status
  BY DEF Statuses

\* Wherever they are, they are statuses.
LEMMA StatusesType == TypeOK => Statuses \subseteq StatusType
<1> SUFFICES ASSUME TypeOK, NEW s \in Statuses PROVE s \in StatusType
  OBVIOUS
<1>1. CASE s = state \/ \E v \in Invocation : s = status[v]
  BY <1>1 DEF TypeOK
<1>2. CASE \E k \in DOMAIN toBrowser : OnWay(k) /\ s = toBrowser[k].status
  BY <1>2, MessageFields DEF OnWay
<1> QED BY <1>1, <1>2, StatusesAre

\* What the fields of a status are.
LEMMA StatusFields ==
  ASSUME NEW s \in StatusType
  PROVE  /\ s.time \in Nat \cup {NoTime} /\ s.latest \in Nat /\ s.error \in BOOLEAN
         /\ s.adding \in [ReqTime -> Nat]
  BY DEF StatusType

\* The steps that move a status, and the others.
LEMMA StatusCases ==
  ASSUME [Next]_vars
  PROVE  \/ UNCHANGED <<state, status, toBrowser>>
         \/ ReceiveData \/ ReceiveAnswer \/ Disconnect
         \/ \E h \in Handler : Answer(h)
         \/ \E v \in Invocation : Status(v) \/ LatestTime(v) \/ LatestFails(v) \/ SendStatus(v)
<1> USE DEF net, server, browser
<1>1. CASE Add \/ Update \/ \E i \in Item : Buy(i)
  BY <1>1 DEF Add, Update, Buy
<1>2. CASE OnOpen \/ OnClose
  BY <1>2 DEF OnOpen, OnClose
<1>3. CASE Accept \/ Loop \/ ServerClose
  BY <1>3 DEF Accept, Loop, ServerClose
<1>4. CASE \E h \in Handler : OnMessage(h) \/ Request(h) \/ RequestFails(h)
  BY <1>4 DEF OnMessage, Request, RequestFails
<1>5. CASE \E v \in Invocation : StatusFails(v)
  BY <1>5 DEF StatusFails
<1>6. CASE Others \/ Tick \/ UNCHANGED vars
  BY <1>6 DEF Others, Tick, vars
<1> QED BY <1>1, <1>2, <1>3, <1>4, <1>5, <1>6 DEF Next, Serve

Alike(s, r) == s.time = r.time /\ s.adding = r.adding /\ s.buying = r.buying

\* A status is either one that was there, or shows nothing, or what the tables hold now.
LEMMA StatusesStep ==
  ASSUME TypeOK, [Next]_vars, NEW s \in Statuses'
  PROVE  \/ \E r \in Statuses : Alike(s, r)
         \/ Alike(s, NoState)
         \/ Alike(s, Tables') /\ roomTime' = now
<1> USE DEF net, server, browser
<1>0. \/ s = state'
      \/ \E v \in Invocation : s = status'[v]
      \/ \E k \in DOMAIN toBrowser' : toBrowser'[k].kind = "status" /\ s = toBrowser'[k].status
  BY DEF Statuses, OnWay
<1>1. CASE UNCHANGED <<state, status, toBrowser>>
  BY <1>0, <1>1, StatusesAre DEF OnWay, Alike
<1>2. CASE ReceiveData
  <2>1. /\ toBrowser \in Seq(Message) /\ toBrowser # <<>>
        /\ toBrowser' = Tail(toBrowser)
        /\ state' = state \/ state' = Head(toBrowser).status
        /\ Head(toBrowser).kind = "status"
        /\ status' = status
    BY <1>2 DEF ReceiveData, TypeOK
  <2>2. 1 \in DOMAIN toBrowser /\ Head(toBrowser) = toBrowser[1]
    BY <2>1
  <2>3. state' \in Statuses
    BY <2>1, <2>2, StatusesAre DEF OnWay
  <2>4. ASSUME NEW k \in DOMAIN toBrowser', toBrowser'[k].kind = "status"
        PROVE  toBrowser'[k].status \in Statuses
    BY <2>1, <2>4, TailAt, StatusesAre DEF OnWay
  <2> QED BY <1>0, <2>1, <2>3, <2>4, StatusesAre DEF Alike
<1>3. CASE ReceiveAnswer
  <2>1. /\ toBrowser \in Seq(Message) /\ toBrowser # <<>>
        /\ toBrowser' = Tail(toBrowser)
        /\ state' = state /\ status' = status
    BY <1>3 DEF ReceiveAnswer, TypeOK
  <2>2. ASSUME NEW k \in DOMAIN toBrowser', toBrowser'[k].kind = "status"
        PROVE  toBrowser'[k].status \in Statuses
    BY <2>1, <2>2, TailAt, StatusesAre DEF OnWay
  <2> QED BY <1>0, <2>1, <2>2, StatusesAre DEF Alike
<1>4. CASE Disconnect
  BY <1>0, <1>4, StatusesAre DEF Disconnect, Alike
<1>5. ASSUME NEW h \in Handler, Answer(h)
      PROVE  \E r \in Statuses : Alike(s, r)
  <2> DEFINE m == [kind |-> "answer", req |-> req[h], success |-> success[h], done |-> done[h]]
  <2>1. /\ toBrowser \in Seq(Message)
        /\ toBrowser' = Append(toBrowser, m) \/ toBrowser' = toBrowser
        /\ state' = state /\ status' = status
    BY <1>5 DEF Answer, Send, TypeOK
  <2>2. m.kind # "status"
    OBVIOUS
  <2> HIDE DEF m
  <2>3. ASSUME NEW k \in DOMAIN toBrowser', toBrowser'[k].kind = "status"
        PROVE  toBrowser'[k].status \in Statuses
    BY <2>1, <2>2, <2>3, AppendAt, StatusesAre DEF OnWay
  <2> QED BY <1>0, <2>1, <2>3, StatusesAre DEF Alike
<1>6. ASSUME NEW v \in Invocation, Status(v)
      PROVE  \/ \E r \in Statuses : Alike(s, r)
             \/ Alike(s, Tables') /\ roomTime' = now
  <2> DEFINE n == [time |-> now, latest |-> 0, error |-> FALSE, adding |-> adding, buying |-> buying]
  <2>1. /\ state' = state /\ toBrowser' = toBrowser /\ roomTime' = now
        /\ adding' = adding /\ buying' = buying
        /\ status' = [status EXCEPT ![v] = n] /\ status \in [Invocation -> StatusType]
    BY <1>6 DEF Status, GetStatus, MoveTime, TypeOK
  <2>2. Alike(n, Tables')
    BY <2>1 DEF Alike, Tables
  <2> HIDE DEF n
  <2>3. \A w \in Invocation : status'[w] = status[w] \/ status'[w] = n
    BY <2>1
  <2> QED BY <1>0, <2>1, <2>2, <2>3, StatusesAre DEF Alike, OnWay
<1>7. ASSUME NEW v \in Invocation, LatestTime(v) \/ LatestFails(v)
      PROVE  \E r \in Statuses : Alike(s, r)
  <2> DEFINE n == status'[v]
  <2>1. /\ state' = state /\ toBrowser' = toBrowser /\ status[v] \in StatusType
        /\ \A w \in Invocation : w # v => status'[w] = status[w]
        /\ \/ n = [status[v] EXCEPT !.latest = now]
           \/ n = [status[v] EXCEPT !.error = TRUE]
    BY <1>7 DEF LatestTime, LatestFails, LatestReading, TypeOK
  <2>2. Alike(n, status[v])
    BY <2>1 DEF Alike, StatusType
  <2> HIDE DEF n
  <2>3. \A w \in Invocation : status'[w] = status[w] \/ status'[w] = n
    BY <2>1 DEF n
  <2> QED BY <1>0, <2>1, <2>2, <2>3, StatusesAre DEF Alike, OnWay
<1>8. ASSUME NEW v \in Invocation, SendStatus(v)
      PROVE  (\E r \in Statuses : Alike(s, r)) \/ Alike(s, NoState)
  <2> DEFINE m == [kind |-> "status", status |-> status[v]]
  <2>1. /\ toBrowser \in Seq(Message)
        /\ toBrowser' = Append(toBrowser, m) \/ toBrowser' = toBrowser
        /\ state' = state
        /\ status' = [status EXCEPT ![v] = NoState] /\ status \in [Invocation -> StatusType]
    BY <1>8 DEF SendStatus, Send, TypeOK
  <2>2. m.status \in Statuses
    BY StatusesAre
  <2> HIDE DEF m
  <2>3. ASSUME NEW k \in DOMAIN toBrowser', toBrowser'[k].kind = "status"
        PROVE  toBrowser'[k].status \in Statuses
    BY <2>1, <2>2, <2>3, AppendAt, StatusesAre DEF OnWay
  <2>4. \A w \in Invocation : status'[w] = status[w] \/ status'[w] = NoState
    BY <2>1
  <2> QED BY <1>0, <2>1, <2>3, <2>4, StatusesAre DEF Alike
<1> QED BY <1>1, <1>2, <1>3, <1>4, <1>5, <1>6, <1>7, <1>8, StatusCases


\* The room's time moves to the clock's, and the tables only grow.
LEMMA RoomGrows ==
  ASSUME TypeOK, roomTime <= now, [Next]_vars
  PROVE  /\ roomTime' \in {roomTime, now} /\ now <= now'
         /\ \A t \in ReqTime : adding[t] <= adding'[t]
         /\ buying \subseteq buying'
<1> USE DEF roomVars
<1>0. /\ adding \in [ReqTime -> Nat] /\ roomTime \in Nat /\ now \in Nat
      /\ \A t \in ReqTime : adding[t] <= adding[t]
  BY DEF TypeOK, RoomTypeOK
<1>1. CASE UNCHANGED <<roomVars, now>>
  BY <1>0, <1>1
<1>2. CASE \/ Add \/ Update \/ \E i \in Item : Buy(i)
           \/ OnOpen \/ OnClose \/ ReceiveData \/ ReceiveAnswer
  BY <1>1, <1>2, BrowserFrame
<1>3. CASE Accept \/ Loop \/ ServerClose \/ Disconnect
  BY <1>1, <1>3 DEF Accept, Loop, ServerClose, Disconnect
<1>4. CASE \E h \in Handler : OnMessage(h) \/ Answer(h)
  BY <1>1, <1>4 DEF OnMessage, Answer
<1>5. CASE \E v \in Invocation : LatestTime(v) \/ LatestFails(v) \/ SendStatus(v) \/ StatusFails(v)
  BY <1>1, <1>5 DEF LatestTime, LatestFails, SendStatus, StatusFails
<1>6. ASSUME NEW t, NEW isu \in Nat, AddIsu(now, t, isu), now' = now
      PROVE  /\ roomTime' = now /\ buying' = buying
             /\ \A u \in ReqTime : adding[u] <= adding'[u]
  <2>1. roomTime' = now /\ buying' = buying /\ adding' = [adding EXCEPT ![t] = adding[t] + isu]
    BY <1>6 DEF AddIsu, MoveTime
  <2>2. ASSUME NEW u \in ReqTime PROVE adding[u] <= adding'[u]
    BY <1>0, <2>1
  <2> QED BY <2>1, <2>2
<1>7. ASSUME NEW t, NEW i, NEW n, BuyItem(now, t, i, n), now' = now
      PROVE  roomTime' = now /\ buying \subseteq buying' /\ adding' = adding
  BY <1>7 DEF BuyItem, MoveTime
<1>8. ASSUME NEW h \in Handler, Request(h) \/ RequestFails(h)
      PROVE  /\ roomTime' \in {roomTime, now} /\ now' = now
             /\ \A t \in ReqTime : adding[t] <= adding'[t]
             /\ buying \subseteq buying'
  <2>1. req[h] \in RequestType /\ now' = now
    BY <1>8 DEF TypeOK, Request, RequestFails
  <2>2. Effect(req[h]) \/ UNCHANGED roomVars
    BY <1>8 DEF Request, RequestFails
  <2>3. CASE UNCHANGED roomVars
    BY <1>0, <2>1, <2>3
  <2>4. CASE Effect(req[h]) /\ req[h].kind = "add"
    <3>1. AddIsu(now, req[h].time, req[h].isu) /\ req[h].isu \in Nat
      BY <2>1, <2>4, RequestFields DEF Effect
    <3> QED BY <1>0, <1>6, <2>1, <3>1
  <2>5. CASE Effect(req[h]) /\ req[h].kind # "add"
    <3>1. BuyItem(now, req[h].time, req[h].item, req[h].count)
      BY <2>5 DEF Effect
    <3> QED BY <1>0, <1>7, <2>1, <3>1
  <2> QED BY <2>2, <2>3, <2>4, <2>5
<1>9. CASE \E v \in Invocation : Status(v)
  BY <1>0, <1>9 DEF Status, GetStatus, MoveTime
<1>10. CASE Others
  <2>1. now' = now
    BY <1>10 DEF Others
  <2>2. CASE \E isu \in Isu : AddIsu(now, now + Delay, isu)
    BY <1>0, <1>6, <2>1, <2>2, IsuAssumption
  <2>3. CASE \E i \in Item : BuyItem(now, now + Delay, i, CountBuying(buying, i))
    BY <1>0, <1>7, <2>1, <2>3
  <2> QED BY <1>10, <2>2, <2>3 DEF Others
<1>11. CASE Tick
  BY <1>0, <1>11 DEF Tick
<1>12. CASE UNCHANGED vars
  BY <1>1, <1>12 DEF vars
<1> QED BY <1>0, <1>2, <1>3, <1>4, <1>5, <1>8, <1>9, <1>10, <1>11, <1>12 DEF Next, Serve

\* Each step leaves the statuses a chain.
LEMMA ChainStep == TypeOK /\ ChainInv /\ [Next]_vars => ChainInv'
<1> SUFFICES ASSUME TypeOK, ChainInv, [Next]_vars PROVE ChainInv'
  OBVIOUS
<1>1. /\ roomTime \in Nat /\ now \in Nat /\ now' \in Nat /\ roomTime' \in Nat
      /\ adding \in [ReqTime -> Nat] /\ adding' \in [ReqTime -> Nat]
  BY TypeStep DEF TypeOK, RoomTypeOK
<1>2. /\ roomTime <= now
      /\ roomTime' \in {roomTime, now} /\ now <= now'
      /\ \A t \in ReqTime : adding[t] <= adding'[t]
      /\ buying \subseteq buying'
  BY RoomGrows DEF ChainInv
<1>3. ASSUME NEW r \in Statuses
      PROVE  /\ r.time \in Nat \cup {NoTime} /\ r.adding \in [ReqTime -> Nat]
             /\ r.time <= roomTime /\ r.time <= now
             /\ \A t \in ReqTime : r.adding[t] <= adding[t]
             /\ r.buying \subseteq buying
  <2>1. r.time \in Nat \cup {NoTime} /\ r.adding \in [ReqTime -> Nat]
    BY StatusesType, StatusFields
  <2>2. /\ r.time <= roomTime
        /\ \A t \in ReqTime : r.adding[t] <= adding[t]
        /\ r.buying \subseteq buying
    BY DEF ChainInv, Within, Tables
  <2> QED BY <1>1, <1>2, <2>1, <2>2 DEF NoTime
<1>4. NoState.time = -1 /\ NoState.buying = {} /\ \A t \in ReqTime : NoState.adding[t] = 0
  BY DEF NoState, NoTime
<1>5. /\ Tables'.time = roomTime' /\ Tables'.adding = adding' /\ Tables'.buying = buying'
  BY DEF Tables
<1>6. roomTime' <= now'
  BY <1>1, <1>2
<1>7. ASSUME NEW s \in Statuses' PROVE s.time <= roomTime' /\ Within(s, Tables')
  <2>1. CASE \E r \in Statuses : Alike(s, r)
    <3>1. PICK r \in Statuses : Alike(s, r)
      BY <2>1
    <3>2. s.time <= roomTime'
      BY <1>1, <1>2, <1>3, <3>1 DEF Alike, NoTime
    <3>3. \A t \in ReqTime : s.adding[t] <= adding'[t]
      BY <1>1, <1>2, <1>3, <3>1 DEF Alike
    <3>4. s.buying \subseteq buying'
      BY <1>2, <1>3, <3>1 DEF Alike
    <3> QED BY <1>5, <3>2, <3>3, <3>4 DEF Within
  <2>2. CASE Alike(s, NoState)
    BY <1>1, <1>4, <1>5, <2>2 DEF Alike, Within
  <2>3. CASE Alike(s, Tables')
    BY <1>1, <1>5, <2>3 DEF Alike, Within
  <2> QED BY <2>1, <2>2, <2>3, StatusesStep
<1>8. ASSUME NEW s1 \in Statuses', NEW s2 \in Statuses', s1.time < s2.time
      PROVE  Within(s1, s2)
  <2>1. CASE Alike(s2, NoState)
    <3>1. s1.time < -1
      BY <1>4, <1>8, <2>1 DEF Alike
    <3>2. s1.time \in Nat \cup {NoTime}
      BY <1>1, <1>3, <1>4, <1>5, StatusesStep DEF Alike, NoTime
    <3> QED BY <3>1, <3>2 DEF NoTime
  <2>2. CASE Alike(s2, Tables')
    BY <1>7, <2>2 DEF Alike, Within
  <2>3. CASE \E r \in Statuses : Alike(s2, r)
    <3>1. PICK r2 \in Statuses : Alike(s2, r2)
      BY <2>3
    <3>2. CASE \E r \in Statuses : Alike(s1, r)
      <4>1. PICK r1 \in Statuses : Alike(s1, r1)
        BY <3>2
      <4>2. r1.time < r2.time
        BY <1>8, <3>1, <4>1 DEF Alike
      <4>3. Within(r1, r2)
        BY <4>2 DEF ChainInv
      <4> QED BY <3>1, <4>1, <4>3 DEF Alike, Within
    <3>3. CASE Alike(s1, NoState)
      BY <1>3, <1>4, <3>1, <3>3 DEF Alike, Within
    <3>4. CASE Alike(s1, Tables') /\ roomTime' = now
      <4>1. s1.time = now /\ s2.time <= now
        BY <1>3, <1>5, <3>1, <3>4 DEF Alike
      <4>2. s2.time \in Nat \cup {NoTime}
        BY <1>3, <3>1 DEF Alike
      <4> QED BY <1>1, <1>8, <4>1, <4>2 DEF NoTime
    <3> QED BY <3>2, <3>3, <3>4, StatusesStep
  <2> QED BY <2>1, <2>2, <2>3, StatusesStep
<1> QED BY <1>6, <1>7, <1>8 DEF ChainInv

\* The statuses always form a chain.
THEOREM ChainCorrect == Spec => []ChainInv
<1>1. Init => ChainInv
  <2> SUFFICES ASSUME Init PROVE ChainInv
    OBVIOUS
  <2>1. roomTime = 0 /\ now \in Nat /\ adding = [t \in ReqTime |-> 0] /\ buying = {}
    BY TypeInit DEF Init, RoomInit, TypeOK
  <2>2. ASSUME NEW s \in Statuses PROVE s = NoState
    BY <2>2, StatusesAre DEF Init
  <2>3. /\ NoState.time = -1 /\ NoState.buying = {}
        /\ \A t \in ReqTime : NoState.adding[t] = 0
    BY DEF NoState, NoTime
  <2>4. NoState.time <= roomTime /\ Within(NoState, Tables)
    BY <2>1, <2>3 DEF Within, Tables
  <2>5. ~ (NoState.time < NoState.time) /\ roomTime <= now
    BY <2>1, <2>3
  <2> QED BY <2>2, <2>4, <2>5 DEF ChainInv
<1> QED BY <1>1, SessionTypeCorrect, ChainStep, PTL DEF Spec

-----------------------------------------------------------------------------
(* The display *)

\* The steps that move a status or the clock, and the others.
LEMMA ClockCases ==
  ASSUME TypeOK, [Next]_vars
  PROVE  \/ /\ UNCHANGED <<state, status, toBrowser, time, now>>
            /\ \A v \in Invocation : at'[v] \in {"latest", "send"} => at'[v] = at[v]
         \/ ReceiveData \/ ReceiveAnswer \/ Disconnect \/ Tick
         \/ \E h \in Handler : Answer(h)
         \/ \E v \in Invocation : Status(v) \/ LatestTime(v) \/ LatestFails(v) \/ SendStatus(v)
<1> USE DEF net, server, browser
<1>0. at \in [Invocation -> {"idle", "request", "status", "latest", "send", "answer"}]
  BY DEF TypeOK
<1>1. CASE Add \/ Update \/ \E i \in Item : Buy(i)
  BY <1>1 DEF Add, Update, Buy
<1>2. CASE OnOpen \/ OnClose
  BY <1>2 DEF OnOpen, OnClose
<1>3. CASE Accept \/ Loop \/ ServerClose
  BY <1>0, <1>3 DEF Accept, Loop, ServerClose
<1>4. CASE \E h \in Handler : OnMessage(h) \/ Request(h) \/ RequestFails(h)
  BY <1>0, <1>4 DEF OnMessage, Request, RequestFails
<1>5. CASE \E v \in Invocation : StatusFails(v)
  BY <1>0, <1>5 DEF StatusFails
<1>6. CASE Others \/ UNCHANGED vars
  BY <1>6 DEF Others, vars
<1> QED BY <1>1, <1>2, <1>3, <1>4, <1>5, <1>6 DEF Next, Serve

\* A status that was sound stays so.
LEMMA SoundStays ==
  ASSUME NEW s \in StatusType, now \in Nat, now' \in Nat, now <= now', Sound(s)
  PROVE  s.time # NoTime /\ (~ s.error => s.time <= s.latest /\ s.latest <= now')
  BY StatusFields DEF Sound

\* Each step leaves the clock in range, and every status on its way sound.
LEMMA ClockStep == TypeOK /\ ChainInv /\ ClockInv /\ [Next]_vars => ClockInv'
<1> SUFFICES ASSUME TypeOK, ChainInv, ClockInv, [Next]_vars PROVE ClockInv'
  OBVIOUS
<1> USE DEF net, server, browser
<1>1. /\ now \in Nat /\ now' \in Nat /\ now <= now'
      /\ status \in [Invocation -> StatusType] /\ state \in StatusType
      /\ at \in [Invocation -> {"idle", "request", "status", "latest", "send", "answer"}]
      /\ toBrowser \in Seq(Message)
  BY TypeStep, RoomGrows DEF TypeOK, ChainInv
<1>2. NoState.time = NoTime
  BY DEF NoState
<1>3. CASE /\ UNCHANGED <<state, status, toBrowser, time, now>>
           /\ \A v \in Invocation : at'[v] \in {"latest", "send"} => at'[v] = at[v]
  BY <1>3 DEF ClockInv, Sound, OnWay, ClockInRange
<1>4. CASE ReceiveData
  <2>1. /\ toBrowser # <<>> /\ toBrowser' = Tail(toBrowser)
        /\ Head(toBrowser).kind = "status"
        /\ UNCHANGED <<now, at, status>>
    BY <1>4 DEF ReceiveData
  <2>2. 1 \in DOMAIN toBrowser /\ Head(toBrowser) = toBrowser[1]
    BY <1>1, <2>1
  <2>3. Sound(Head(toBrowser).status)
    BY <2>1, <2>2 DEF ClockInv, OnWay
  <2>4. ASSUME NEW k \in DOMAIN toBrowser', toBrowser'[k].kind = "status"
        PROVE  Sound(toBrowser'[k].status)
    BY <1>1, <2>1, <2>4, TailAt DEF ClockInv, OnWay
  <2>5. \/ state' = state /\ time' = time
        \/ state' = Head(toBrowser).status /\ time' = state'.latest
    BY <1>4 DEF ReceiveData
  <2>6. /\ state'.time = NoTime => state' = NoState
        /\ state' # NoState /\ ~ state'.error => state'.time <= time' /\ time' <= now
    BY <2>3, <2>5 DEF ClockInv, Sound, ClockInRange
  <2> QED BY <2>1, <2>4, <2>6 DEF ClockInv, Sound, OnWay, ClockInRange
<1>5. CASE ReceiveAnswer
  <2>1. /\ toBrowser # <<>> /\ toBrowser' = Tail(toBrowser)
        /\ UNCHANGED <<now, at, status, state, time>>
    BY <1>5 DEF ReceiveAnswer
  <2>2. ASSUME NEW k \in DOMAIN toBrowser', toBrowser'[k].kind = "status"
        PROVE  Sound(toBrowser'[k].status)
    BY <1>1, <2>1, <2>2, TailAt DEF ClockInv, OnWay
  <2> QED BY <2>1, <2>2 DEF ClockInv, Sound, OnWay, ClockInRange
<1>6. CASE Disconnect
  BY <1>6 DEF Disconnect, ClockInv, Sound, OnWay, ClockInRange
<1>7. CASE Tick
  <2>1. /\ UNCHANGED <<at, status, toBrowser, state>>
        /\ now' = now + 1
        /\ time' = IF time = NoTime THEN NoTime ELSE time + 1
        /\ time \in Nat \cup {NoTime}
    BY <1>7 DEF Tick, TypeOK
  <2>2. ASSUME NEW s \in StatusType, Sound(s) PROVE Sound(s)'
    BY <1>1, <2>2, SoundStays DEF Sound
  <2>3. \A k \in DOMAIN toBrowser : OnWay(k) => toBrowser[k].status \in StatusType
    BY MessageFields DEF OnWay
  <2>4. /\ \A v \in Invocation : at'[v] = "latest" => status'[v].time # NoTime
        /\ \A v \in Invocation : at'[v] = "send" => Sound(status[v])'
    BY <1>1, <2>1, <2>2 DEF ClockInv
  <2>5. \A k \in DOMAIN toBrowser' : OnWay(k)' => Sound(toBrowser[k].status)'
    BY <2>1, <2>2, <2>3 DEF ClockInv, OnWay
  <2>6. ClockInRange'
    <3>1. state.time \in Nat \cup {NoTime}
      BY <1>1, StatusFields
    <3>2. CASE state # NoState /\ ~ state.error
      <4>1. state.time <= time /\ time <= now /\ state.time # NoTime
        BY <3>2 DEF ClockInv, ClockInRange
      <4>2. time' = time + 1
        BY <2>1, <3>1, <4>1 DEF NoTime
      <4>3. state.time <= time' /\ time' <= now'
        BY <1>1, <2>1, <3>1, <4>1, <4>2 DEF NoTime
      <4> QED BY <2>1, <4>3 DEF ClockInRange
    <3> QED BY <2>1, <3>2 DEF ClockInRange
  <2> QED BY <2>1, <2>4, <2>5, <2>6 DEF ClockInv
<1>8. ASSUME NEW h \in Handler, Answer(h) PROVE ClockInv'
  <2> DEFINE m == [kind |-> "answer", req |-> req[h], success |-> success[h], done |-> done[h]]
  <2>1. /\ toBrowser' = Append(toBrowser, m) \/ toBrowser' = toBrowser
        /\ at' = [at EXCEPT ![h] = "idle"]
        /\ UNCHANGED <<now, status, state, time>>
    BY <1>8 DEF Answer, Send
  <2>2. m.kind # "status"
    OBVIOUS
  <2> HIDE DEF m
  <2>3. ASSUME NEW k \in DOMAIN toBrowser', toBrowser'[k].kind = "status"
        PROVE  Sound(toBrowser'[k].status)
    BY <1>1, <2>1, <2>2, <2>3, AppendAt DEF ClockInv, OnWay
  <2>4. \A v \in Invocation : at'[v] \in {"latest", "send"} => at'[v] = at[v]
    BY <1>1, <2>1
  <2> QED BY <2>1, <2>3, <2>4 DEF ClockInv, Sound, OnWay, ClockInRange
<1>9. ASSUME NEW v \in Invocation, Status(v) PROVE ClockInv'
  <2>1. /\ status'[v].time = now
        /\ \A w \in Invocation : w # v => status'[w] = status[w] /\ at'[w] = at[w]
        /\ at'[v] = "latest"
        /\ UNCHANGED <<now, toBrowser, state, time>>
    BY <1>1, <1>9 DEF Status
  <2>2. now # NoTime
    BY <1>1 DEF NoTime
  <2> QED BY <2>1, <2>2 DEF ClockInv, Sound, OnWay, ClockInRange
<1>10. ASSUME NEW v \in Invocation, LatestTime(v) \/ LatestFails(v) PROVE ClockInv'
  <2>1. status[v] \in StatusType /\ status[v].time # NoTime
    BY <1>1, <1>10 DEF LatestTime, LatestFails, ClockInv
  <2>2. status[v].time <= now
    <3>1. status[v].time \in Nat /\ status[v].time <= roomTime /\ roomTime \in Nat /\ roomTime <= now
      BY <2>1, StatusFields, StatusesAre DEF ChainInv, TypeOK, RoomTypeOK
    <3> QED BY <1>1, <3>1
  <2>3. /\ \/ status' = [status EXCEPT ![v] = [status[v] EXCEPT !.latest = now]]
           \/ status' = [status EXCEPT ![v] = [status[v] EXCEPT !.error = TRUE]]
        /\ at' = [at EXCEPT ![v] = "send"]
        /\ UNCHANGED <<now, toBrowser, state, time>>
    BY <1>10 DEF LatestTime, LatestFails, LatestReading
  <2>4. /\ status'[v].time = status[v].time
        /\ ~ status'[v].error => status'[v].latest = now
    BY <1>1, <2>1, <2>3 DEF StatusType
  <2>5. /\ \A w \in Invocation : w # v => status'[w] = status[w] /\ at'[w] = at[w]
        /\ at'[v] = "send"
    BY <1>1, <2>3
  <2>6. Sound(status'[v])
    BY <1>1, <2>1, <2>2, <2>4 DEF Sound
  <2> QED BY <2>3, <2>5, <2>6 DEF ClockInv, Sound, OnWay, ClockInRange
<1>11. ASSUME NEW v \in Invocation, SendStatus(v) PROVE ClockInv'
  <2> DEFINE m == [kind |-> "status", status |-> status[v]]
  <2>1. /\ toBrowser' = Append(toBrowser, m) \/ toBrowser' = toBrowser
        /\ at[v] = "send"
        /\ at' = [at EXCEPT ![v] = AfterStatus(v)]
        /\ status' = [status EXCEPT ![v] = NoState]
        /\ UNCHANGED <<now, state, time>>
    BY <1>11 DEF SendStatus, Send
  <2>2. m.status = status[v] /\ Sound(status[v])
    BY <2>1 DEF ClockInv
  <2> HIDE DEF m
  <2>3. ASSUME NEW k \in DOMAIN toBrowser', toBrowser'[k].kind = "status"
        PROVE  Sound(toBrowser'[k].status)
    BY <1>1, <2>1, <2>2, <2>3, AppendAt DEF ClockInv, OnWay
  <2>4. /\ at'[v] \in {"answer", "idle"}
        /\ \A w \in Invocation : w # v => at'[w] = at[w] /\ status'[w] = status[w]
    BY <1>1, <2>1 DEF AfterStatus
  <2> QED BY <2>1, <2>3, <2>4 DEF ClockInv, Sound, OnWay, ClockInRange
<1> QED BY <1>3, <1>4, <1>5, <1>6, <1>7, <1>8, <1>9, <1>10, <1>11, ClockCases


\* A status is replaced by one that is as recent, and shows as much if it is more recent.
LEMMA DisplayStep ==
  TypeOK /\ ChainInv /\ ClockInv /\ [Next]_vars =>
    [/\ state'.time >= state.time
     /\ state'.time > state.time =>
           /\ state.buying \subseteq state'.buying
           /\ \A t \in ReqTime : state.adding[t] <= state'.adding[t]]_vars
<1> SUFFICES ASSUME TypeOK, ChainInv, ClockInv, [Next]_vars
             PROVE  /\ state'.time >= state.time
                    /\ state'.time > state.time =>
                          /\ state.buying \subseteq state'.buying
                          /\ \A t \in ReqTime : state.adding[t] <= state'.adding[t]
  OBVIOUS
<1>1. state \in StatusType /\ state.time \in Nat \cup {NoTime} /\ toBrowser \in Seq(Message)
  BY StatusFields DEF TypeOK
<1>2. CASE state' = state
  BY <1>1, <1>2 DEF NoTime
<1>3. CASE ReceiveData /\ state' # state
  <2>1. /\ toBrowser # <<>> /\ Head(toBrowser).kind = "status"
        /\ state' = Head(toBrowser).status /\ NotOlder(state')
    BY <1>3 DEF ReceiveData
  <2>2. 1 \in DOMAIN toBrowser /\ Head(toBrowser) = toBrowser[1]
    BY <1>1, <2>1
  <2>3. state' \in Statuses /\ state \in Statuses /\ Sound(state')
    BY <2>1, <2>2, StatusesAre DEF OnWay, ClockInv
  <2>4. state'.time \in Nat
    BY <2>3, StatusesType, StatusFields DEF Sound
  <2>5. state'.time >= state.time
    BY <1>1, <2>1, <2>4 DEF NotOlder, NoState, NoTime
  <2>6. ASSUME state'.time > state.time PROVE Within(state, state')
    <3>1. state.time < state'.time
      BY <1>1, <2>4, <2>6 DEF NoTime
    <3> QED BY <2>3, <3>1 DEF ChainInv
  <2> QED BY <2>5, <2>6 DEF Within
<1>4. CASE ReceiveAnswer \/ Disconnect \/ Tick
  BY <1>2, <1>4 DEF ReceiveAnswer, Disconnect, Tick, net, server, browser
<1>5. CASE \E h \in Handler : Answer(h)
  BY <1>2, <1>5 DEF Answer, browser
<1>6. CASE \E v \in Invocation : Status(v) \/ LatestTime(v) \/ LatestFails(v) \/ SendStatus(v)
  BY <1>2, <1>6 DEF Status, LatestTime, LatestFails, SendStatus, browser
<1> QED BY <1>2, <1>3, <1>4, <1>5, <1>6, StatusCases

\* The clock is always in range, and every status on its way sound.
THEOREM ClockCorrect == Spec => []ClockInv
<1>1. Init => ClockInv
  BY DEF Init, ClockInv, ClockInRange, OnWay
<1> QED BY <1>1, SessionTypeCorrect, ChainCorrect, ClockStep, PTL DEF Spec

\* The display never goes back, and its clock is in range (game.js:235).
THEOREM DisplayMonotoneCorrect == Spec => DisplayMonotone
<1>1. ClockInv => ClockInRange
  BY DEF ClockInv
<1> QED
  BY <1>1, SessionTypeCorrect, ChainCorrect, ClockCorrect, DisplayStep, PTL DEF Spec, DisplayMonotone


-----------------------------------------------------------------------------
(* What was answered is displayed *)

EffectiveNext(r, d) ==
    /\ d # NoTime /\ d <= roomTime'
    /\ Shows(Tables', r)
    /\ \A s \in Statuses' : s.time > d => Shows(s, r)
ComingNext(d, k) ==
    \/ state'.time >= d
    \/ \E j \in 1 .. k - 1 : /\ j \in DOMAIN toBrowser' /\ toBrowser'[j].kind = "status"
                             /\ toBrowser'[j].status.time >= d

\* What is in the tables stays there, and gets into every younger status.
LEMMA EffectiveStays ==
  ASSUME TypeOK, ChainInv, [Next]_vars,
         NEW r \in RequestType, NEW d \in Nat \cup {NoTime}, Effective(r, d)
  PROVE  EffectiveNext(r, d)
<1>1. /\ roomTime \in Nat /\ now \in Nat /\ roomTime' \in {roomTime, now} /\ roomTime <= now
      /\ adding \in [ReqTime -> Nat] /\ adding' \in [ReqTime -> Nat]
      /\ \A t \in ReqTime : adding[t] <= adding'[t]
      /\ buying \subseteq buying'
  BY TypeStep, RoomGrows DEF TypeOK, RoomTypeOK, ChainInv
<1>2. d \in Nat /\ d <= roomTime'
  BY <1>1 DEF Effective, NoTime
<1>3. r.time \in ReqTime /\ (r.kind = "add" => r.isu \in Nat)
  BY RequestFields
<1>4. Shows(Tables', r)
  <2>1. CASE r.kind = "add"
    <3>1. adding[r.time] >= r.isu
      BY <2>1 DEF Effective, Shows, Tables
    <3>2. adding'[r.time] >= r.isu
      BY <1>1, <1>3, <2>1, <3>1
    <3> QED BY <2>1, <3>2 DEF Shows, Tables
  <2>2. CASE r.kind # "add"
    BY <1>1, <2>2 DEF Effective, Shows, Tables
  <2> QED BY <2>1, <2>2
<1>5. ASSUME NEW s \in Statuses', s.time > d PROVE Shows(s, r)
  <2>1. CASE \E q \in Statuses : Alike(s, q)
    BY <1>5, <2>1 DEF Effective, Alike, Shows
  <2>2. CASE Alike(s, NoState)
    BY <1>2, <1>5, <2>2 DEF Alike, NoState, NoTime
  <2>3. CASE Alike(s, Tables')
    BY <1>4, <2>3 DEF Alike, Shows
  <2> QED BY <2>1, <2>2, <2>3, StatusesStep
<1> QED BY <1>2, <1>4, <1>5 DEF EffectiveNext, Effective

\* A request that takes effect does so now.
LEMMA EffectiveNow ==
  ASSUME TypeOK, ChainInv, [Next]_vars, NEW r \in RequestType, Effect(r)
  PROVE  EffectiveNext(r, now)
<1>1. now \in Nat /\ r.time \in ReqTime /\ adding \in [ReqTime -> Nat]
  BY RequestFields DEF TypeOK, RoomTypeOK
<1>2. roomTime' = now
  BY DEF Effect, AddIsu, BuyItem, MoveTime
<1>3. Shows(Tables', r)
  <2>1. CASE r.kind = "add"
    <3>1. adding' = [adding EXCEPT ![r.time] = adding[r.time] + r.isu] /\ r.isu \in Nat
      BY <2>1, RequestFields DEF Effect, AddIsu
    <3>2. adding'[r.time] = adding[r.time] + r.isu /\ adding[r.time] \in Nat
      BY <1>1, <3>1
    <3>3. adding'[r.time] >= r.isu
      BY <3>1, <3>2
    <3> QED BY <2>1, <3>3 DEF Shows, Tables
  <2>2. CASE r.kind # "add"
    BY <2>2 DEF Effect, BuyItem, Shows, Tables
  <2> QED BY <2>1, <2>2
<1>4. ASSUME NEW s \in Statuses', s.time > now PROVE FALSE
  <2>1. s.time <= roomTime'
    BY ChainStep DEF ChainInv
  <2>2. s.time \in Nat \cup {NoTime}
    <3>1. (TypeOK => Statuses \subseteq StatusType)'
      BY StatusesType, PTL
    <3> QED BY <3>1, TypeStep, StatusFields
  <2> QED BY <1>1, <1>2, <1>4, <2>1, <2>2 DEF NoTime
<1> QED BY <1>1, <1>2, <1>3, <1>4 DEF EffectiveNext, NoTime

\* The display only gets younger.
LEMMA StateTime ==
  ASSUME TypeOK, ChainInv, ClockInv, [Next]_vars
  PROVE  /\ state.time \in Nat \cup {NoTime} /\ state'.time \in Nat \cup {NoTime}
         /\ state'.time >= state.time
<1>1. state'.time \in Nat \cup {NoTime} /\ state.time \in Nat \cup {NoTime}
  BY TypeStep, StatusFields DEF TypeOK
<1>2. CASE state' = state
  BY <1>1, <1>2 DEF NoTime
<1>3. CASE state' # state
  <2>1. vars' # vars
    BY <1>3 DEF vars, browser
  <2> QED BY <1>1, <2>1, DisplayStep
<1> QED BY <1>1, <1>2, <1>3

\* What arrives before a message still does if the socket only takes more.
LEMMA ComingStays ==
  ASSUME TypeOK, ChainInv, ClockInv, [Next]_vars,
         NEW d \in Nat \cup {NoTime}, NEW k \in Nat, k <= Len(toBrowser) + 1, Coming(d, k),
         NEW m, toBrowser' = toBrowser \/ toBrowser' = Append(toBrowser, m)
  PROVE  ComingNext(d, k)
<1>1. toBrowser \in Seq(Message)
  BY DEF TypeOK
<1>2. CASE state.time >= d
  BY <1>2, StateTime DEF ComingNext, NoTime
<1>3. ASSUME NEW j \in 1 .. k - 1, OnWay(j), toBrowser[j].status.time >= d
      PROVE  ComingNext(d, k)
  <2>1. j \in DOMAIN toBrowser' /\ toBrowser'[j] = toBrowser[j]
    BY <1>1, <1>3 DEF OnWay
  <2> QED BY <1>3, <2>1 DEF OnWay, ComingNext
<1> QED BY <1>2, <1>3 DEF Coming

\* The message in front is on display once the browser has received it.
LEMMA ComingShift ==
  ASSUME TypeOK, ChainInv, ClockInv, [Next]_vars, ReceiveData \/ ReceiveAnswer,
         NEW d \in Nat \cup {NoTime}, NEW k \in Nat, k <= Len(toBrowser), Coming(d, k + 1)
  PROVE  ComingNext(d, k)
<1>1. /\ toBrowser \in Seq(Message) /\ toBrowser # <<>> /\ toBrowser' = Tail(toBrowser)
  BY DEF TypeOK, ReceiveData, ReceiveAnswer
<1>2. /\ state.time \in Nat \cup {NoTime} /\ state'.time \in Nat \cup {NoTime}
      /\ state'.time >= state.time
  BY StateTime
<1>3. CASE state.time >= d
  BY <1>2, <1>3 DEF ComingNext, NoTime
<1>4. ASSUME NEW j \in 1 .. k, OnWay(j), toBrowser[j].status.time >= d
      PROVE  ComingNext(d, k)
  <2>1. CASE j = 1
    <3>1. Head(toBrowser) = toBrowser[1] /\ Head(toBrowser).kind = "status"
      BY <1>1, <1>4, <2>1 DEF OnWay
    <3>2. \/ state' = Head(toBrowser).status
          \/ state' = state /\ ~ NotOlder(Head(toBrowser).status)
      BY <3>1 DEF ReceiveData, ReceiveAnswer
    <3>3. toBrowser[1].status.time \in Nat \cup {NoTime}
      BY <1>4, <2>1, MessageFields, StatusFields DEF OnWay
    <3>4. state'.time >= d
      BY <1>2, <1>4, <2>1, <3>1, <3>2, <3>3 DEF NotOlder, NoTime
    <3> QED BY <3>4 DEF ComingNext
  <2>2. CASE j # 1
    <3>1. j - 1 \in 1 .. k - 1 /\ j - 1 \in DOMAIN toBrowser' /\ toBrowser'[j - 1] = toBrowser[j]
      BY <1>1, <1>4, <2>2 DEF OnWay
    <3> QED BY <1>4, <3>1 DEF OnWay, ComingNext
  <2> QED BY <2>1, <2>2
<1>5. \A j : j \in 1 .. (k + 1) - 1 => j \in 1 .. k
  OBVIOUS
<1> QED BY <1>3, <1>4, <1>5 DEF Coming


\* The steps that move an answer or what it rests on, and the others.
LEMMA AnsweredCases ==
  ASSUME TypeOK, [Next]_vars
  PROVE  \/ /\ UNCHANGED <<toBrowser, acked, success, req, done, status, link>>
            /\ \A h \in Handler : at'[h] = at[h]
         \/ ReceiveData \/ ReceiveAnswer \/ Disconnect \/ Accept
         \/ \E h \in Handler : OnMessage(h) \/ Request(h) \/ RequestFails(h) \/ Answer(h)
         \/ \E v \in Invocation : \/ Status(v) \/ LatestTime(v) \/ LatestFails(v)
                                  \/ SendStatus(v) \/ StatusFails(v)
<1> USE DEF net, server, browser, history
<1>0. /\ at \in [Invocation -> {"idle", "request", "status", "latest", "send", "answer"}]
      /\ \A h \in Handler : h # "loop"
  BY HandlerAssumption DEF TypeOK
<1>1. CASE Add \/ Update \/ \E i \in Item : Buy(i)
  BY <1>1 DEF Add, Update, Buy
<1>2. CASE OnOpen \/ OnClose
  BY <1>2 DEF OnOpen, OnClose
<1>3. CASE Loop
  <2>1. \A h \in Handler : at'[h] = at[h]
    BY <1>0, <1>3 DEF Loop
  <2> QED BY <1>3, <2>1 DEF Loop
<1>4. CASE ServerClose
  BY <1>4 DEF ServerClose
<1>5. CASE Others \/ Tick \/ UNCHANGED vars
  BY <1>5 DEF Others, Tick, vars
<1> QED BY <1>1, <1>2, <1>3, <1>4, <1>5 DEF Next, Serve

\* What the browser was told has succeeded took effect, and is on display.
LEMMA AckedStep ==
  ASSUME TypeOK, ChainInv, ClockInv, AnsweredInv, [Next]_vars, NEW a \in acked'
  PROVE  EffectiveNext(a.r, a.done) /\ state'.time >= a.done
<1> USE DEF net, server, browser, history
<1>1. CASE a \in acked
  <2>1. a.r \in RequestType /\ a.done \in Nat \cup {NoTime}
    BY <1>1 DEF TypeOK, AckType
  <2>2. Effective(a.r, a.done) /\ state.time >= a.done
    BY <1>1 DEF AnsweredInv
  <2> QED BY <2>1, <2>2, EffectiveStays, StateTime DEF NoTime
<1>2. CASE ReceiveAnswer /\ a \notin acked
  <2>1. /\ toBrowser \in Seq(Message) /\ toBrowser # <<>>
        /\ Head(toBrowser).kind = "answer" /\ Head(toBrowser).success
        /\ a = [r |-> Head(toBrowser).req, done |-> Head(toBrowser).done]
        /\ state' = state
    BY <1>2 DEF ReceiveAnswer, TypeOK
  <2>2. 1 \in DOMAIN toBrowser /\ Head(toBrowser) = toBrowser[1]
    BY <2>1
  <2>3. /\ Effective(a.r, a.done) /\ Coming(a.done, 1)
        /\ a.r \in RequestType /\ a.done \in Nat \cup {NoTime}
    BY <2>1, <2>2, MessageFields DEF AnsweredInv
  <2>4. state.time >= a.done
    BY <2>3 DEF Coming
  <2> QED BY <2>1, <2>3, <2>4, EffectiveStays
<1>3. CASE ReceiveData \/ Disconnect \/ Accept
  BY <1>1, <1>3 DEF ReceiveData, Disconnect, Accept
<1>4. CASE \E h \in Handler : OnMessage(h) \/ Request(h) \/ RequestFails(h) \/ Answer(h)
  BY <1>1, <1>4 DEF OnMessage, Request, RequestFails, Answer
<1>5. CASE \E v \in Invocation : \/ Status(v) \/ LatestTime(v) \/ LatestFails(v)
                                 \/ SendStatus(v) \/ StatusFails(v)
  BY <1>1, <1>5 DEF Status, LatestTime, LatestFails, SendStatus, StatusFails
<1> QED BY <1>1, <1>2, <1>3, <1>4, <1>5, AnsweredCases

\* An answer that says so comes after a status that is young enough.
LEMMA AnswersStep ==
  ASSUME TypeOK, ChainInv, ClockInv, LoopInv, AnsweredInv, [Next]_vars,
         NEW k \in DOMAIN toBrowser', toBrowser'[k].kind = "answer", toBrowser'[k].success
  PROVE  EffectiveNext(toBrowser'[k].req, toBrowser'[k].done) /\ ComingNext(toBrowser'[k].done, k)
<1> USE DEF net, server, browser, history
<1>1. toBrowser \in Seq(Message) /\ toBrowser' \in Seq(Message)
  BY TypeStep DEF TypeOK
<1>2. ASSUME NEW j \in DOMAIN toBrowser, toBrowser'[k] = toBrowser[j]
      PROVE  /\ EffectiveNext(toBrowser'[k].req, toBrowser'[k].done)
             /\ Coming(toBrowser'[k].done, j)
             /\ toBrowser'[k].done \in Nat \cup {NoTime}
  <2>1. toBrowser[j].req \in RequestType /\ toBrowser[j].done \in Nat \cup {NoTime}
    BY <1>2, MessageFields
  <2>2. Effective(toBrowser[j].req, toBrowser[j].done) /\ Coming(toBrowser[j].done, j)
    BY <1>2 DEF AnsweredInv
  <2> QED BY <1>2, <2>1, <2>2, EffectiveStays
<1>3. CASE toBrowser' = toBrowser
  <2>1. k \in DOMAIN toBrowser /\ toBrowser'[k] = toBrowser[k] /\ k \in Nat /\ k <= Len(toBrowser) + 1
    BY <1>1, <1>3
  <2>2. /\ EffectiveNext(toBrowser'[k].req, toBrowser'[k].done)
        /\ Coming(toBrowser'[k].done, k)
        /\ toBrowser'[k].done \in Nat \cup {NoTime}
    BY <1>2, <2>1
  <2> QED BY <1>3, <2>1, <2>2, ComingStays
<1>4. ASSUME NEW m, toBrowser' = Append(toBrowser, m), k # Len(toBrowser) + 1
      PROVE  EffectiveNext(toBrowser'[k].req, toBrowser'[k].done) /\ ComingNext(toBrowser'[k].done, k)
  <2>1. k \in DOMAIN toBrowser /\ toBrowser'[k] = toBrowser[k] /\ k \in Nat /\ k <= Len(toBrowser) + 1
    BY <1>1, <1>4
  <2>2. /\ EffectiveNext(toBrowser'[k].req, toBrowser'[k].done)
        /\ Coming(toBrowser'[k].done, k)
        /\ toBrowser'[k].done \in Nat \cup {NoTime}
    BY <1>2, <2>1
  <2> QED BY <1>4, <2>1, <2>2, ComingStays
<1>5. CASE ReceiveData \/ ReceiveAnswer
  <2>1. toBrowser # <<>> /\ toBrowser' = Tail(toBrowser)
    BY <1>5 DEF ReceiveData, ReceiveAnswer
  <2>2. /\ k + 1 \in DOMAIN toBrowser /\ toBrowser'[k] = toBrowser[k + 1]
        /\ k \in Nat /\ k <= Len(toBrowser)
    BY <1>1, <2>1
  <2>3. /\ EffectiveNext(toBrowser'[k].req, toBrowser'[k].done)
        /\ Coming(toBrowser'[k].done, k + 1)
        /\ toBrowser'[k].done \in Nat \cup {NoTime}
    BY <1>2, <2>2
  <2> QED BY <1>5, <2>2, <2>3, ComingShift
<1>6. CASE Disconnect
  BY <1>6 DEF Disconnect
<1>7. CASE Accept
  BY <1>3, <1>7 DEF Accept
<1>8. CASE \E h \in Handler : OnMessage(h) \/ Request(h) \/ RequestFails(h)
  BY <1>3, <1>8 DEF OnMessage, Request, RequestFails
<1>9. ASSUME NEW h \in Handler, Answer(h)
      PROVE  EffectiveNext(toBrowser'[k].req, toBrowser'[k].done) /\ ComingNext(toBrowser'[k].done, k)
  <2> DEFINE m == [kind |-> "answer", req |-> req[h], success |-> success[h], done |-> done[h]]
  <2>1. /\ at[h] = "answer"
        /\ \/ toBrowser' = Append(toBrowser, m) /\ link = "up"
           \/ toBrowser' = toBrowser
    BY <1>9 DEF Answer, Send
  <2>2. CASE toBrowser' = Append(toBrowser, m) /\ k = Len(toBrowser) + 1 /\ link = "up"
    <3>1. toBrowser'[k] = m
      BY <1>1, <2>2
    <3>2. success[h] /\ req[h] \in RequestType /\ done[h] \in Nat \cup {NoTime}
      BY <2>1, <3>1 DEF TypeOK
    <3>3. Effective(req[h], done[h]) /\ Coming(done[h], k)
      BY <2>1, <2>2, <3>2 DEF AnsweredInv
    <3>4. EffectiveNext(req[h], done[h])
      BY <3>2, <3>3, EffectiveStays
    <3>5. k \in Nat /\ k <= Len(toBrowser) + 1
      BY <1>1, <2>2
    <3>6. ComingNext(done[h], k)
      BY <2>2, <3>2, <3>3, <3>5, ComingStays
    <3> QED BY <3>1, <3>4, <3>6
  <2> QED BY <1>3, <1>4, <2>1, <2>2
<1>10. ASSUME NEW v \in Invocation, SendStatus(v)
       PROVE  EffectiveNext(toBrowser'[k].req, toBrowser'[k].done) /\ ComingNext(toBrowser'[k].done, k)
  <2> DEFINE m == [kind |-> "status", status |-> status[v]]
  <2>1. toBrowser' = Append(toBrowser, m) \/ toBrowser' = toBrowser
    BY <1>10 DEF SendStatus, Send
  <2>2. toBrowser' = Append(toBrowser, m) => k # Len(toBrowser) + 1
    BY <1>1
  <2> QED BY <1>3, <1>4, <2>1, <2>2
<1>11. CASE \E v \in Invocation : Status(v) \/ LatestTime(v) \/ LatestFails(v) \/ StatusFails(v)
  BY <1>3, <1>11 DEF Status, LatestTime, LatestFails, StatusFails
<1> QED BY <1>3, <1>5, <1>6, <1>7, <1>8, <1>9, <1>10, <1>11, AnsweredCases


\* What a handler keeps of its request until it has answered.
HandlerNext(h) ==
    /\ EffectiveNext(req'[h], done'[h])
    /\ at'[h] \in {"status", "latest", "send", "answer"}
    /\ at'[h] \in {"latest", "send"} => status'[h].time >= done'[h]
    /\ at'[h] = "answer" /\ link' = "up" => ComingNext(done'[h], Len(toBrowser') + 1)

\* A handler's status is no older than what its request did, and sent before the answer.
LEMMA HandlersStep ==
  ASSUME TypeOK, ChainInv, ClockInv, LoopInv, AnsweredInv, [Next]_vars,
         NEW h \in Handler, success'[h]
  PROVE  HandlerNext(h)
<1> USE DEF net, server, browser, history
<1>0. /\ toBrowser \in Seq(Message) /\ toBrowser' \in Seq(Message)
      /\ at \in [Invocation -> {"idle", "request", "status", "latest", "send", "answer"}]
      /\ Handler \subseteq Invocation
      /\ success \in [Handler -> BOOLEAN] /\ done \in [Handler -> Nat \cup {NoTime}]
      /\ req \in [Handler -> RequestType \cup {NoReq}]
      /\ status \in [Invocation -> StatusType]
      /\ Len(toBrowser) \in Nat
  BY TypeStep DEF TypeOK, Invocation
<1>1. ASSUME success[h]
      PROVE  /\ req[h] \in RequestType /\ done[h] \in Nat \cup {NoTime}
             /\ Effective(req[h], done[h]) /\ EffectiveNext(req[h], done[h])
             /\ at[h] \in {"status", "latest", "send", "answer"}
             /\ at[h] \in {"latest", "send"} => status[h].time >= done[h]
             /\ at[h] = "answer" /\ link = "up" => Coming(done[h], Len(toBrowser) + 1)
  <2>1. /\ Effective(req[h], done[h])
        /\ at[h] \in {"status", "latest", "send", "answer"}
        /\ at[h] \in {"latest", "send"} => status[h].time >= done[h]
        /\ at[h] = "answer" /\ link = "up" => Coming(done[h], Len(toBrowser) + 1)
    BY <1>1 DEF AnsweredInv
  <2>2. req[h] \in RequestType /\ done[h] \in Nat \cup {NoTime}
    BY <1>0, <2>1 DEF TypeOK
  <2> QED BY <2>1, <2>2, EffectiveStays
\* nothing happens to the handler and the socket
<1>2. CASE /\ UNCHANGED <<toBrowser, success, req, done, status, link>> /\ at'[h] = at[h]
  <2>1. ASSUME at[h] = "answer", link = "up"
        PROVE  ComingNext(done[h], Len(toBrowser) + 1)
    <3>1. Coming(done[h], Len(toBrowser) + 1) /\ done[h] \in Nat \cup {NoTime}
      BY <1>1, <1>2, <2>1
    <3>2. Len(toBrowser) + 1 \in Nat /\ Len(toBrowser) + 1 <= Len(toBrowser) + 1
      BY <1>0
    <3> QED BY <1>2, <3>1, <3>2, ComingStays
  <2> QED BY <1>1, <1>2, <2>1 DEF HandlerNext
\* another message is put behind those on their way
<1>3. ASSUME NEW m, toBrowser' = Append(toBrowser, m) \/ toBrowser' = toBrowser,
             link' = link, success'[h] = success[h], req'[h] = req[h], done'[h] = done[h],
             status'[h] = status[h], at'[h] = at[h]
      PROVE  HandlerNext(h)
  <2>1. ASSUME at[h] = "answer", link = "up"
        PROVE  ComingNext(done[h], Len(toBrowser') + 1)
    <3>1. ComingNext(done[h], Len(toBrowser) + 1)
      <4>1. Coming(done[h], Len(toBrowser) + 1) /\ done[h] \in Nat \cup {NoTime}
        BY <1>1, <1>3, <2>1
      <4>2. Len(toBrowser) + 1 \in Nat /\ Len(toBrowser) + 1 <= Len(toBrowser) + 1
        BY <1>0
      <4> QED BY <1>3, <4>1, <4>2, ComingStays
    <3>2. Len(toBrowser') >= Len(toBrowser) /\ Len(toBrowser') \in Nat
      BY <1>0, <1>3
    <3>3. 1 .. (Len(toBrowser) + 1) - 1 \subseteq 1 .. (Len(toBrowser') + 1) - 1
      BY <1>0, <3>2
    <3> QED BY <3>1, <3>3 DEF ComingNext
  <2> QED BY <1>1, <1>3, <2>1 DEF HandlerNext
<1>4. CASE ReceiveData \/ ReceiveAnswer
  <2>1. /\ toBrowser # <<>> /\ toBrowser' = Tail(toBrowser)
        /\ UNCHANGED <<at, success, req, done, status, link>>
    BY <1>4 DEF ReceiveData, ReceiveAnswer
  <2>2. Len(toBrowser') + 1 = Len(toBrowser) /\ Len(toBrowser) \in Nat
    BY <1>0, <2>1
  <2>3. ASSUME at[h] = "answer", link = "up"
        PROVE  ComingNext(done[h], Len(toBrowser))
    <3>1. Coming(done[h], Len(toBrowser) + 1) /\ done[h] \in Nat \cup {NoTime}
      BY <1>1, <2>1, <2>3
    <3>2. Len(toBrowser) \in Nat /\ Len(toBrowser) <= Len(toBrowser)
      BY <1>0
    <3> QED BY <1>4, <3>1, <3>2, ComingShift
  <2> QED BY <1>1, <2>1, <2>2, <2>3 DEF HandlerNext
<1>5. CASE Disconnect
  BY <1>1, <1>5 DEF Disconnect, HandlerNext
<1>6. CASE Accept
  <2>1. success'[h] = success[h] /\ at[h] = "idle"
    BY <1>0, <1>6 DEF Accept, LoopInv
  <2> QED BY <1>1, <2>1
<1>7. ASSUME NEW g \in Handler, OnMessage(g) \/ Request(g) \/ RequestFails(g)
      PROVE  HandlerNext(h)
  <2>1. CASE g # h
    <3>1. /\ UNCHANGED <<toBrowser, status, link>>
          /\ success'[h] = success[h] /\ req'[h] = req[h] /\ done'[h] = done[h] /\ at'[h] = at[h]
      BY <1>0, <1>7, <2>1 DEF OnMessage, Request, RequestFails
    <3> QED BY <1>3, <3>1
  <2>2. CASE g = h
    <3>1. at[h] \in {"idle", "request"} /\ ~ success[h]
      BY <1>1, <1>7, <2>2 DEF OnMessage, Request, RequestFails
    <3>2. Request(h) /\ Effect(req[h])
      BY <1>0, <1>7, <2>2, <3>1 DEF OnMessage, Request, RequestFails
    <3>3. success' = [success EXCEPT ![h] = TRUE]
      BY <1>0, <3>1, <3>2 DEF Request
    <3>4. done'[h] = now /\ at'[h] = "status" /\ req'[h] = req[h] /\ at[h] = "request"
      BY <1>0, <3>1, <3>2 DEF Request
    <3>5. EffectiveNext(req[h], now)
      BY <3>2, <3>4, EffectiveNow DEF TypeOK
    <3> QED BY <3>4, <3>5 DEF HandlerNext
  <2> QED BY <2>1, <2>2
<1>8. ASSUME NEW g \in Handler, Answer(g) PROVE HandlerNext(h)
  <2> DEFINE m == [kind |-> "answer", req |-> req[g], success |-> success[g], done |-> done[g]]
  <2>1. /\ toBrowser' = Append(toBrowser, m) \/ toBrowser' = toBrowser
        /\ success' = [success EXCEPT ![g] = FALSE]
        /\ req' = [req EXCEPT ![g] = NoReq]
        /\ done' = [done EXCEPT ![g] = NoTime]
        /\ at' = [at EXCEPT ![g] = "idle"]
        /\ UNCHANGED <<status, link>>
    BY <1>8 DEF Answer, Send
  <2> HIDE DEF m
  <2>2. g # h
    BY <1>0, <2>1
  <2>3. success'[h] = success[h] /\ req'[h] = req[h] /\ done'[h] = done[h] /\ at'[h] = at[h]
    BY <1>0, <2>1, <2>2
  <2> QED BY <1>3, <2>1, <2>3
<1>9. ASSUME NEW v \in Invocation, Status(v) PROVE HandlerNext(h)
  <2>1. UNCHANGED <<toBrowser, success, req, done, link>>
    BY <1>9 DEF Status
  <2>2. CASE v # h
    <3>1. status'[h] = status[h] /\ at'[h] = at[h]
      BY <1>0, <1>9, <2>2 DEF Status
    <3> QED BY <1>3, <2>1, <3>1
  <2>3. CASE v = h
    <3>1. status'[h].time = now /\ at'[h] = "latest" /\ success[h]
      BY <1>0, <1>9, <2>1, <2>3 DEF Status
    <3>2. done[h] <= roomTime /\ done[h] # NoTime /\ roomTime <= now
      BY <1>1, <3>1 DEF Effective, ChainInv
    <3>3. roomTime \in Nat /\ now \in Nat /\ done[h] \in Nat
      BY <1>0, <3>2 DEF TypeOK, RoomTypeOK
    <3>4. status'[h].time >= done[h]
      BY <3>1, <3>2, <3>3
    <3> QED BY <1>1, <2>1, <3>1, <3>4 DEF HandlerNext
  <2> QED BY <2>2, <2>3
<1>10. ASSUME NEW v \in Invocation, LatestTime(v) \/ LatestFails(v) PROVE HandlerNext(h)
  <2>1. UNCHANGED <<toBrowser, success, req, done, link>>
    BY <1>10 DEF LatestTime, LatestFails
  <2>2. CASE v # h
    <3>1. status'[h] = status[h] /\ at'[h] = at[h]
      BY <1>0, <1>10, <2>2 DEF LatestTime, LatestFails
    <3> QED BY <1>3, <2>1, <3>1
  <2>3. CASE v = h
    <3>1. /\ at[h] = "latest" /\ at'[h] = "send" /\ success[h]
          /\ \/ status' = [status EXCEPT ![h] = [status[h] EXCEPT !.latest = now]]
             \/ status' = [status EXCEPT ![h] = [status[h] EXCEPT !.error = TRUE]]
      BY <1>0, <1>10, <2>1, <2>3 DEF LatestTime, LatestFails, LatestReading
    <3>2. status'[h].time = status[h].time
      BY <1>0, <3>1 DEF StatusType
    <3>3. status[h].time >= done[h]
      BY <1>1, <3>1
    <3> QED BY <1>1, <2>1, <3>1, <3>2, <3>3 DEF HandlerNext
  <2> QED BY <2>2, <2>3
<1>11. ASSUME NEW v \in Invocation, SendStatus(v) PROVE HandlerNext(h)
  <2> DEFINE m == [kind |-> "status", status |-> status[v]]
  <2>1. /\ toBrowser' = Append(toBrowser, m) \/ toBrowser' = toBrowser
        /\ ready /\ link = "up" => toBrowser' = Append(toBrowser, m)
        /\ m.kind = "status" /\ m.status = status[v]
        /\ UNCHANGED <<success, req, done, link>>
    BY <1>11 DEF SendStatus, Send
  <2> HIDE DEF m
  <2>2. CASE v # h
    <3>1. status'[h] = status[h] /\ at'[h] = at[h]
      BY <1>0, <1>11, <2>2 DEF SendStatus
    <3> QED BY <1>3, <2>1, <3>1
  <2>3. CASE v = h
    <3>1. at[h] = "send" /\ at'[h] = "answer" /\ success[h]
      BY <1>0, <1>11, <2>1, <2>3 DEF SendStatus, AfterStatus
    <3>2. status[h].time >= done[h]
      BY <1>1, <3>1
    <3>3. ASSUME link = "up" PROVE ComingNext(done[h], Len(toBrowser') + 1)
      <4>1. toBrowser' = Append(toBrowser, m)
        BY <2>1, <3>3 DEF LoopInv
      <4>2. /\ Len(toBrowser) + 1 \in 1 .. (Len(toBrowser') + 1) - 1
            /\ Len(toBrowser) + 1 \in DOMAIN toBrowser'
            /\ toBrowser'[Len(toBrowser) + 1] = m
        BY <1>0, <4>1
      <4> QED BY <2>1, <2>3, <3>2, <4>2 DEF ComingNext
    <3> QED BY <1>1, <2>1, <3>1, <3>3 DEF HandlerNext
  <2> QED BY <2>2, <2>3
<1>12. ASSUME NEW v \in Invocation, StatusFails(v) PROVE HandlerNext(h)
  <2>1. UNCHANGED <<toBrowser, status, link>>
    BY <1>12 DEF StatusFails
  <2>2. v # h
    BY <1>0, <1>12 DEF StatusFails
  <2>3. success'[h] = success[h] /\ req'[h] = req[h] /\ done'[h] = done[h] /\ at'[h] = at[h]
    BY <1>0, <1>12, <2>2 DEF StatusFails
  <2> QED BY <1>3, <2>1, <2>3
<1> QED BY <1>2, <1>4, <1>5, <1>6, <1>7, <1>8, <1>9, <1>10, <1>11, <1>12, AnsweredCases

\* Each step leaves what was answered in the tables and ahead of its answer.
LEMMA AnsweredStep ==
  TypeOK /\ ChainInv /\ ClockInv /\ LoopInv /\ AnsweredInv /\ [Next]_vars => AnsweredInv'
<1> SUFFICES ASSUME TypeOK, ChainInv, ClockInv, LoopInv, AnsweredInv, [Next]_vars
             PROVE  AnsweredInv'
  OBVIOUS
<1>1. \A h \in Handler : success'[h] => HandlerNext(h)
  BY HandlersStep
<1>2. \A k \in DOMAIN toBrowser' : toBrowser'[k].kind = "answer" /\ toBrowser'[k].success =>
        EffectiveNext(toBrowser'[k].req, toBrowser'[k].done) /\ ComingNext(toBrowser'[k].done, k)
  BY AnswersStep
<1>3. \A a \in acked' : EffectiveNext(a.r, a.done) /\ state'.time >= a.done
  BY AckedStep
<1> QED
  BY <1>1, <1>2, <1>3
  DEF AnsweredInv, HandlerNext, EffectiveNext, Effective, ComingNext, Coming, OnWay, Shows

\* Once a success has been answered, what is on display contains it (index.js:56).
THEOREM ReadYourWritesCorrect == Spec => []ReadYourWrites
<1>1. Init => AnsweredInv
  BY DEF Init, AnsweredInv
<1>2. AnsweredInv => ReadYourWrites
  BY StatusesAre DEF AnsweredInv, Effective, ReadYourWrites
<1> QED
  BY <1>1, <1>2, SessionTypeCorrect, ChainCorrect, ClockCorrect, LoopCorrect, AnsweredStep, PTL
  DEF Spec

-----------------------------------------------------------------------------
(* Nothing waits without a cause *)

\* The steps that move a request, and the others.
LEMMA PendingCases ==
  ASSUME TypeOK, [Next]_vars
  PROVE  \/ /\ UNCHANGED <<toServer, toBrowser, req, reqCount, callbacks>>
            /\ dropped \subseteq dropped'
            /\ link' = "down" <=> link = "down"
            /\ \A h \in Handler : at'[h] = "idle" <=> at[h] = "idle"
         \/ Update \/ ReceiveData \/ ReceiveAnswer \/ Disconnect
         \/ \E i \in Item : Buy(i)
         \/ \E h \in Handler : OnMessage(h) \/ Answer(h) \/ StatusFails(h)
         \/ \E v \in Invocation : SendStatus(v)
<1> USE DEF net, server, browser, history
<1>0. /\ at \in [Invocation -> {"idle", "request", "status", "latest", "send", "answer"}]
      /\ \A h \in Handler : h # "loop" /\ h # "first" /\ h \in Invocation
  BY HandlerAssumption DEF TypeOK, Invocation
<1>1. CASE Add \/ OnOpen \/ OnClose
  BY <1>1 DEF Add, OnOpen, OnClose
<1>2. CASE Accept
  <2>1. \A h \in Handler : at'[h] = at[h]
    BY <1>0, <1>2 DEF Accept
  <2> QED BY <1>2, <2>1 DEF Accept
<1>3. CASE Loop
  <2>1. \A h \in Handler : at'[h] = at[h]
    BY <1>0, <1>3 DEF Loop
  <2> QED BY <1>3, <2>1 DEF Loop
<1>4. CASE ServerClose
  BY <1>4 DEF ServerClose
<1>5. ASSUME NEW g \in Handler, Request(g) \/ RequestFails(g)
      PROVE  /\ UNCHANGED <<toServer, toBrowser, req, reqCount, callbacks, dropped, link>>
             /\ \A h \in Handler : at'[h] = "idle" <=> at[h] = "idle"
  <2>1. at[g] = "request" /\ (at' = [at EXCEPT ![g] = "status"] \/ at' = [at EXCEPT ![g] = "answer"])
    BY <1>5 DEF Request, RequestFails
  <2>2. \A h \in Handler : at'[h] = "idle" <=> at[h] = "idle"
    BY <1>0, <2>1
  <2> QED BY <1>5, <2>2 DEF Request, RequestFails
<1>6. ASSUME NEW v \in Invocation, Status(v) \/ LatestTime(v) \/ LatestFails(v)
      PROVE  /\ UNCHANGED <<toServer, toBrowser, req, reqCount, callbacks, dropped, link>>
             /\ \A h \in Handler : at'[h] = "idle" <=> at[h] = "idle"
  <2>1. /\ at[v] # "idle"
        /\ at' = [at EXCEPT ![v] = "latest"] \/ at' = [at EXCEPT ![v] = "send"]
    BY <1>6 DEF Status, LatestTime, LatestFails
  <2>2. \A h \in Handler : at'[h] = "idle" <=> at[h] = "idle"
    BY <1>0, <2>1
  <2> QED BY <1>6, <2>2 DEF Status, LatestTime, LatestFails
<1>7. ASSUME NEW v \in Invocation, v \notin Handler, StatusFails(v)
      PROVE  /\ UNCHANGED <<toServer, toBrowser, req, reqCount, callbacks, link>>
             /\ dropped \subseteq dropped'
             /\ \A h \in Handler : at'[h] = "idle" <=> at[h] = "idle"
  <2>1. \A h \in Handler : at'[h] = at[h]
    BY <1>0, <1>7 DEF StatusFails
  <2> QED BY <1>7, <2>1 DEF StatusFails
<1>8. CASE Others \/ Tick \/ UNCHANGED vars
  BY <1>8 DEF Others, Tick, vars
<1> QED BY <1>1, <1>2, <1>3, <1>4, <1>5, <1>6, <1>7, <1>8 DEF Next, Serve

\* What sendRequest does on an open and on a broken connection.
LEMMA SendCases ==
  ASSUME NEW r, NEW c, SendRequest(r, c)
  PROVE  \/ UNCHANGED <<reqCount, callbacks, toServer>> /\ ~ isOpen
         \/ /\ isOpen /\ reqCount' = reqCount + 1 /\ callbacks' = callbacks \cup {c}
            /\ toServer' = IF link = "up" THEN Append(toServer, r) ELSE toServer
  BY DEF SendRequest

\* The numbers in use stay below the counter.
LEMMA NumberedSend ==
  ASSUME TypeOK, Numbered, NEW r, r.id = reqCount + 1, NEW c, c.id = reqCount + 1,
         SendRequest(r, c), UNCHANGED <<req, at, toBrowser>>
  PROVE  Numbered'
<1>1. reqCount \in Nat /\ toServer \in Seq(RequestType)
  BY DEF TypeOK
<1>2. CASE UNCHANGED <<reqCount, callbacks, toServer>>
  BY <1>2 DEF Numbered, IsAnswer
<1>3. CASE reqCount' = reqCount + 1 /\ callbacks' = callbacks \cup {c}
  <2>1. \A n : n \in 1 .. reqCount => n \in 1 .. reqCount'
    BY <1>1, <1>3
  <2>2. \A n : n \in 0 .. reqCount => n \in 0 .. reqCount'
    BY <1>1, <1>3
  <2>3. reqCount + 1 \in 1 .. reqCount'
    BY <1>1, <1>3
  <2>4. ASSUME NEW k \in DOMAIN toServer' PROVE toServer'[k].id \in 1 .. reqCount'
    <3>1. toServer' = Append(toServer, r) \/ toServer' = toServer
      BY SendCases
    <3>2. CASE toServer' = toServer
      BY <2>1, <2>4, <3>2 DEF Numbered
    <3>3. CASE toServer' = Append(toServer, r)
      BY <1>1, <2>1, <2>3, <2>4, <3>3, AppendAt DEF Numbered
    <3> QED BY <3>1, <3>2, <3>3
  <2> QED BY <1>3, <2>1, <2>2, <2>3, <2>4 DEF Numbered, IsAnswer
<1> QED BY <1>2, <1>3, SendCases

\* A number that is sent is nowhere else.
LEMMA OnePlaceSend ==
  ASSUME TypeOK, Numbered, OnePlace, NEW r, r.id = reqCount + 1, NEW c,
         SendRequest(r, c), UNCHANGED <<req, toBrowser>>
  PROVE  OnePlace'
<1>1. reqCount \in Nat /\ toServer \in Seq(RequestType)
  BY DEF TypeOK
<1>2. CASE toServer' = toServer
  BY <1>2 DEF OnePlace, IsAnswer
<1>3. CASE toServer' = Append(toServer, r)
  <2>1. \A n : n \in 0 .. reqCount => n # reqCount + 1
    BY <1>1
  <2>2. \A n : n \in 1 .. reqCount => n # reqCount + 1
    BY <1>1
  <2>3. \A k \in DOMAIN toServer' : \/ k \in DOMAIN toServer /\ toServer'[k] = toServer[k]
                                    \/ k = Len(toServer) + 1 /\ toServer'[k] = r
    BY <1>1, <1>3, AppendAt
  <2>4. \A j, k \in DOMAIN toServer' : toServer'[j].id = toServer'[k].id => j = k
    BY <2>2, <2>3 DEF Numbered, OnePlace
  <2>5. \A k \in DOMAIN toServer', h \in Handler : toServer'[k].id # req[h].id
    BY <2>1, <2>3 DEF Numbered, OnePlace
  <2>6. \A j \in DOMAIN toServer', k \in DOMAIN toBrowser :
           IsAnswer(k) => toServer'[j].id # toBrowser[k].req.id
    BY <2>2, <2>3 DEF Numbered, OnePlace
  <2> QED BY <2>4, <2>5, <2>6 DEF OnePlace, IsAnswer
<1> QED BY <1>2, <1>3, SendCases


\* The messages on their way once one more may have been sent.
LEMMA SentAt ==
  ASSUME TypeOK, NEW m, toBrowser' = Append(toBrowser, m) \/ toBrowser' = toBrowser
  PROVE  \A k \in DOMAIN toBrowser' : \/ k \in DOMAIN toBrowser /\ toBrowser'[k] = toBrowser[k]
                                      \/ k = Len(toBrowser) + 1 /\ toBrowser'[k] = m
<1>1. toBrowser \in Seq(Message)
  BY DEF TypeOK
<1>2. CASE toBrowser' = Append(toBrowser, m)
  BY <1>1, <1>2, AppendAt
<1>3. CASE toBrowser' = toBrowser
  BY <1>3
<1> QED BY <1>2, <1>3

\* What Update and Buy send has the next number.
LEMMA ButtonSends ==
  ASSUME Update \/ \E i \in Item : Buy(i)
  PROVE  /\ \E r, c : r.id = reqCount + 1 /\ c.id = reqCount + 1 /\ SendRequest(r, c)
         /\ UNCHANGED <<req, at, toBrowser, link, dropped, isOpen, state>>
<1> USE DEF net, server, browser, history
<1>1. CASE Update
  <2> DEFINE t == FreeEntry(In(Delay))
             r == [id |-> reqCount + 1, kind |-> "add", time |-> t, isu |-> addValue]
             c == [id |-> reqCount + 1, kind |-> "add", time |-> t]
  <2>1. SendRequest(r, c) /\ UNCHANGED <<req, at, toBrowser, link, dropped, isOpen, state>>
    BY <1>1 DEF Update
  <2>2. r.id = reqCount + 1 /\ c.id = reqCount + 1
    OBVIOUS
  <2> QED BY <2>1, <2>2
<1>2. ASSUME NEW i \in Item, Buy(i)
      PROVE  /\ \E r, c : r.id = reqCount + 1 /\ c.id = reqCount + 1 /\ SendRequest(r, c)
             /\ UNCHANGED <<req, at, toBrowser, link, dropped, isOpen, state>>
  <2> DEFINE r == [id |-> reqCount + 1, kind |-> "buy", time |-> In(Delay), item |-> i,
                   count |-> CountBuying(state.buying, i)]
             c == [id |-> reqCount + 1, kind |-> "buy", time |-> In(Delay)]
  <2>1. SendRequest(r, c) /\ UNCHANGED <<req, at, toBrowser, link, dropped, isOpen, state>>
    BY <1>2 DEF Buy
  <2>2. r.id = reqCount + 1 /\ c.id = reqCount + 1
    OBVIOUS
  <2> QED BY <2>1, <2>2
<1> QED BY <1>1, <1>2

\* Each step leaves the numbers in use below the counter.
LEMMA NumberedStep == TypeOK /\ Numbered /\ [Next]_vars => Numbered'
<1> SUFFICES ASSUME TypeOK, Numbered, [Next]_vars PROVE Numbered'
  OBVIOUS
<1> USE DEF net, server, browser, history
<1>0. /\ toServer \in Seq(RequestType) /\ toBrowser \in Seq(Message) /\ reqCount \in Nat
      /\ req \in [Handler -> RequestType \cup {NoReq}]
      /\ at \in [Invocation -> {"idle", "request", "status", "latest", "send", "answer"}]
      /\ Handler \subseteq Invocation
      /\ NoReq.id = 0 /\ \A n \in 1 .. reqCount : n # 0 /\ n \in 0 .. reqCount
      /\ 0 \in 0 .. reqCount
  BY DEF TypeOK, Invocation, NoReq
<1>1. CASE /\ UNCHANGED <<toServer, toBrowser, req, reqCount, callbacks>>
           /\ \A h \in Handler : at'[h] = "idle" <=> at[h] = "idle"
  BY <1>1 DEF Numbered, IsAnswer
<1>2. CASE Update \/ \E i \in Item : Buy(i)
  BY <1>2, ButtonSends, NumberedSend
<1>3. CASE ReceiveData \/ ReceiveAnswer
  <2>1. /\ toBrowser # <<>> /\ toBrowser' = Tail(toBrowser)
        /\ callbacks' \subseteq callbacks
        /\ UNCHANGED <<toServer, req, reqCount, at>>
    BY <1>3 DEF ReceiveData, ReceiveAnswer
  <2>2. \A k \in DOMAIN toBrowser' : k + 1 \in DOMAIN toBrowser /\ toBrowser'[k] = toBrowser[k + 1]
    BY <1>0, <2>1, TailAt
  <2> QED BY <2>1, <2>2 DEF Numbered, IsAnswer
<1>4. CASE Disconnect
  BY <1>4 DEF Disconnect, Numbered, IsAnswer
<1>5. ASSUME NEW h \in Handler, OnMessage(h) PROVE Numbered'
  <2>1. /\ toServer # <<>> /\ toServer' = Tail(toServer)
        /\ req' = [req EXCEPT ![h] = Head(toServer)]
        /\ at' = [at EXCEPT ![h] = "request"]
        /\ UNCHANGED <<toBrowser, reqCount, callbacks>>
    BY <1>5 DEF OnMessage
  <2>2. Head(toServer) = toServer[1] /\ 1 \in DOMAIN toServer
    BY <1>0, <2>1
  <2>3. Head(toServer).id \in 1 .. reqCount
    BY <2>2 DEF Numbered
  <2>4. \A k \in DOMAIN toServer' : k + 1 \in DOMAIN toServer /\ toServer'[k] = toServer[k + 1]
    BY <1>0, <2>1, TailAt
  <2>5. \A g \in Handler : req'[g].id \in 0 .. reqCount /\ (at'[g] = "idle" <=> req'[g].id = 0)
    BY <1>0, <2>1, <2>3 DEF Numbered
  <2> QED BY <2>1, <2>4, <2>5 DEF Numbered, IsAnswer
<1>6. ASSUME NEW h \in Handler, Answer(h) PROVE Numbered'
  <2> DEFINE m == [kind |-> "answer", req |-> req[h], success |-> success[h], done |-> done[h]]
  <2>1. /\ at[h] = "answer"
        /\ toBrowser' = Append(toBrowser, m) \/ toBrowser' = toBrowser
        /\ m.req = req[h]
        /\ req' = [req EXCEPT ![h] = NoReq]
        /\ at' = [at EXCEPT ![h] = "idle"]
        /\ UNCHANGED <<toServer, reqCount, callbacks>>
    BY <1>6 DEF Answer, Send
  <2> HIDE DEF m
  <2>2. req[h].id \in 1 .. reqCount
    BY <1>0, <2>1 DEF Numbered
  <2>3. ASSUME NEW k \in DOMAIN toBrowser', toBrowser'[k].kind = "answer"
        PROVE  toBrowser'[k].req.id \in 1 .. reqCount
    BY <2>1, <2>2, <2>3, SentAt DEF Numbered, IsAnswer
  <2>4. \A g \in Handler : req'[g].id \in 0 .. reqCount /\ (at'[g] = "idle" <=> req'[g].id = 0)
    BY <1>0, <2>1 DEF Numbered
  <2> QED BY <2>1, <2>3, <2>4 DEF Numbered, IsAnswer
<1>7. ASSUME NEW h \in Handler, StatusFails(h) PROVE Numbered'
  <2>1. /\ req' = [req EXCEPT ![h] = NoReq]
        /\ at' = [at EXCEPT ![h] = "idle"]
        /\ UNCHANGED <<toServer, toBrowser, reqCount, callbacks>>
    BY <1>7 DEF StatusFails
  <2>2. \A g \in Handler : req'[g].id \in 0 .. reqCount /\ (at'[g] = "idle" <=> req'[g].id = 0)
    BY <1>0, <2>1 DEF Numbered
  <2> QED BY <2>1, <2>2 DEF Numbered, IsAnswer
<1>8. ASSUME NEW v \in Invocation, SendStatus(v) PROVE Numbered'
  <2> DEFINE m == [kind |-> "status", status |-> status[v]]
  <2>1. /\ at[v] = "send"
        /\ toBrowser' = Append(toBrowser, m) \/ toBrowser' = toBrowser
        /\ m.kind = "status"
        /\ at' = [at EXCEPT ![v] = AfterStatus(v)]
        /\ UNCHANGED <<toServer, req, reqCount, callbacks>>
    BY <1>8 DEF SendStatus, Send
  <2> HIDE DEF m
  <2>2. \A k \in DOMAIN toBrowser' : toBrowser'[k].kind = "answer" =>
           k \in DOMAIN toBrowser /\ toBrowser'[k] = toBrowser[k]
    BY <2>1, SentAt
  <2>3. \A g \in Handler : at'[g] = "idle" <=> at[g] = "idle"
    BY <1>0, <2>1 DEF AfterStatus
  <2> QED BY <2>1, <2>2, <2>3 DEF Numbered, IsAnswer
<1> QED BY <1>1, <1>2, <1>3, <1>4, <1>5, <1>6, <1>7, <1>8, PendingCases

\* Each step leaves every number in one place.
LEMMA OnePlaceStep == TypeOK /\ Numbered /\ OnePlace /\ [Next]_vars => OnePlace'
<1> SUFFICES ASSUME TypeOK, Numbered, OnePlace, [Next]_vars PROVE OnePlace'
  OBVIOUS
<1> USE DEF net, server, browser, history
<1>0. /\ toServer \in Seq(RequestType) /\ toBrowser \in Seq(Message) /\ reqCount \in Nat
      /\ req \in [Handler -> RequestType \cup {NoReq}]
      /\ NoReq.id = 0 /\ \A n \in 1 .. reqCount : n # 0
      /\ DOMAIN toServer \subseteq Nat /\ DOMAIN toBrowser \subseteq Nat
  BY DEF TypeOK, NoReq
<1>1. CASE UNCHANGED <<toServer, toBrowser, req>>
  BY <1>1 DEF OnePlace, IsAnswer
<1>2. CASE Update \/ \E i \in Item : Buy(i)
  BY <1>2, ButtonSends, OnePlaceSend
<1>3. CASE ReceiveData \/ ReceiveAnswer
  <2>1. /\ toBrowser # <<>> /\ toBrowser' = Tail(toBrowser)
        /\ UNCHANGED <<toServer, req>>
    BY <1>3 DEF ReceiveData, ReceiveAnswer
  <2>2. \A k \in DOMAIN toBrowser' :
           k + 1 \in DOMAIN toBrowser /\ toBrowser'[k] = toBrowser[k + 1] /\ k \in Nat
    BY <1>0, <2>1, TailAt
  <2>3. \A j, k \in Nat : j + 1 = k + 1 => j = k
    OBVIOUS
  <2> QED BY <2>1, <2>2, <2>3 DEF OnePlace, IsAnswer
<1>4. CASE Disconnect
  <2>1. DOMAIN toServer' = {} /\ DOMAIN toBrowser' = {} /\ req' = req
    BY <1>4 DEF Disconnect
  <2> QED BY <2>1 DEF OnePlace, IsAnswer
<1>5. ASSUME NEW h \in Handler, OnMessage(h) PROVE OnePlace'
  <2>1. /\ toServer # <<>> /\ toServer' = Tail(toServer)
        /\ req' = [req EXCEPT ![h] = Head(toServer)]
        /\ toBrowser' = toBrowser
    BY <1>5 DEF OnMessage
  <2>2. Head(toServer) = toServer[1] /\ 1 \in DOMAIN toServer
    BY <1>0, <2>1
  <2>3. \A k \in DOMAIN toServer' : /\ k + 1 \in DOMAIN toServer /\ toServer'[k] = toServer[k + 1]
                                    /\ k \in Nat /\ k + 1 # 1
    BY <1>0, <2>1, TailAt
  <2>4. \A j, k \in Nat : j + 1 = k + 1 => j = k
    OBVIOUS
  <2>5. req'[h] = toServer[1] /\ \A g \in Handler : g # h => req'[g] = req[g]
    BY <1>0, <2>1, <2>2
  <2>6. \A j, k \in DOMAIN toServer' : toServer'[j].id = toServer'[k].id => j = k
    BY <2>3, <2>4 DEF OnePlace
  <2>7. \A f, g \in Handler : req'[f].id = req'[g].id /\ req'[f].id # 0 => f = g
    BY <2>2, <2>5 DEF OnePlace
  <2>8. \A k \in DOMAIN toServer', g \in Handler : toServer'[k].id # req'[g].id
    BY <2>2, <2>3, <2>5 DEF OnePlace
  <2>9. \A j \in DOMAIN toServer', k \in DOMAIN toBrowser :
           IsAnswer(k) => toServer'[j].id # toBrowser[k].req.id
    BY <2>3 DEF OnePlace
  <2>10. \A k \in DOMAIN toBrowser, g \in Handler : IsAnswer(k) => toBrowser[k].req.id # req'[g].id
    BY <2>2, <2>5 DEF OnePlace
  <2> QED BY <2>1, <2>6, <2>7, <2>8, <2>9, <2>10 DEF OnePlace, IsAnswer
<1>6. ASSUME NEW h \in Handler, Answer(h) PROVE OnePlace'
  <2> DEFINE m == [kind |-> "answer", req |-> req[h], success |-> success[h], done |-> done[h]]
  <2>1. /\ at[h] = "answer"
        /\ toBrowser' = Append(toBrowser, m) \/ toBrowser' = toBrowser
        /\ m.req = req[h]
        /\ req' = [req EXCEPT ![h] = NoReq]
        /\ toServer' = toServer
    BY <1>6 DEF Answer, Send
  <2> HIDE DEF m
  <2>2. req[h].id # 0
    BY <2>1 DEF Numbered
  <2>3. req'[h].id = 0 /\ \A g \in Handler : g # h => req'[g] = req[g]
    BY <1>0, <2>1
  <2>4. \A k \in DOMAIN toBrowser' : toBrowser'[k].kind = "answer" =>
           \/ IsAnswer(k) /\ toBrowser'[k] = toBrowser[k]
           \/ k = Len(toBrowser) + 1 /\ toBrowser'[k].req.id = req[h].id
    BY <2>1, SentAt DEF IsAnswer
  <2>5. \A j, k \in DOMAIN toBrowser' :
           toBrowser'[j].kind = "answer" /\ toBrowser'[k].kind = "answer" =>
             (toBrowser'[j].req.id = toBrowser'[k].req.id => j = k)
    <3>1. \A k \in DOMAIN toBrowser : IsAnswer(k) => toBrowser[k].req.id # req[h].id
      BY DEF OnePlace
    <3>2. \A j, k \in DOMAIN toBrowser :
             IsAnswer(j) /\ IsAnswer(k) => (toBrowser[j].req.id = toBrowser[k].req.id => j = k)
      BY DEF OnePlace
    <3> QED BY <2>4, <3>1, <3>2 DEF IsAnswer
  <2>6. \A f, g \in Handler : req'[f].id = req'[g].id /\ req'[f].id # 0 => f = g
    BY <2>3 DEF OnePlace
  <2>7. \A k \in DOMAIN toServer, g \in Handler : toServer[k].id # req'[g].id
    BY <1>0, <2>3 DEF OnePlace, Numbered
  <2>8. \A j \in DOMAIN toServer, k \in DOMAIN toBrowser' :
           toBrowser'[k].kind = "answer" => toServer[j].id # toBrowser'[k].req.id
    BY <2>4 DEF OnePlace, IsAnswer
  <2>9. \A k \in DOMAIN toBrowser', g \in Handler :
           toBrowser'[k].kind = "answer" => toBrowser'[k].req.id # req'[g].id
    BY <1>0, <2>2, <2>3, <2>4 DEF OnePlace, Numbered, IsAnswer
  <2> QED BY <2>1, <2>5, <2>6, <2>7, <2>8, <2>9 DEF OnePlace, IsAnswer
<1>7. ASSUME NEW h \in Handler, StatusFails(h) PROVE OnePlace'
  <2>1. /\ req' = [req EXCEPT ![h] = NoReq]
        /\ UNCHANGED <<toServer, toBrowser>>
    BY <1>7 DEF StatusFails
  <2>2. req'[h].id = 0 /\ \A g \in Handler : g # h => req'[g] = req[g]
    BY <1>0, <2>1
  <2>3. \A f, g \in Handler : req'[f].id = req'[g].id /\ req'[f].id # 0 => f = g
    BY <2>2 DEF OnePlace
  <2>4. /\ \A k \in DOMAIN toServer : toServer[k].id # 0
        /\ \A k \in DOMAIN toBrowser : IsAnswer(k) => toBrowser[k].req.id # 0
    BY <1>0 DEF Numbered
  <2> QED BY <2>1, <2>2, <2>3, <2>4 DEF OnePlace, IsAnswer
<1>8. ASSUME NEW v \in Invocation, SendStatus(v) PROVE OnePlace'
  <2> DEFINE m == [kind |-> "status", status |-> status[v]]
  <2>1. /\ toBrowser' = Append(toBrowser, m) \/ toBrowser' = toBrowser
        /\ m.kind = "status"
        /\ UNCHANGED <<toServer, req>>
    BY <1>8 DEF SendStatus, Send
  <2> HIDE DEF m
  <2>2. \A k \in DOMAIN toBrowser' : toBrowser'[k].kind = "answer" =>
           k \in DOMAIN toBrowser /\ toBrowser'[k] = toBrowser[k]
    BY <2>1, SentAt
  <2> QED BY <2>1, <2>2 DEF OnePlace, IsAnswer
<1> QED BY <1>1, <1>2, <1>3, <1>4, <1>5, <1>6, <1>7, <1>8, PendingCases


\* The browser has a state only once its socket has been open.
LEMMA OpenedStep == TypeOK /\ Opened /\ [Next]_vars => Opened'
<1> SUFFICES ASSUME TypeOK, Opened, [Next]_vars PROVE Opened'
  OBVIOUS
<1> USE DEF Opened, net, server, browser
<1>1. CASE UNCHANGED <<state, link, isOpen>>
  BY <1>1
<1>2. CASE Add \/ Update \/ \E i \in Item : Buy(i)
  BY <1>1, <1>2 DEF Add, Update, Buy
<1>3. CASE OnOpen \/ OnClose
  BY <1>3 DEF OnOpen, OnClose
<1>4. CASE ReceiveData \/ ReceiveAnswer
  BY <1>4 DEF ReceiveData, ReceiveAnswer
<1>5. CASE Accept
  BY <1>5 DEF Accept
<1>6. CASE Loop \/ ServerClose
  BY <1>1, <1>6 DEF Loop, ServerClose
<1>7. CASE \E h \in Handler : OnMessage(h) \/ Request(h) \/ RequestFails(h) \/ Answer(h)
  BY <1>1, <1>7 DEF OnMessage, Request, RequestFails, Answer
<1>8. CASE \E v \in Invocation : \/ Status(v) \/ LatestTime(v) \/ LatestFails(v)
                                 \/ SendStatus(v) \/ StatusFails(v)
  BY <1>1, <1>8 DEF Status, LatestTime, LatestFails, SendStatus, StatusFails
<1>9. CASE Disconnect
  BY <1>9 DEF Disconnect
<1>10. CASE Others \/ Tick \/ UNCHANGED vars
  BY <1>1, <1>10 DEF Others, Tick, vars
<1> QED BY <1>2, <1>3, <1>4, <1>5, <1>6, <1>7, <1>8, <1>9, <1>10 DEF Next, Serve

\* A request that waits is somewhere on its way after the step too.
LEMMA CausedStep ==
  TypeOK /\ LoopInv /\ Numbered /\ OnePlace /\ Opened /\ Caused /\ [Next]_vars => Caused'
<1> SUFFICES ASSUME TypeOK, LoopInv, Numbered, OnePlace, Opened, Caused, [Next]_vars
             PROVE  Caused'
  OBVIOUS
<1> USE DEF net, server, browser, history
<1>0. /\ toServer \in Seq(RequestType) /\ toBrowser \in Seq(Message) /\ reqCount \in Nat
      /\ req \in [Handler -> RequestType \cup {NoReq}]
      /\ link \in {"connecting", "up", "down"}
      /\ DOMAIN toServer \subseteq Nat /\ DOMAIN toBrowser \subseteq Nat
      /\ Handler \subseteq Invocation
      /\ \A c \in callbacks : c.id \in 1 .. reqCount
      /\ \A n \in 1 .. reqCount : n # 0 /\ n # reqCount + 1
  BY DEF TypeOK, Numbered, Invocation
<1> USE DEF Caused, HasCause, Waiting, Served, Answered
<1>1. CASE /\ UNCHANGED <<toServer, toBrowser, req, reqCount, callbacks>>
           /\ dropped \subseteq dropped'
           /\ link' = "down" <=> link = "down"
  BY <1>1
<1>2. CASE Update \/ \E i \in Item : Buy(i)
  <2>1. PICK r, c : r.id = reqCount + 1 /\ c.id = reqCount + 1 /\ SendRequest(r, c)
    BY <1>2, ButtonSends
  <2>2. UNCHANGED <<req, toBrowser, link, dropped>>
    BY <1>2, ButtonSends
  <2>3. CASE UNCHANGED <<reqCount, callbacks, toServer>>
    BY <2>2, <2>3
  <2>4. CASE /\ isOpen /\ callbacks' = callbacks \cup {c}
             /\ toServer' = IF link = "up" THEN Append(toServer, r) ELSE toServer
    <3>1. \A k \in DOMAIN toServer : k \in DOMAIN toServer' /\ toServer'[k] = toServer[k]
      BY <1>0, <2>4
    <3>2. \/ link = "down"
          \/ Len(toServer) + 1 \in DOMAIN toServer' /\ toServer'[Len(toServer) + 1] = r
      BY <1>0, <2>4 DEF Opened
    <3>3. HasCause(c.id)'
      <4>1. CASE link = "down"
        BY <2>2, <4>1
      <4>2. CASE Len(toServer) + 1 \in DOMAIN toServer' /\ toServer'[Len(toServer) + 1] = r
        BY <2>1, <4>2
      <4> QED BY <3>2, <4>1, <4>2
    <3>4. ASSUME NEW d \in callbacks PROVE HasCause(d.id)'
      BY <2>2, <3>1, <3>4
    <3>5. \A d, e \in callbacks' : d.id = e.id => d = e
      BY <1>0, <2>1, <2>4
    <3> QED BY <2>4, <3>3, <3>4, <3>5
  <2> QED BY <2>1, <2>3, <2>4, SendCases
<1>3. CASE ReceiveData \/ ReceiveAnswer
  <2>1. /\ toBrowser # <<>> /\ toBrowser' = Tail(toBrowser)
        /\ callbacks' \subseteq callbacks
        /\ UNCHANGED <<toServer, req, link, dropped>>
    BY <1>3 DEF ReceiveData, ReceiveAnswer
  <2>2. 1 \in DOMAIN toBrowser /\ Head(toBrowser) = toBrowser[1]
    BY <1>0, <2>1
  <2>3. \A k \in DOMAIN toBrowser : k # 1 =>
           k - 1 \in DOMAIN toBrowser' /\ toBrowser'[k - 1] = toBrowser[k]
    BY <1>0, <2>1
  <2>4. ASSUME NEW d \in callbacks' PROVE HasCause(d.id)'
    <3>1. HasCause(d.id)
      BY <2>1
    <3>2. CASE ~ Answered(d.id)
      BY <2>1, <3>1, <3>2
    <3>3. ASSUME NEW k \in DOMAIN toBrowser,
                 toBrowser[k].kind = "answer", toBrowser[k].req.id = d.id
          PROVE  k # 1
      <4>1. CASE ReceiveData
        BY <2>2, <3>3, <4>1 DEF ReceiveData
      <4>2. CASE ReceiveAnswer
        <5>1. PICK c \in callbacks : c.id = Head(toBrowser).req.id /\ callbacks' = callbacks \ {c}
          BY <4>2 DEF ReceiveAnswer
        <5>2. d.id # c.id
          BY <2>1, <5>1
        <5> QED BY <2>2, <3>3, <5>1, <5>2
      <4> QED BY <1>3, <4>1, <4>2
    <3>4. CASE Answered(d.id)
      <4>1. PICK k \in DOMAIN toBrowser : toBrowser[k].kind = "answer" /\ toBrowser[k].req.id = d.id
        BY <3>4
      <4>2. k - 1 \in DOMAIN toBrowser' /\ toBrowser'[k - 1] = toBrowser[k]
        BY <2>3, <3>3, <4>1
      <4> QED BY <4>1, <4>2
    <3> QED BY <3>2, <3>4
  <2> QED BY <2>1, <2>4
<1>4. CASE Disconnect
  BY <1>4 DEF Disconnect
<1>5. ASSUME NEW h \in Handler, OnMessage(h) PROVE Caused'
  <2>1. /\ at[h] = "idle" /\ toServer # <<>> /\ toServer' = Tail(toServer)
        /\ req' = [req EXCEPT ![h] = Head(toServer)]
        /\ UNCHANGED <<toBrowser, callbacks, link, dropped>>
    BY <1>5 DEF OnMessage
  <2>2. Head(toServer) = toServer[1] /\ req[h].id = 0
    BY <1>0, <2>1 DEF Numbered
  <2>3. req'[h] = toServer[1] /\ \A g \in Handler : g # h => req'[g] = req[g]
    BY <1>0, <2>1, <2>2
  <2>4. \A k \in DOMAIN toServer : k # 1 =>
           k - 1 \in DOMAIN toServer' /\ toServer'[k - 1] = toServer[k]
    BY <1>0, <2>1
  <2>5. ASSUME NEW d \in callbacks PROVE HasCause(d.id)'
    <3>1. CASE Waiting(d.id)
      BY <2>3, <2>4, <3>1
    <3>2. CASE Served(d.id)
      BY <1>0, <2>2, <2>3, <3>2
    <3>3. CASE link = "down" \/ d.id \in dropped \/ Answered(d.id)
      BY <2>1, <3>3
    <3> QED BY <3>1, <3>2, <3>3
  <2> QED BY <2>1, <2>5
<1>6. ASSUME NEW h \in Handler, Answer(h) PROVE Caused'
  <2> DEFINE m == [kind |-> "answer", req |-> req[h], success |-> success[h], done |-> done[h]]
  <2>1. /\ at[h] = "answer"
        /\ toBrowser' = IF ready /\ link = "up" THEN Append(toBrowser, m) ELSE toBrowser
        /\ m.req = req[h] /\ m.kind = "answer"
        /\ req' = [req EXCEPT ![h] = NoReq]
        /\ UNCHANGED <<toServer, callbacks, link, dropped>>
    BY <1>6 DEF Answer, Send
  <2> HIDE DEF m
  <2>2. link = "down" \/ toBrowser' = Append(toBrowser, m)
    BY <1>0, <2>1 DEF LoopInv
  <2>3. CASE link = "down"
    BY <2>1, <2>3
  <2>4. CASE toBrowser' = Append(toBrowser, m)
    <3>1. /\ \A k \in DOMAIN toBrowser : k \in DOMAIN toBrowser' /\ toBrowser'[k] = toBrowser[k]
          /\ Len(toBrowser) + 1 \in DOMAIN toBrowser'
          /\ toBrowser'[Len(toBrowser) + 1] = m
      BY <1>0, <2>4
    <3>2. \A g \in Handler : g # h => req'[g] = req[g]
      BY <1>0, <2>1
    <3>3. ASSUME NEW d \in callbacks PROVE HasCause(d.id)'
      <4>1. CASE Served(d.id)
        BY <2>1, <3>1, <3>2, <4>1
      <4>2. CASE Answered(d.id)
        BY <3>1, <4>2
      <4>3. CASE link = "down" \/ d.id \in dropped \/ Waiting(d.id)
        BY <2>1, <4>3
      <4> QED BY <4>1, <4>2, <4>3
    <3> QED BY <2>1, <3>3
  <2> QED BY <2>2, <2>3, <2>4
<1>7. ASSUME NEW h \in Handler, StatusFails(h) PROVE Caused'
  <2>1. /\ req' = [req EXCEPT ![h] = NoReq]
        /\ dropped' = dropped \cup {req[h].id}
        /\ UNCHANGED <<toServer, toBrowser, callbacks, link>>
    BY <1>7 DEF StatusFails
  <2>2. \A g \in Handler : g # h => req'[g] = req[g]
    BY <1>0, <2>1
  <2>3. ASSUME NEW d \in callbacks PROVE HasCause(d.id)'
    <3>1. CASE Served(d.id)
      BY <2>1, <2>2, <3>1
    <3>2. CASE ~ Served(d.id)
      BY <2>1, <3>2
    <3> QED BY <3>1, <3>2
  <2> QED BY <2>1, <2>3
<1>8. ASSUME NEW v \in Invocation, SendStatus(v) PROVE Caused'
  <2> DEFINE m == [kind |-> "status", status |-> status[v]]
  <2>1. /\ toBrowser' = Append(toBrowser, m) \/ toBrowser' = toBrowser
        /\ UNCHANGED <<toServer, req, callbacks, link, dropped>>
    BY <1>8 DEF SendStatus, Send
  <2> HIDE DEF m
  <2>2. \A k \in DOMAIN toBrowser : k \in DOMAIN toBrowser' /\ toBrowser'[k] = toBrowser[k]
    BY <1>0, <2>1
  <2>3. ASSUME NEW d \in callbacks PROVE HasCause(d.id)'
    <3>1. CASE Answered(d.id)
      BY <2>2, <3>1
    <3>2. CASE ~ Answered(d.id)
      BY <2>1, <3>2
    <3> QED BY <3>1, <3>2
  <2> QED BY <2>1, <2>3
<1> QED BY <1>1, <1>2, <1>3, <1>4, <1>5, <1>6, <1>7, <1>8, PendingCases


\* A button that waits has a request, and every request an amount of its own.
LEMMA ButtonsStep ==
  TypeOK /\ Opened /\ Caused /\ Buttons /\ [Next]_vars => Buttons'
<1> SUFFICES ASSUME TypeOK, Opened, Caused, Buttons, [Next]_vars PROVE Buttons'
  OBVIOUS
<1> USE DEF net, server, browser, history
<1>0. /\ callbacks \subseteq CallbackType /\ sending \in [ReqTime -> Nat] /\ addValue \in Nat
      /\ \A c \in callbacks : c.time \in ReqTime /\ c.kind \in {"add", "buy"}
  BY DEF TypeOK, CallbackType
<1>1. CASE /\ UNCHANGED <<callbacks, sending, buying_>>
           /\ link = "down" => link' = "down"
  BY <1>1 DEF Buttons
<1>2. CASE Update
  <2> DEFINE t == FreeEntry(In(Delay))
             r == [id |-> reqCount + 1, kind |-> "add", time |-> t, isu |-> addValue]
             c == [id |-> reqCount + 1, kind |-> "add", time |-> t]
  <2>1. In(Delay) \in Nat
    BY DelayAssumption DEF TypeOK, In, NoTime
  <2>2. t \in ReqTime /\ sending[t] = 0
    BY <1>2, <2>1, FreeEntryFree DEF Update
  <2>3. /\ addValue > 0 /\ SendRequest(r, c) /\ sending' = [sending EXCEPT ![t] = addValue]
        /\ UNCHANGED <<buying_, link>> /\ c.time = t /\ c.kind = "add"
    BY <1>2 DEF Update
  <2>4. callbacks' = callbacks \/ callbacks' = callbacks \cup {c}
    BY <2>3, SendCases
  <2> HIDE DEF t, r, c
  <2>5. \A d \in callbacks : d.kind = "add" => d.time # t /\ sending[d.time] > 0
    BY <2>2 DEF Buttons
  <2>6. sending'[t] > 0 /\ \A u \in ReqTime : u # t => sending'[u] = sending[u]
    BY <1>0, <2>2, <2>3
  <2>7. \A d \in callbacks' : d.kind = "add" => sending'[d.time] > 0
    BY <1>0, <2>3, <2>4, <2>5, <2>6
  <2>8. \A d, e \in callbacks' : d.kind = "add" /\ e.kind = "add" /\ d.time = e.time => d = e
    BY <2>3, <2>4, <2>5 DEF Buttons
  <2>9. buying_' => link' = "down" \/ \E d \in callbacks' : d.kind = "buy"
    BY <2>3, <2>4 DEF Buttons
  <2> QED BY <2>7, <2>8, <2>9 DEF Buttons
<1>3. ASSUME NEW i \in Item, Buy(i) PROVE Buttons'
  <2> DEFINE r == [id |-> reqCount + 1, kind |-> "buy", time |-> In(Delay), item |-> i,
                   count |-> CountBuying(state.buying, i)]
             c == [id |-> reqCount + 1, kind |-> "buy", time |-> In(Delay)]
  <2>1. SendRequest(r, c) /\ state # NoState /\ UNCHANGED <<sending, link>> /\ c.kind = "buy"
    BY <1>3 DEF Buy
  <2> HIDE DEF r, c
  <2>2. \/ callbacks' = callbacks /\ ~ isOpen
        \/ callbacks' = callbacks \cup {c}
    BY <2>1, SendCases
  <2>3. link' = "down" \/ \E d \in callbacks' : d.kind = "buy"
    BY <2>1, <2>2 DEF Opened
  <2>4. \A d \in callbacks' : d.kind = "add" => d \in callbacks
    BY <2>1, <2>2
  <2> QED BY <2>1, <2>3, <2>4 DEF Buttons
<1>4. CASE ReceiveAnswer
  <2>1. PICK c \in callbacks :
           /\ callbacks' = callbacks \ {c}
           /\ IF c.kind = "add" THEN sending' = [sending EXCEPT ![c.time] = 0] /\ buying_' = buying_
                                ELSE buying_' = FALSE /\ sending' = sending
    BY <1>4 DEF ReceiveAnswer
  <2>2. link' = link
    BY <1>4 DEF ReceiveAnswer
  <2>3. CASE c.kind = "add"
    <3>1. \A d \in callbacks' : d \in callbacks /\ d # c
      BY <2>1
    <3>2. \A d \in callbacks' : d.kind = "add" => d.time # c.time
      BY <2>3, <3>1 DEF Buttons
    <3>3. \A d \in callbacks' : d.kind = "add" => sending'[d.time] = sending[d.time]
      BY <1>0, <2>1, <2>3, <3>1, <3>2
    <3>4. buying_' => link' = "down" \/ \E d \in callbacks' : d.kind = "buy"
      BY <2>1, <2>2, <2>3 DEF Buttons
    <3> QED BY <3>1, <3>3, <3>4 DEF Buttons
  <2>4. CASE c.kind # "add"
    <3>1. buying_' = FALSE /\ sending' = sending
      BY <2>1, <2>4
    <3>2. \A d \in callbacks' : d \in callbacks
      BY <2>1
    <3> QED BY <3>1, <3>2 DEF Buttons
  <2> QED BY <2>3, <2>4
<1>5. CASE Add \/ OnOpen \/ OnClose \/ ReceiveData
  BY <1>1, <1>5 DEF Add, OnOpen, OnClose, ReceiveData
<1>6. CASE Accept \/ Loop \/ ServerClose
  BY <1>1, <1>6 DEF Accept, Loop, ServerClose
<1>7. CASE \E h \in Handler : OnMessage(h) \/ Request(h) \/ RequestFails(h) \/ Answer(h)
  BY <1>1, <1>7 DEF OnMessage, Request, RequestFails, Answer
<1>8. CASE \E v \in Invocation : \/ Status(v) \/ LatestTime(v) \/ LatestFails(v)
                                 \/ SendStatus(v) \/ StatusFails(v)
  BY <1>1, <1>8 DEF Status, LatestTime, LatestFails, SendStatus, StatusFails
<1>9. CASE Disconnect \/ Others \/ Tick \/ UNCHANGED vars
  BY <1>1, <1>9 DEF Disconnect, Others, Tick, vars
<1> QED BY <1>2, <1>3, <1>4, <1>5, <1>6, <1>7, <1>8, <1>9 DEF Next, Serve

\* Nothing has been sent at first.
LEMMA PendingInit == Init => PendingInv
<1> SUFFICES ASSUME Init PROVE PendingInv
  OBVIOUS
<1>1. /\ toServer = <<>> /\ toBrowser = <<>> /\ callbacks = {} /\ reqCount = 0
      /\ state = NoState /\ ~ isOpen /\ ~ buying_
      /\ \A h \in Handler : req[h].id = 0 /\ at[h] = "idle"
  BY DEF Init, NoReq, Invocation
<1>2. Numbered /\ OnePlace
  BY <1>1 DEF Numbered, OnePlace, IsAnswer
<1> QED BY <1>1, <1>2 DEF PendingInv, Caused, Opened, Buttons

\* A button stays disabled, and an amount among those being sent, only as long as its
\* request is in exactly one place, or lost with its status or its connection (game.js:311).
THEOREM PendingHasCauseCorrect == Spec => []PendingHasCause
<1>1. TypeOK /\ LoopInv /\ PendingInv /\ [Next]_vars => PendingInv'
  BY NumberedStep, OnePlaceStep, OpenedStep, CausedStep, ButtonsStep DEF PendingInv
<1>2. PendingInv => PendingHasCause
  <2> SUFFICES ASSUME PendingInv PROVE PendingHasCause
    OBVIOUS
  <2> USE DEF PendingInv
  <2>1. ASSUME NEW id, Waiting(id) PROVE ~ Served(id) /\ ~ Answered(id)
    BY <2>1 DEF OnePlace, Waiting, Served, Answered, IsAnswer
  <2>2. ASSUME NEW id, Served(id) PROVE ~ Answered(id)
    BY <2>2 DEF OnePlace, Served, Answered, IsAnswer
  <2>3. \A c \in callbacks :
          \/ link = "down" \/ c.id \in dropped
          \/ Waiting(c.id) /\ ~ Served(c.id) /\ ~ Answered(c.id)
          \/ Served(c.id) /\ ~ Waiting(c.id) /\ ~ Answered(c.id)
          \/ Answered(c.id) /\ ~ Waiting(c.id) /\ ~ Served(c.id)
    BY <2>1, <2>2 DEF Caused, HasCause
  <2> QED BY <2>3 DEF PendingHasCause, Buttons
<1> QED BY <1>1, <1>2, PendingInit, SessionTypeCorrect, LoopCorrect, PTL DEF Spec


=============================================================================
