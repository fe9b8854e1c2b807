------------------------------ MODULE BenchClient ------------------------------
(***************************************************************************)
(* The benchmarker's connection to a game server (bench/client.go): a      *)
(* player's goroutines call doRequest, which registers a callback, writes, *)
(* and waits for the callback or one second; one goroutine reads, looks    *)
(* the callback up under the mutex and calls it after the mutex was        *)
(* released.  The server under test may answer late, never, or twice.      *)
(***************************************************************************)
EXTENDS Integers, Sequences, FiniteSets, Functions

CONSTANTS Goroutine,   \* goroutines of the player
          MaxRequests, \* bound: requests, over all callers
          MaxAnswers   \* bound: how often the server answers one request

BenchClientAssumption == MaxRequests \in Nat

Id == 1 .. MaxRequests
None == 0

VARIABLES pc,          \* caller -> idle, register, write, wait, answered, timedout
          id,          \* caller -> its request
          ids,         \* requestCount
          callback,    \* request ids that have a callback
          done,        \* request ids whose channel is closed
          conn,        \* "open" or "closed"
          sent,        \* requests the server has got
          answers,     \* request -> how often it was answered
          wire,        \* answers on their way
          reader,      \* the reader: [at, id]
          panicked,    \* a channel was closed twice: the benchmark dies
          logged,      \* requests whose answer is in the log of the room
          closes,      \* client-close, of this client
          outcome      \* request -> "none", "response" or "error", as doRequest returned

callers == <<pc, id, ids>>
shared == <<callback, done, conn, panicked, closes>>
server == <<sent, answers, wire>>
records == <<logged, outcome>>
clientVars == <<callers, shared, server, reader, records>>

\* Close: the counter is behind closeOnce.
CountOnce(n) == 1
Close == conn' = "closed" /\ closes' = CountOnce(closes)
-----------------------------------------------------------------------------
(* doRequest *)

Begin(c) ==
    /\ pc[c] = "idle" /\ ids < MaxRequests /\ ~ panicked
    /\ ids' = ids + 1 /\ id' = [id EXCEPT ![c] = ids + 1]
    /\ pc' = [pc EXCEPT ![c] = "register"]
    /\ UNCHANGED <<shared, server, reader, records>>

Register(c) ==
    /\ pc[c] = "register" /\ ~ panicked
    /\ callback' = callback \cup {id[c]}
    /\ pc' = [pc EXCEPT ![c] = "write"]
    /\ UNCHANGED <<id, ids, done, conn, panicked, closes, server, reader, records>>

\* The deferred function deletes the callback; doRequest returns.
DeleteCallback(cs, i) == cs \ {i}
Return(c, result) ==
    /\ callback' = DeleteCallback(callback, id[c])
    /\ outcome' = [outcome EXCEPT ![id[c]] = result]
    /\ pc' = [pc EXCEPT ![c] = "idle"] /\ id' = [id EXCEPT ![c] = None]

Write(c) ==
    /\ pc[c] = "write" /\ ~ panicked
    /\ IF conn = "open"
       THEN /\ sent' = sent \cup {id[c]}
            /\ pc' = [pc EXCEPT ![c] = "wait"]
            /\ UNCHANGED <<id, callback, outcome>>
       ELSE /\ Return(c, "error")
            /\ UNCHANGED sent
    /\ UNCHANGED <<ids, done, conn, panicked, closes, answers, wire, reader, logged>>

\* select: when both are ready, either is taken.
Answered(c) ==
    /\ pc[c] = "wait" /\ id[c] \in done /\ ~ panicked
    /\ Return(c, "response")
    /\ UNCHANGED <<ids, done, conn, panicked, closes, server, reader, logged>>

Expires(c) == pc[c] = "wait"
TimedOut(c) ==
    /\ Expires(c) /\ ~ panicked
    /\ Close
    /\ Return(c, "error")
    /\ UNCHANGED <<ids, done, panicked, server, reader, logged>>
-----------------------------------------------------------------------------
(* read *)

\* Bug: the answer is given to any callback there is.
AnyCallback(i) == IF callback = {} THEN i ELSE CHOOSE x \in callback : \A y \in callback : y <= x

CallbackOf(i) == i

\* A message is read and logged, and its callback looked up under the mutex.
Read ==
    /\ reader.at = "read" /\ conn = "open" /\ wire # <<>> /\ ~ panicked
    /\ LET i == Head(wire)
       IN  /\ logged' = logged \cup {i}
           /\ reader' = IF CallbackOf(i) \in callback THEN [at |-> "call", id |-> CallbackOf(i)]
                                                      ELSE reader
    /\ wire' = Tail(wire)
    /\ UNCHANGED <<callers, shared, sent, answers, outcome>>

\* The callback is called, without the mutex: it closes the channel.
Call ==
    /\ reader.at = "call" /\ ~ panicked
    /\ panicked' = (reader.id \in done)
    /\ done' = done \cup {reader.id}
    /\ reader' = [at |-> "read", id |-> None]
    /\ UNCHANGED <<callers, callback, conn, closes, server, records>>

\* ReadMessage fails: the connection was closed, or nothing came for a second.
ReadFails ==
    /\ reader.at = "read" /\ ~ panicked
    /\ reader' = [at |-> "ended", id |-> None]
    /\ Close
    /\ UNCHANGED <<callers, callback, done, panicked, server, records>>
-----------------------------------------------------------------------------
(* The server under test, external *)

Answer(i) ==
    /\ i \in sent /\ answers[i] < MaxAnswers /\ ~ panicked
    /\ answers' = [answers EXCEPT ![i] = @ + 1]
    /\ wire' = Append(wire, i)
    /\ UNCHANGED <<callers, shared, sent, reader, records>>
-----------------------------------------------------------------------------
ClientInit ==
    /\ pc = [c \in Goroutine |-> "idle"] /\ id = [c \in Goroutine |-> None] /\ ids = 0
    /\ callback = {} /\ done = {} /\ conn = "open" /\ panicked = FALSE /\ closes = 0
    /\ sent = {} /\ answers = [i \in Id |-> 0] /\ wire = <<>>
    /\ reader = [at |-> "read", id |-> None]
    /\ logged = {} /\ outcome = [i \in Id |-> "none"]

DoRequest(c) == Register(c) \/ Write(c) \/ Answered(c) \/ TimedOut(c)
ClientNext == \/ \E c \in Goroutine : Begin(c) \/ DoRequest(c)
              \/ Read \/ Call \/ ReadFails
              \/ \E i \in Id : Answer(i)

ClientSpec == ClientInit /\ [][ClientNext]_clientVars

-----------------------------------------------------------------------------
(* Properties *)

\* A callback is that of a request under way.
ClientTypeOK ==
    /\ pc \in [Goroutine -> {"idle", "register", "write", "wait"}]
    /\ id \in [Goroutine -> Id \cup {None}] /\ ids \in 0 .. MaxRequests
    /\ callback = {id[c] : c \in {x \in Goroutine : pc[x] \in {"write", "wait"}}}
    /\ done \subseteq Id /\ sent \subseteq Id /\ logged \subseteq sent
    /\ wire \in Seq(Id)
    /\ reader \in [at : {"read", "call", "ended"}, id : Id \cup {None}]

\* An answer goes to the goroutine that asked: what doRequest returns is the answer
\* to its own request, and it is in the log that is validated afterwards
\* (client.go:283).
AnswerIsOwn == \A i \in Id : outcome[i] = "response" => answers[i] > 0 /\ i \in logged

\* The callback runs after the mutex was released, so a late answer can run it
\* after doRequest has given up: that harms nothing.  Only a server that answers
\* a request twice makes the benchmark panic (client.go:201).
PanicsOnlyOnTwo == panicked => \E i \in Id : answers[i] > 1

\* A client is counted as closed at most once, though the reader, a timeout and a
\* failed write may all close it: the number of active clients, which decides
\* the load, is not too low (client.go:157).
ClosedOnce == closes <= 1 /\ (conn = "closed" => closes = 1)

\* A player's requests get their own answers, a late one harms nothing, and the
\* connection is counted as closed once, whoever closes it (client.go:283, 201, 157).
AnswersFindTheirRequest == ClientTypeOK /\ AnswerIsOwn /\ PanicsOnlyOnTwo /\ ClosedOnce
=============================================================================
