---------------------------- MODULE JobQueueProofs ----------------------------
(***************************************************************************)
(* The portal's queue, for any number of teams, browsers, nodes and jobs:  *)
(* though every operation selects a row in one statement and changes it in *)
(* another, a job is run by one node at most and ends once.                *)
(***************************************************************************)
EXTENDS JobQueue, WellFoundedInduction, TLAPS

USE DEF JobId

\* What the nodes and the rows know of each other: a row has a bench_node from
\* the moment it is claimed, and whoever holds a job is its bench_node.
HolderInv ==
    /\ \A j \in JobId : status[j] \in {"none", "waiting", "canceled"} => benchNode[j] = {}
    /\ \A n \in Node : worker[n] # "idle" => task[n] \in 1 .. last
    /\ \A n \in Node : Holds(n) => benchNode[task[n]] = {n}
    /\ \A r \in Requester : button[r] = "cancel" => target[r] \in 1 .. last

IInv == TypeOK /\ HolderInv
-----------------------------------------------------------------------------
(* Types *)

\* A set of natural numbers that is not empty has a least member.
LEMMA LeastNat ==
  ASSUME NEW T, T \subseteq Nat, T # {}
  PROVE  Least(T) \in T
<1>1. PICK x \in T : \A y \in T : ~ (<<y, x>> \in OpToRel(<, Nat))
  BY WFMin, NatLessThanWellFounded
<1>2. \A y \in T : ~ (y < x)
  BY <1>1 DEF OpToRel
<1>3. \A y \in T : x <= y
  BY <1>2
<1> QED BY <1>3 DEF Least

\* A SELECT with LIMIT 1 returns a job that exists.
LEMMA SelectedJob ==
  ASSUME TypeOK, NEW T, T \subseteq 1 .. last, T # {}
  PROVE  Least(T) \in T /\ Least(T) \in 1 .. last /\ Least(T) \in JobId
<1>1. T \subseteq Nat
  BY DEF TypeOK
<1>2. Least(T) \in T
  BY <1>1, LeastNat
<1>3. \A j \in 1 .. last : j \in JobId
  BY TimeAssumption DEF TypeOK
<1> QED BY <1>2, <1>3

\* A benchmark that passed has a score.
LEMMA ResultType ==
  /\ NoResult \in Result
  /\ \A r \in Result : r.has /\ r.pass => r.score \in Score
<1>1. NoResult \in Result
  BY DEF Result
<1>2. ASSUME NEW r \in Result, r.has /\ r.pass PROVE r.score \in Score
  <2>1. CASE r = NoResult
    BY <1>2, <2>1 DEF NoResult
  <2>2. CASE r \in [has : {TRUE}, pass : {FALSE}, score : {0}]
    BY <1>2, <2>2
  <2>3. CASE r \in [has : {TRUE}, pass : {TRUE}, score : Score]
    BY <2>3
  <2> QED BY <2>1, <2>2, <2>3 DEF Result
<1> QED BY <1>1, <1>2

\* The queue is empty at first, and every node idle.
LEMMA InitIInv == Init => IInv
<1> SUFFICES ASSUME Init PROVE IInv
  OBVIOUS
<1>1. TypeOK
  BY ResultType, TimeAssumption DEF Init, TypeOK, Status, Active, Final
<1>2. HolderInv
  BY DEF Init, HolderInv, Holds
<1> QED BY <1>1, <1>2 DEF IInv

\* Every statement leaves every table and every local in its type.
LEMMA TypeStep == IInv /\ [Next]_vars => TypeOK'
<1> SUFFICES ASSUME IInv, [Next]_vars PROVE TypeOK'
  OBVIOUS
<1> USE TimeAssumption DEF IInv
<1>1. ASSUME NEW r \in Requester, CheckQueued(r) PROVE TypeOK'
  BY <1>1 DEF CheckQueued, TypeOK, queue, nodes, board
<1>2. ASSUME NEW r \in Requester, InsertJob(r) PROVE TypeOK'
  <2>1. last + 1 \in JobId /\ TeamOf[r] \in Team /\ status[last + 1] = "none"
    <3>1. last + 1 \in JobId /\ ~ (last + 1 <= last)
      BY <1>2 DEF InsertJob, TypeOK
    <3>2. TeamOf[r] \in Team
      BY TeamAssumption
    <3> QED BY <3>1, <3>2 DEF TypeOK
  <2>2. last' \in 0 .. MaxJobs /\ status' \in [JobId -> Status \cup {"none"}]
    BY <1>2, <2>1 DEF InsertJob, TypeOK, Status, Active
  <2>3. \A j \in JobId : (status'[j] # "none") <=> (j <= last')
    BY <1>2, <2>1 DEF InsertJob, TypeOK
  <2>4. /\ team' \in [JobId -> Team \cup {NoTeam}]
        /\ \A j \in 1 .. last' : team'[j] \in Team
    BY <1>2, <2>1 DEF InsertJob, TypeOK
  <2>5. \A j \in JobId : status'[j] \in {"running", "done", "aborted"} => benchNode'[j] # {}
    BY <1>2, <2>1 DEF InsertJob, TypeOK
  <2> QED BY <1>2, <2>2, <2>3, <2>4, <2>5 DEF InsertJob, TypeOK, nodes, board
<1>3. ASSUME NEW r \in Requester, SelectCancel(r) PROVE TypeOK'
  <2>1. Least(WaitingOf(TeamOf[r])) \in JobId
    BY <1>3, SelectedJob DEF SelectCancel, WaitingOf
  <2> QED BY <1>3, <2>1 DEF SelectCancel, TypeOK, queue, nodes, board
<1>4. ASSUME NEW r \in Requester, CancelJob(r) PROVE TypeOK'
  <2>1. target[r] \in 1 .. last /\ target[r] \in JobId
    BY <1>4 DEF CancelJob, HolderInv, TypeOK
  <2>2. /\ status' \in [JobId -> Status \cup {"none"}]
        /\ \A j \in JobId : (status'[j] # "none") <=> (j <= last)
        /\ \A j \in JobId : status'[j] \in {"running", "done", "aborted"} => benchNode[j] # {}
    BY <1>4, <2>1 DEF CancelJob, TypeOK, Status, Final
  <2> QED BY <1>4, <2>2 DEF CancelJob, TypeOK, nodes, board
<1>5. ASSUME NEW n \in Node, SelectJob(n) PROVE TypeOK'
  <2>1. Least(WaitingFor(n)) \in JobId
    BY <1>5, SelectedJob DEF SelectJob, WaitingFor
  <2> QED BY <1>5, <2>1 DEF SelectJob, TypeOK, queue, web, board
<1>6. ASSUME NEW n \in Node, ClaimJob(n) PROVE TypeOK'
  <2>1. task[n] \in 1 .. last /\ task[n] \in JobId
    BY <1>6 DEF ClaimJob, HolderInv, TypeOK
  <2>2. /\ status' \in [JobId -> Status \cup {"none"}]
        /\ \A j \in JobId : (status'[j] # "none") <=> (j <= last)
    BY <1>6, <2>1 DEF ClaimJob, TypeOK, Status, Active
  <2>3. /\ benchNode' \in [JobId -> SUBSET Node]
        /\ \A j \in JobId : status'[j] \in {"running", "done", "aborted"} => benchNode'[j] # {}
    BY <1>6, <2>1 DEF ClaimJob, TypeOK
  <2> QED BY <1>6, <2>2, <2>3 DEF ClaimJob, TypeOK, web, board
<1>7. ASSUME NEW n \in Node, ClaimRefused(n) PROVE TypeOK'
  BY <1>7, ResultType DEF ClaimRefused, GoIdle, TypeOK, queue, web, board
<1>8. ASSUME NEW n \in Node, StartBench(n) PROVE TypeOK'
  BY <1>8 DEF StartBench, TypeOK, queue, web, board
<1>9. ASSUME NEW n \in Node, EndBench(n) PROVE TypeOK'
  BY <1>9 DEF EndBench, TypeOK, queue, web, board
<1>10. ASSUME NEW n \in Node, DoneJob(n) PROVE TypeOK'
  <2>1. task[n] \in 1 .. last /\ task[n] \in JobId /\ team[task[n]] \in Team
    BY <1>10 DEF DoneJob, HolderInv, TypeOK
  <2>2. /\ status' \in [JobId -> Status \cup {"none"}]
        /\ \A j \in JobId : (status'[j] # "none") <=> (j <= last)
        /\ \A j \in JobId : status'[j] \in {"running", "done", "aborted"} => benchNode[j] # {}
    BY <1>10, <2>1 DEF DoneJob, Running, TypeOK, Status, Final
  <2>3. /\ scores' \subseteq [job : JobId, team : Team, score : Score]
        /\ best' \in [Team -> Score \cup {NoScore}]
        /\ latest' \in [Team -> Score \cup {NoScore}]
    <3>1. CASE result[n].pass
      <4>1. result[n].score \in Score
        BY <1>10, <3>1, ResultType DEF DoneJob, TypeOK
      <4>2. Greatest(best[team[task[n]]], result[n].score) \in Score \cup {NoScore}
        BY <4>1, <2>1 DEF Greatest, TypeOK
      <4>3. best' \in [Team -> Score \cup {NoScore}]
        BY <1>10, <3>1, <4>2 DEF DoneJob, TypeOK
      <4>4. latest' \in [Team -> Score \cup {NoScore}]
        BY <1>10, <3>1, <4>1 DEF DoneJob, TypeOK
      <4>5. [job |-> task[n], team |-> team[task[n]], score |-> result[n].score]
              \in [job : JobId, team : Team, score : Score]
        BY <2>1, <4>1
      <4> QED BY <1>10, <3>1, <4>3, <4>4, <4>5 DEF DoneJob, TypeOK
    <3>2. CASE ~ result[n].pass
      BY <1>10, <3>2 DEF DoneJob, TypeOK, board
    <3> QED BY <3>1, <3>2
  <2> QED BY <1>10, <2>2, <2>3, ResultType DEF DoneJob, GoIdle, TypeOK, web
<1>11. ASSUME NEW n \in Node, AbortJob(n) PROVE TypeOK'
  <2>1. task[n] \in 1 .. last /\ task[n] \in JobId
    BY <1>11 DEF AbortJob, HolderInv, TypeOK
  <2>2. /\ status' \in [JobId -> Status \cup {"none"}]
        /\ \A j \in JobId : (status'[j] # "none") <=> (j <= last)
        /\ \A j \in JobId : status'[j] \in {"running", "done", "aborted"} => benchNode[j] # {}
    BY <1>11, <2>1 DEF AbortJob, Running, TypeOK, Status, Final
  <2> QED BY <1>11, <2>2, ResultType DEF AbortJob, GoIdle, TypeOK, web, board
<1>12. ASSUME NEW n \in Node, PostRefused(n) \/ PostLost(n) \/ Forget(n) PROVE TypeOK'
  <2>1. GoIdle(n) /\ UNCHANGED <<queue, web, board>>
    BY <1>12 DEF PostRefused, PostLost, Forget
  <2> QED BY <2>1, ResultType DEF GoIdle, TypeOK, queue, web, board
<1>13. CASE CheckTimeout
  <2>1. /\ status' \in [JobId -> Status \cup {"none"}]
        /\ \A j \in JobId : (status'[j] # "none") <=> (j <= last)
        /\ \A j \in JobId : status'[j] \in {"running", "done", "aborted"} => benchNode[j] # {}
    BY <1>13 DEF CheckTimeout, Expired, TypeOK, Status, Final
  <2> QED BY <1>13, <2>1 DEF CheckTimeout, TypeOK, web, nodes, board
<1>14. CASE AgeTick
  <2>1. age' \in [JobId -> Nat]
    BY <1>14 DEF AgeTick, TypeOK
  <2>2. elapsed' \in [Node -> Nat]
    BY <1>14 DEF AgeTick, TypeOK
  <2> QED BY <1>14, <2>1, <2>2 DEF AgeTick, TypeOK, web, board
<1>15. CASE UNCHANGED vars
  BY <1>15 DEF vars, queue, web, nodes, board, TypeOK
<1> QED BY <1>1, <1>2, <1>3, <1>4, <1>5, <1>6, <1>7, <1>8, <1>9, <1>10, <1>11, <1>12,
           <1>13, <1>14, <1>15 DEF Next, Page, Work
-----------------------------------------------------------------------------
(* Who holds a job *)

\* Only a waiting job gets a bench_node, and only from the node that claims it.
LEMMA HolderStep == IInv /\ [Next]_vars => HolderInv'
<1> SUFFICES ASSUME IInv, [Next]_vars PROVE HolderInv'
  OBVIOUS
<1> USE DEF Holds
<1>1. ASSUME NEW r \in Requester, CheckQueued(r) PROVE HolderInv'
  BY <1>1 DEF IInv, TypeOK, CheckQueued, HolderInv, queue, nodes
<1>2. ASSUME NEW r \in Requester, InsertJob(r) PROVE HolderInv'
  <2>1. last \in Nat /\ last + 1 \in JobId /\ benchNode[last + 1] = {} /\ last' = last + 1
    BY <1>2, TimeAssumption DEF IInv, InsertJob, TypeOK, HolderInv
  <2> QED BY <1>2, <2>1 DEF IInv, TypeOK, InsertJob, HolderInv, nodes
<1>3. ASSUME NEW r \in Requester, SelectCancel(r) PROVE HolderInv'
  <2>1. Least(WaitingOf(TeamOf[r])) \in 1 .. last
    BY <1>3, SelectedJob DEF IInv, SelectCancel, WaitingOf
  <2> QED BY <1>3, <2>1 DEF IInv, TypeOK, SelectCancel, HolderInv, queue, nodes
<1>4. ASSUME NEW r \in Requester, CancelJob(r) PROVE HolderInv'
  <2>1. target[r] \in JobId
    BY <1>4, TimeAssumption DEF IInv, TypeOK, CancelJob, HolderInv
  <2>2. \A j \in JobId : status'[j] \in {"none", "waiting", "canceled"} => benchNode[j] = {}
    BY <1>4, <2>1 DEF IInv, TypeOK, CancelJob, Cancelable, HolderInv
  <2> QED BY <1>4, <2>2 DEF IInv, TypeOK, CancelJob, HolderInv, nodes
<1>5. ASSUME NEW n \in Node, SelectJob(n) PROVE HolderInv'
  <2>1. Least(WaitingFor(n)) \in 1 .. last
    BY <1>5, SelectedJob DEF IInv, SelectJob, WaitingFor
  <2> QED BY <1>5, <2>1 DEF IInv, TypeOK, SelectJob, HolderInv, queue, web
<1>6. ASSUME NEW n \in Node, ClaimJob(n) PROVE HolderInv'
  <2>1. task[n] \in JobId /\ benchNode[task[n]] = {}
    BY <1>6, TimeAssumption DEF IInv, TypeOK, ClaimJob, Claimable, HolderInv
  <2>2. \A m \in Node : Holds(m) => task[m] # task[n] /\ m # n
    BY <1>6, <2>1 DEF IInv, TypeOK, ClaimJob, HolderInv
  <2>3. \A m \in Node : Holds(m)' => benchNode'[task'[m]] = {m}
    BY <1>6, <2>1, <2>2, TimeAssumption DEF IInv, TypeOK, ClaimJob, HolderInv
  <2>4. \A j \in JobId : status'[j] \in {"none", "waiting", "canceled"} => benchNode'[j] = {}
    BY <1>6, <2>1 DEF IInv, TypeOK, ClaimJob, HolderInv
  <2> QED BY <1>6, <2>3, <2>4 DEF IInv, TypeOK, ClaimJob, HolderInv, web
<1>7. ASSUME NEW n \in Node, ClaimRefused(n) PROVE HolderInv'
  BY <1>7 DEF IInv, TypeOK, ClaimRefused, GoIdle, HolderInv, queue, web
<1>8. ASSUME NEW n \in Node, StartBench(n) PROVE HolderInv'
  BY <1>8 DEF IInv, TypeOK, StartBench, HolderInv, queue, web
<1>9. ASSUME NEW n \in Node, EndBench(n) PROVE HolderInv'
  BY <1>9 DEF IInv, TypeOK, EndBench, HolderInv, queue, web
<1>10. ASSUME NEW n \in Node, DoneJob(n) PROVE HolderInv'
  BY <1>10 DEF IInv, TypeOK, DoneJob, Running, GoIdle, HolderInv, web
<1>11. ASSUME NEW n \in Node, AbortJob(n) PROVE HolderInv'
  BY <1>11 DEF IInv, TypeOK, AbortJob, Running, GoIdle, HolderInv, web
<1>12. ASSUME NEW n \in Node, PostRefused(n) \/ PostLost(n) \/ Forget(n) PROVE HolderInv'
  <2>1. GoIdle(n) /\ UNCHANGED <<queue, web>>
    BY <1>12 DEF PostRefused, PostLost, Forget
  <2>2. /\ worker' = [worker EXCEPT ![n] = "idle"] /\ task' = [task EXCEPT ![n] = NoJob]
        /\ DOMAIN worker = Node /\ DOMAIN task = Node
    BY <2>1 DEF GoIdle, IInv, TypeOK
  <2>3. \A m \in Node : worker'[m] # "idle" => worker'[m] = worker[m] /\ task'[m] = task[m]
    BY <2>2
  <2>4. \A m \in Node : Holds(m)' => Holds(m) /\ task'[m] = task[m]
    BY <2>3
  <2>5. UNCHANGED <<last, status, benchNode, button, target>>
    BY <2>1 DEF queue, web
  <2> QED BY <2>3, <2>4, <2>5 DEF IInv, HolderInv
<1>13. CASE CheckTimeout
  BY <1>13 DEF IInv, TypeOK, CheckTimeout, Expired, HolderInv, web, nodes
<1>14. CASE AgeTick
  BY <1>14 DEF IInv, TypeOK, AgeTick, HolderInv, web
<1>15. CASE UNCHANGED vars
  <2>1. UNCHANGED <<last, status, benchNode, button, target, worker, task>>
    BY <1>15 DEF vars, queue, web, nodes
  <2> QED BY <2>1 DEF IInv, HolderInv
<1> QED BY <1>1, <1>2, <1>3, <1>4, <1>5, <1>6, <1>7, <1>8, <1>9, <1>10, <1>11, <1>12,
           <1>13, <1>14, <1>15 DEF Next, Page, Work

\* The rows and the nodes agree on who runs what, always.
THEOREM InvariantCorrect == Spec => []IInv
<1>1. IInv /\ [Next]_vars => IInv'
  BY TypeStep, HolderStep DEF IInv
<1> QED BY InitIInv, <1>1, PTL DEF Spec

\* Every variable keeps its type, and every job that has run has a bench_node.
THEOREM QueueTypeCorrect == Spec => []TypeOK
<1>1. IInv => TypeOK
  BY DEF IInv
<1> QED BY InvariantCorrect, <1>1, PTL

\* A job is given to one node only, though every node may select it: the UPDATE
\* looks at the status again (queue.go:55).
THEOREM ClaimedOnceCorrect == Spec => []ClaimedOnce
<1>1. IInv => ClaimedOnce
  <2> SUFFICES ASSUME IInv, NEW m \in Node, NEW n \in Node,
                      Holds(m), Holds(n), task[m] = task[n]
               PROVE  m = n
    BY DEF ClaimedOnce
  <2>1. {m} = {n}
    BY DEF IInv, HolderInv
  <2> QED BY <2>1
<1> QED BY InvariantCorrect, <1>1, PTL

\* A job that was canceled while a node was taking it has never been given to a
\* node (queue.go:100 against queue.go:55).
THEOREM CanceledNeverRunCorrect == Spec => []CanceledNeverRun
<1>1. IInv => CanceledNeverRun
  BY DEF IInv, HolderInv, CanceledNeverRun
<1> QED BY InvariantCorrect, <1>1, PTL

\* A job is run by one node or by none, for any number of nodes and browsers that
\* select it at the same time (queue.go:55, queue.go:100).
THEOREM RunOnceCorrect == Spec => []RunOnce
<1>1. ClaimedOnce /\ CanceledNeverRun => RunOnce
  BY DEF RunOnce
<1> QED BY ClaimedOnceCorrect, CanceledNeverRunCorrect, <1>1, PTL
-----------------------------------------------------------------------------
(* The end of a job *)

\* No statement changes the status of a job that has ended: each looks at it again.
LEMMA FinalStep ==
  ASSUME IInv, [Next]_vars, NEW j \in JobId, status[j] \in Final
  PROVE  status'[j] = status[j]
<1> USE DEF IInv, TypeOK, Final
<1>1. ASSUME NEW r \in Requester, InsertJob(r) PROVE status'[j] = status[j]
  BY <1>1, TimeAssumption DEF InsertJob
<1>2. ASSUME NEW r \in Requester, CancelJob(r) PROVE status'[j] = status[j]
  BY <1>2 DEF CancelJob, Cancelable
<1>3. ASSUME NEW n \in Node, ClaimJob(n) PROVE status'[j] = status[j]
  BY <1>3 DEF ClaimJob, Claimable
<1>4. ASSUME NEW n \in Node, DoneJob(n) \/ AbortJob(n) PROVE status'[j] = status[j]
  BY <1>4 DEF DoneJob, AbortJob, Running
<1>5. CASE CheckTimeout
  BY <1>5 DEF CheckTimeout, Expired
<1>6. ASSUME NEW r \in Requester, CheckQueued(r) \/ SelectCancel(r)
      PROVE  status'[j] = status[j]
  BY <1>6 DEF CheckQueued, SelectCancel, queue
<1>7. ASSUME NEW n \in Node,
             \/ SelectJob(n) \/ ClaimRefused(n) \/ StartBench(n) \/ EndBench(n)
             \/ PostRefused(n) \/ PostLost(n) \/ Forget(n)
      PROVE  status'[j] = status[j]
  BY <1>7 DEF SelectJob, ClaimRefused, StartBench, EndBench, PostRefused, PostLost, Forget, queue
<1>8. CASE AgeTick \/ UNCHANGED vars
  BY <1>8 DEF AgeTick, vars, queue
<1> QED BY <1>1, <1>2, <1>3, <1>4, <1>5, <1>6, <1>7, <1>8 DEF Next, Page, Work

\* A job that has ended stays as it ended: a late result does not revive a job
\* the portal gave up on, nor a timeout spoil one that was done (queue.go:145).
THEOREM FinalStaysCorrect == Spec => FinalStays
<1>1. IInv /\ [Next]_vars
        => [\A j \in JobId : status[j] \in Final => status'[j] = status[j]]_vars
  BY FinalStep
<1> QED BY InvariantCorrect, <1>1, PTL DEF Spec, FinalStays
-----------------------------------------------------------------------------
(* The score board *)

ScoresOf(t) == {s.score : s \in {x \in scores : x.team = t}}

\* What the board shows of one team.
ShownRight(t) ==
    IF ScoresOf(t) = {} THEN best[t] = NoScore /\ latest[t] = NoScore
    ELSE /\ latest[t] \in ScoresOf(t) /\ best[t] \in ScoresOf(t)
         /\ \A x \in ScoresOf(t) : x <= best[t]

\* A statement that leaves scores alone and ends no job twice leaves the board right.
LEMMA BoardUntouched ==
  ASSUME IInv, [Next]_vars, BoardAgrees, UNCHANGED <<team, board>>
  PROVE  BoardAgrees'
<1>1. \A s \in scores : s.job \in JobId /\ status[s.job] = "done" /\ team[s.job] = s.team
  BY DEF IInv, TypeOK, BoardAgrees
<1>2. \A s \in scores : status'[s.job] = "done"
  BY <1>1, FinalStep DEF Final
<1> QED BY <1>1, <1>2 DEF BoardAgrees, board

\* A new score of a team makes the board show it as the latest, and as the best if
\* it is.
LEMMA BoardScored ==
  ASSUME IInv, BoardAgrees, NEW n \in Node, DoneJob(n), result[n].pass
  PROVE  BoardAgrees'
<1> DEFINE j == task[n]
           tm == team[j]
           sc == result[n].score
           new == [job |-> j, team |-> tm, score |-> sc]
<1>1. j \in JobId /\ tm \in Team /\ sc \in Score /\ sc \in Nat /\ status[j] = "running"
  <2>1. j \in 1 .. last /\ j \in JobId
    BY TimeAssumption DEF IInv, TypeOK, HolderInv, DoneJob
  <2>2. tm \in Team /\ status[j] = "running"
    BY <2>1 DEF IInv, TypeOK, DoneJob, Running
  <2>3. result[n] \in Result /\ result[n].has
    BY DEF IInv, TypeOK, DoneJob
  <2>4. sc \in Score
    BY <2>3, ResultType
  <2> QED BY <2>1, <2>2, <2>4, ScoreAssumption
<1>2. /\ scores' = scores \cup {new} /\ team' = team
      /\ status' = [status EXCEPT ![j] = "done"]
      /\ best' = [best EXCEPT ![tm] = Greatest(@, sc)]
      /\ latest' = [latest EXCEPT ![tm] = sc]
  BY DEF DoneJob
<1>3. \A s \in scores : s.job \in JobId /\ s.job # j /\ status'[s.job] = "done"
  BY <1>1, <1>2 DEF IInv, TypeOK, BoardAgrees
<1>4. \A s \in scores' : status'[s.job] = "done" /\ team'[s.job] = s.team
  BY <1>1, <1>2, <1>3 DEF IInv, TypeOK, BoardAgrees
<1>5. \A s1, s2 \in scores' : s1.job = s2.job => s1 = s2
  BY <1>2, <1>3 DEF BoardAgrees
<1>6. ASSUME NEW t \in Team PROVE ShownRight(t)'
  <2>1. ShownRight(t)
    BY DEF BoardAgrees, ShownRight, ScoresOf
  <2>2. CASE t = tm
    <3>1. ScoresOf(t)' = ScoresOf(t) \cup {sc}
      <4>1. ScoresOf(t) = {s.score : s \in {x \in scores : x.team = t}}
        BY DEF ScoresOf
      <4>2. ScoresOf(t)' = {s.score : s \in {x \in scores \cup {new} : x.team = t}}
        BY <1>2 DEF ScoresOf
      <4>3. new.team = t /\ new.score = sc
        BY <2>2
      <4> HIDE DEF new, sc
      <4>4. {x \in scores \cup {new} : x.team = t} = {x \in scores : x.team = t} \cup {new}
        BY <4>3
      <4> QED BY <4>1, <4>2, <4>3, <4>4
    <3>2. latest'[t] = sc /\ best'[t] = Greatest(best[t], sc)
      BY <1>1, <1>2, <2>2 DEF IInv, TypeOK
    <3>3. ScoresOf(t) \subseteq Nat
      <4>1. \A s \in scores : s.score \in Nat
        BY ScoreAssumption DEF IInv, TypeOK
      <4> QED BY <4>1 DEF ScoresOf
    <3>4. CASE ScoresOf(t) = {}
      BY <1>1, <2>1, <3>1, <3>2, <3>4 DEF ShownRight, Greatest, NoScore
    <3>5. CASE ScoresOf(t) # {}
      <4>1. best[t] \in ScoresOf(t) /\ \A x \in ScoresOf(t) : x <= best[t]
        BY <2>1, <3>5 DEF ShownRight
      <4>2. best'[t] \in {best[t], sc} /\ best[t] <= best'[t] /\ sc <= best'[t]
        BY <1>1, <3>2, <3>3, <4>1 DEF Greatest
      <4>3. \A x \in ScoresOf(t)' : x <= best'[t]
        BY <1>1, <3>1, <3>3, <4>1, <4>2
      <4> QED BY <3>1, <3>2, <4>1, <4>2, <4>3 DEF ShownRight
    <3> QED BY <3>4, <3>5
  <2>3. CASE t # tm
    <3>1. ScoresOf(t)' = ScoresOf(t)
      BY <1>2, <2>3 DEF ScoresOf
    <3>2. best'[t] = best[t] /\ latest'[t] = latest[t]
      BY <1>2, <2>3 DEF IInv, TypeOK
    <3> QED BY <2>1, <3>1, <3>2 DEF ShownRight
  <2> QED BY <2>2, <2>3
<1> QED BY <1>4, <1>5, <1>6 DEF BoardAgrees, ShownRight, ScoresOf

\* The scores are those of jobs that are done, one per job, and the score board
\* shows the best of each team and one of them as the latest (queue.go:161-180).
THEOREM BoardAgreesCorrect == Spec => []BoardAgrees
<1>1. Init => BoardAgrees
  BY DEF Init, BoardAgrees
<1>2. IInv /\ BoardAgrees /\ [Next]_vars => BoardAgrees'
  <2> SUFFICES ASSUME IInv, BoardAgrees, [Next]_vars PROVE BoardAgrees'
    OBVIOUS
  <2>1. ASSUME NEW r \in Requester, InsertJob(r) PROVE BoardAgrees'
    <3>1. \A s \in scores : s.job \in JobId /\ status[s.job] = "done" /\ s.job # last + 1
      BY TimeAssumption DEF IInv, TypeOK, BoardAgrees
    <3>2. \A s \in scores : status'[s.job] = "done" /\ team'[s.job] = team[s.job]
      BY <2>1, <3>1 DEF InsertJob, IInv, TypeOK
    <3> QED BY <2>1, <3>2 DEF InsertJob, BoardAgrees, board
  <2>2. ASSUME NEW n \in Node, DoneJob(n) PROVE BoardAgrees'
    <3>1. CASE result[n].pass
      BY <2>2, <3>1, BoardScored
    <3>2. CASE ~ result[n].pass
      BY <2>2, <3>2, BoardUntouched DEF DoneJob
    <3> QED BY <3>1, <3>2
  <2>3. ASSUME NEW r \in Requester, CheckQueued(r) \/ SelectCancel(r) \/ CancelJob(r)
        PROVE  BoardAgrees'
    BY <2>3, BoardUntouched DEF CheckQueued, SelectCancel, CancelJob, queue
  <2>4. ASSUME NEW n \in Node, \/ SelectJob(n) \/ ClaimJob(n) \/ ClaimRefused(n)
                               \/ StartBench(n) \/ EndBench(n) \/ AbortJob(n)
                               \/ PostRefused(n) \/ PostLost(n) \/ Forget(n)
        PROVE  BoardAgrees'
    BY <2>4, BoardUntouched DEF SelectJob, ClaimJob, ClaimRefused, StartBench, EndBench,
       AbortJob, PostRefused, PostLost, Forget, queue
  <2>5. CASE CheckTimeout \/ AgeTick \/ UNCHANGED vars
    BY <2>5, BoardUntouched DEF CheckTimeout, AgeTick, vars, queue
  <2> QED BY <2>1, <2>2, <2>3, <2>4, <2>5 DEF Next, Page, Work
<1> QED BY InvariantCorrect, <1>1, <1>2, PTL DEF Spec
-----------------------------------------------------------------------------
(* The promise *)

\* A score that is in the set and bounds it is what Jobs calls its top.
LEMMA TopIsGreatest ==
  ASSUME NEW S, S \subseteq Nat, NEW b,
         S = {} => b = NoScore,
         S # {} => b \in S /\ \A x \in S : x <= b
  PROVE  Promise!Top(S) = b
<1>1. CASE S = {}
  BY <1>1 DEF Promise!Top
<1>2. CASE S # {}
  <2>1. b \in S /\ \A x \in S : x <= b
    BY <1>2
  <2>2. ASSUME NEW x \in S, \A y \in S : y <= x PROVE x = b
    <3>1. x \in Nat /\ b \in Nat /\ x <= b /\ b <= x
      BY <2>1, <2>2
    <3> QED BY <3>1
  <2>3. Promise!Top(S) = CHOOSE x \in S : \A y \in S : y <= x
    BY <1>2 DEF Promise!Top
  <2> QED BY <2>1, <2>2, <2>3
<1> QED BY <1>1, <1>2

\* A result that is accepted finishes its job, and enters its score if it passed.
LEMMA DoneIsFinish ==
  ASSUME IInv, BoardAgrees, IInv', BoardAgrees', NEW n \in Node, DoneJob(n)
  PROVE  task[n] \in JobId /\ Promise!Finish(task[n])
<1> DEFINE j == task[n]
<1>1. j \in JobId /\ j \in 1 .. last /\ status[j] = "running"
  BY TimeAssumption DEF IInv, TypeOK, HolderInv, DoneJob, Running
<1>2. /\ status' = [status EXCEPT ![j] = "done"]
      /\ UNCHANGED <<last, team, benchNode>>
  BY DEF DoneJob
<1>3. CASE result[n].pass
  <2>1. result[n].score \in Score
    BY <1>3, ResultType DEF IInv, TypeOK, DoneJob
  <2>2. scores' = scores \cup {[job |-> j, team |-> team[j], score |-> result[n].score]}
    BY <1>3 DEF DoneJob
  <2>3. best' = [t \in Team |-> Promise!Top(Promise!Earned(t, scores'))]
    <3>1. ASSUME NEW t \in Team PROVE best'[t] = Promise!Top(Promise!Earned(t, scores'))
      <4> DEFINE S == Promise!Earned(t, scores')
      <4>1. S = ScoresOf(t)'
        BY DEF Promise!Earned, ScoresOf
      <4>2. ShownRight(t)'
        BY DEF BoardAgrees, ShownRight, ScoresOf
      <4>3. S \subseteq Nat
        <5>1. \A s \in scores' : s.score \in Nat
          BY ScoreAssumption DEF IInv, TypeOK
        <5> QED BY <5>1 DEF Promise!Earned
      <4> HIDE DEF S
      <4>4. /\ S = {} => best'[t] = NoScore
            /\ S # {} => best'[t] \in S /\ \A x \in S : x <= best'[t]
        BY <4>1, <4>2 DEF ShownRight
      <4>5. Promise!Top(S) = best'[t]
        BY <4>3, <4>4, TopIsGreatest
      <4> QED BY <4>5 DEF S
    <3>2. best' = [t \in Team |-> best'[t]]
      BY DEF IInv, TypeOK
    <3> QED BY <3>1, <3>2
  <2> QED BY <1>1, <1>2, <2>1, <2>2, <2>3 DEF Promise!Finish
<1>4. CASE ~ result[n].pass
  BY <1>1, <1>2, <1>4 DEF Promise!Finish, DoneJob, board
<1> QED BY <1>1, <1>3, <1>4

\* A step of the queue is a step of Jobs, or leaves what Jobs sees alone.
LEMMA PromiseStep ==
  ASSUME IInv, BoardAgrees, IInv', BoardAgrees', [Next]_vars
  PROVE  [Promise!Next]_(Promise!vars)
<1> DEFINE Step == [Promise!Next]_(Promise!vars)
<1> USE TimeAssumption, TeamAssumption DEF IInv
<1>1. ASSUME NEW r \in Requester, InsertJob(r) PROVE Step
  <2>1. Promise!Enqueue(TeamOf[r])
    BY <1>1 DEF InsertJob, Promise!Enqueue, board
  <2> QED BY <2>1 DEF Promise!Next
<1>2. ASSUME NEW r \in Requester, CancelJob(r) PROVE Step
  <2>1. target[r] \in JobId
    BY <1>2 DEF CancelJob, TypeOK, HolderInv
  <2>2. CASE Cancelable(target[r])
    <3>1. Promise!Cancel(target[r])
      BY <1>2, <2>2 DEF CancelJob, Cancelable, Promise!Cancel, board
    <3> QED BY <2>1, <3>1 DEF Promise!Next, Promise!Job
  <2>3. CASE ~ Cancelable(target[r])
    BY <1>2, <2>3 DEF CancelJob, Promise!vars, board
  <2> QED BY <2>2, <2>3
<1>3. ASSUME NEW r \in Requester, CheckQueued(r) \/ SelectCancel(r) PROVE Step
  BY <1>3 DEF CheckQueued, SelectCancel, Promise!vars, queue, board
<1>4. ASSUME NEW n \in Node, ClaimJob(n) PROVE Step
  <2>1. task[n] \in JobId
    BY <1>4 DEF ClaimJob, TypeOK, HolderInv
  <2>2. Promise!Give(task[n], n)
    BY <1>4 DEF ClaimJob, Claimable, Promise!Give, board
  <2> QED BY <2>1, <2>2 DEF Promise!Next, Promise!Job
<1>5. ASSUME NEW n \in Node, DoneJob(n) PROVE Step
  <2>1. task[n] \in JobId /\ Promise!Finish(task[n])
    BY <1>5, DoneIsFinish
  <2> QED BY <2>1 DEF Promise!Next, Promise!End, Promise!Job
<1>6. ASSUME NEW n \in Node, AbortJob(n) PROVE Step
  <2>1. task[n] \in JobId /\ status[task[n]] = "running"
    BY <1>6 DEF AbortJob, TypeOK, HolderInv, Running
  <2>2. Promise!GiveUp({task[n]})
    <3>1. status' = [j \in JobId |-> IF j \in {task[n]} THEN "aborted" ELSE status[j]]
      BY <1>6, <2>1 DEF AbortJob, TypeOK
    <3> QED BY <1>6, <2>1, <3>1 DEF AbortJob, Promise!GiveUp, Promise!Job, board
  <2> QED BY <2>1, <2>2 DEF Promise!Next, Promise!End, Promise!Job
<1>7. ASSUME NEW n \in Node, \/ SelectJob(n) \/ ClaimRefused(n) \/ StartBench(n)
                             \/ EndBench(n) \/ PostRefused(n) \/ PostLost(n) \/ Forget(n)
      PROVE  Step
  BY <1>7 DEF SelectJob, ClaimRefused, StartBench, EndBench, PostRefused, PostLost,
     Forget, Promise!vars, queue, board
<1>8. CASE CheckTimeout
  <2> DEFINE E == {j \in JobId : Expired(j)}
  <2>1. PICK j \in JobId : Expired(j)
    BY <1>8 DEF CheckTimeout
  <2>2. Promise!GiveUp(E)
    <3>1. \A k \in E : status[k] = "running"
      BY DEF Expired
    <3>2. status' = [k \in JobId |-> IF k \in E THEN "aborted" ELSE status[k]]
      BY <1>8 DEF CheckTimeout
    <3> HIDE DEF E
    <3> QED BY <1>8, <3>1, <3>2 DEF CheckTimeout, Promise!GiveUp, Promise!Job, board
  <2>3. j \in E /\ E \in SUBSET JobId
    BY <2>1
  <2> HIDE DEF E
  <2> QED BY <2>2, <2>3 DEF Promise!Next, Promise!End, Promise!Job
<1>9. CASE AgeTick \/ UNCHANGED vars
  BY <1>9 DEF AgeTick, vars, Promise!vars, queue, board
<1> QED BY <1>1, <1>2, <1>3, <1>4, <1>5, <1>6, <1>7, <1>8, <1>9 DEF Next, Page, Work

\* The queue keeps the promise of Jobs: every UPDATE that takes effect is one of its
\* steps, everything else a stutter (queue.go:15-214).
THEOREM ImplementsJobsCorrect == Spec => ImplementsJobs
<1>1. Init => Promise!Init
  BY DEF Init, Promise!Init, Promise!Job
<1>2. /\ IInv /\ BoardAgrees /\ IInv' /\ BoardAgrees' /\ [Next]_vars
      => [Promise!Next]_(Promise!vars)
  BY PromiseStep
<1> QED BY InvariantCorrect, BoardAgreesCorrect, <1>1, <1>2, PTL
        DEF Spec, ImplementsJobs, Promise!Spec
-----------------------------------------------------------------------------
(* One benchmark per team *)

\* Time passes on both sides: the portal counts from the moment it gave the job out,
\* the node from the moment it started the benchmark.
TimeInv ==
    /\ \A n \in Node : worker[n] \in {"idle", "claim", "reply"} => elapsed[n] = 0
    /\ \A n \in Node : worker[n] = "reply" => /\ status[task[n]] = "running"
                                              /\ age[task[n]] <= ReplyDelay
    /\ \A n \in Node : worker[n] = "bench" => /\ status[task[n]] = "running"
                                              /\ age[task[n]] <= ReplyDelay + elapsed[n]
                                              /\ elapsed[n] <= KillAfter

\* Two nodes that hold a job hold different ones.
LEMMA HeldOnce ==
  ASSUME IInv, NEW m \in Node, NEW n \in Node, m # n, Holds(m), Holds(n)
  PROVE  task[m] # task[n] /\ task[m] \in JobId /\ task[n] \in JobId
<1>1. benchNode[task[m]] = {m} /\ benchNode[task[n]] = {n}
  BY DEF IInv, HolderInv
<1>2. task[m] \in 1 .. last /\ task[n] \in 1 .. last
  BY DEF IInv, HolderInv, Holds
<1>3. 1 .. last \subseteq JobId
  BY TimeAssumption DEF IInv, TypeOK
<1> QED BY <1>1, <1>2, <1>3

\* A node has killed its benchmark before the portal gives up on the job.
LEMMA TimeStep == IInv /\ TimeInv /\ [Next]_vars => TimeInv'
<1> SUFFICES ASSUME IInv, TimeInv, [Next]_vars PROVE TimeInv'
  OBVIOUS
<1>0. TypeOK
  BY DEF IInv
<1>a. 1 .. last \subseteq JobId
  BY TimeAssumption DEF IInv, TypeOK
<1>b. \A n \in Node : worker[n] # "idle" => task[n] \in JobId
  BY <1>a DEF IInv, HolderInv
<1>c. ASSUME UNCHANGED <<worker, task, elapsed>>,
             \A j \in JobId : status[j] = "running" => status'[j] = status[j] /\ age'[j] = age[j]
      PROVE  TimeInv'
  BY <1>b, <1>c DEF TimeInv
<1>1. ASSUME NEW r \in Requester, InsertJob(r) PROVE TimeInv'
  <2>1. last + 1 \in JobId /\ status[last + 1] = "none"
    BY <1>1, <1>0, TimeAssumption DEF InsertJob, TypeOK
  <2>2. \A j \in JobId : status[j] = "running" => status'[j] = status[j] /\ age'[j] = age[j]
    BY <1>1, <1>0, <2>1 DEF InsertJob, TypeOK
  <2> QED BY <1>1, <1>c, <2>2 DEF InsertJob, nodes
<1>2. ASSUME NEW r \in Requester, CancelJob(r) PROVE TimeInv'
  <2>1. \A j \in JobId : status[j] = "running" => status'[j] = status[j] /\ age'[j] = age[j]
    BY <1>2, <1>0 DEF CancelJob, Cancelable, TypeOK
  <2> QED BY <1>2, <1>c, <2>1 DEF CancelJob, nodes
<1>3. ASSUME NEW r \in Requester, CheckQueued(r) \/ SelectCancel(r) PROVE TimeInv'
  BY <1>3, <1>c DEF CheckQueued, SelectCancel, queue, nodes
<1>d. ASSUME NEW n \in Node, UNCHANGED elapsed,
             \A m \in Node \ {n} : worker'[m] = worker[m] /\ task'[m] = task[m],
             \A m \in Node \ {n} : Holds(m) => /\ status'[task[m]] = status[task[m]]
                                               /\ age'[task[m]] = age[task[m]],
             worker'[n] \in {"claim", "post"},
             worker'[n] = "claim" => worker[n] = "idle"
      PROVE  TimeInv'
  BY <1>d DEF TimeInv, Holds
<1>4. ASSUME NEW n \in Node, SelectJob(n) PROVE TimeInv'
  BY <1>4, <1>0, <1>d DEF SelectJob, TypeOK, queue
<1>5. ASSUME NEW n \in Node, EndBench(n) PROVE TimeInv'
  BY <1>5, <1>0, <1>d DEF EndBench, TypeOK, queue
<1>6. ASSUME NEW n \in Node, ClaimJob(n) PROVE TimeInv'
  <2>1. task[n] \in JobId /\ benchNode[task[n]] = {}
    BY <1>6, <1>b DEF IInv, ClaimJob, Claimable, HolderInv
  <2>2. \A m \in Node \ {n} : Holds(m) => /\ task[m] # task[n]
                                          /\ status'[task[m]] = status[task[m]]
                                          /\ age'[task[m]] = age[task[m]]
    <3>1. \A m \in Node : Holds(m) => benchNode[task[m]] = {m} /\ task[m] \in JobId
      BY <1>b DEF IInv, HolderInv, Holds
    <3> QED BY <1>6, <1>0, <2>1, <3>1 DEF ClaimJob, TypeOK
  <2>3. (\A m \in Node \ {n} : worker'[m] = worker[m]) /\ UNCHANGED <<task, elapsed>>
    BY <1>6, <1>0 DEF ClaimJob, TypeOK
  <2>4. worker'[n] = "reply" /\ elapsed'[n] = 0 /\ status'[task[n]] = "running"
        /\ age'[task[n]] = 0
    BY <1>6, <1>0, <2>1 DEF ClaimJob, TypeOK, TimeInv
  <2>5. 0 <= ReplyDelay
    BY TimeAssumption
  <2> QED BY <2>2, <2>3, <2>4, <2>5 DEF TimeInv, Holds
<1>7. ASSUME NEW n \in Node, StartBench(n) PROVE TimeInv'
  <2>1. /\ \A m \in Node \ {n} : worker'[m] = worker[m]
        /\ worker[n] = "reply" /\ worker'[n] = "bench"
        /\ UNCHANGED <<status, age, task, elapsed>>
    BY <1>7, <1>0 DEF StartBench, TypeOK, queue
  <2>2. /\ elapsed[n] = 0 /\ status[task[n]] = "running"
        /\ age[task[n]] <= ReplyDelay + elapsed[n] /\ elapsed[n] <= KillAfter
    BY <2>1, TimeAssumption DEF TimeInv
  <2> QED BY <2>1, <2>2 DEF TimeInv
<1>e. ASSUME NEW n \in Node, GoIdle(n),
             \A m \in Node \ {n} : Holds(m) => /\ status'[task[m]] = status[task[m]]
                                               /\ age'[task[m]] = age[task[m]]
      PROVE  TimeInv'
  <2>1. /\ \A m \in Node \ {n} : /\ worker'[m] = worker[m] /\ task'[m] = task[m]
                                 /\ elapsed'[m] = elapsed[m]
        /\ worker'[n] = "idle" /\ elapsed'[n] = 0
    BY <1>e, <1>0 DEF GoIdle, TypeOK
  <2> QED BY <1>e, <2>1 DEF TimeInv, Holds
<1>8. ASSUME NEW n \in Node, DoneJob(n) \/ AbortJob(n) PROVE TimeInv'
  <2>1. /\ GoIdle(n) /\ Holds(n)
        /\ \A j \in JobId \ {task[n]} : status'[j] = status[j] /\ age'[j] = age[j]
    BY <1>8, <1>0 DEF DoneJob, AbortJob, TypeOK, Holds
  <2>2. \A m \in Node \ {n} : Holds(m) => task[m] \in JobId \ {task[n]}
    BY <2>1, HeldOnce
  <2>3. \A m \in Node \ {n} : Holds(m) => /\ status'[task[m]] = status[task[m]]
                                          /\ age'[task[m]] = age[task[m]]
    BY <2>1, <2>2
  <2>4. GoIdle(n)
    BY <2>1
  <2> QED BY <2>3, <2>4, <1>e
<1>9. ASSUME NEW n \in Node,
             ClaimRefused(n) \/ PostRefused(n) \/ PostLost(n) \/ Forget(n)
      PROVE  TimeInv'
  <2>1. GoIdle(n) /\ UNCHANGED <<status, age>>
    BY <1>9 DEF ClaimRefused, PostRefused, PostLost, Forget, queue
  <2> QED BY <2>1, <1>e
<1>10. CASE CheckTimeout
  <2>1. \A n \in Node : worker[n] \in {"reply", "bench"} => ~ Expired(task[n])
    <3> SUFFICES ASSUME NEW n \in Node, worker[n] \in {"reply", "bench"}
                 PROVE  ~ (age[task[n]] > TimeoutAfter)
      BY DEF Expired
    <3>1. age[task[n]] \in Nat /\ elapsed[n] \in Nat
      BY <1>b, <1>0 DEF TypeOK
    <3>2. age[task[n]] <= ReplyDelay + KillAfter
      BY <3>1, TimeAssumption DEF TimeInv
    <3> QED BY <3>1, <3>2, TimeAssumption
  <2>2. \A n \in Node : worker[n] \in {"reply", "bench"} =>
            status'[task[n]] = status[task[n]] /\ age'[task[n]] = age[task[n]]
    BY <1>10, <1>b, <2>1 DEF CheckTimeout
  <2> QED BY <1>10, <2>2 DEF CheckTimeout, nodes, TimeInv
<1>11. CASE AgeTick
  <2>1. UNCHANGED <<status, worker, task>>
    BY <1>11 DEF AgeTick
  <2>2. ASSUME NEW n \in Node
        PROVE  /\ worker[n] \in {"idle", "claim", "reply"} => elapsed'[n] = elapsed[n]
               /\ worker[n] = "reply" => age'[task[n]] <= ReplyDelay
               /\ worker[n] = "bench" => /\ age'[task[n]] <= ReplyDelay + elapsed'[n]
                                         /\ elapsed'[n] <= KillAfter
    <3>1. elapsed'[n] = IF worker[n] = "bench" THEN elapsed[n] + 1 ELSE elapsed[n]
      BY <1>11 DEF AgeTick
    <3>2. worker[n] # "idle" => /\ age[task[n]] \in Nat
                                /\ age'[task[n]] \in {age[task[n]], age[task[n]] + 1}
      BY <1>11, <1>0, <1>b DEF AgeTick, TypeOK
    <3>3. CASE worker[n] = "bench"
      <4>1. elapsed[n] < KillAfter /\ elapsed[n] \in Nat
        BY <1>11, <1>0, <3>3 DEF AgeTick, TypeOK
      <4>2. age[task[n]] <= ReplyDelay + elapsed[n]
        BY <3>3 DEF TimeInv
      <4> QED BY <3>1, <3>2, <3>3, <4>1, <4>2, TimeAssumption
    <3>4. CASE worker[n] = "reply"
      <4>1. age[task[n]] < ReplyDelay
        BY <1>11, <3>4 DEF AgeTick
      <4> QED BY <3>1, <3>2, <3>4, <4>1, TimeAssumption
    <3> QED BY <3>1, <3>3, <3>4
  <2> QED BY <2>1, <2>2 DEF TimeInv
<1>12. CASE UNCHANGED vars
  BY <1>12, <1>c DEF vars, queue, nodes
<1> QED BY <1>1, <1>2, <1>3, <1>4, <1>5, <1>6, <1>7, <1>8, <1>9, <1>10, <1>11, <1>12
        DEF Next, Page, Work

\* A browser inserts a job only as long as its team has no active one.
QueuedInv ==
    /\ OneActiveJob
    /\ \A r \in Requester : button[r] = "insert" => ActiveOf(TeamOf[r]) = {}

OneBrowserPerTeam == \A r, s \in Requester : TeamOf[r] = TeamOf[s] => r = s

\* No statement but the INSERT makes a job active.
LEMMA NoNewActive ==
  ASSUME IInv, [Next]_vars, \A r \in Requester : ~ InsertJob(r)
  PROVE  /\ last' = last /\ team' = team
         /\ \A j \in JobId : status'[j] \in Active => status[j] \in Active
         /\ \A r \in Requester : button'[r] = "insert" =>
               button[r] = "insert" \/ ActiveOf(TeamOf[r]) = {}
<1>0. TypeOK
  BY DEF IInv
<1> DEFINE SameRows == last' = last /\ team' = team
           StillActive == \A j \in JobId : status'[j] \in Active => status[j] \in Active
           Checked == \A r \in Requester : button'[r] = "insert" =>
                         button[r] = "insert" \/ ActiveOf(TeamOf[r]) = {}
<1>1. ASSUME NEW r \in Requester, CheckQueued(r) \/ SelectCancel(r)
      PROVE  SameRows /\ StillActive /\ Checked
  <2>1. SameRows /\ StillActive
    BY <1>1 DEF CheckQueued, SelectCancel, queue
  <2>2. Checked
    BY <1>1, <1>0 DEF CheckQueued, SelectCancel, TypeOK
  <2> QED BY <2>1, <2>2
<1>2. ASSUME NEW r \in Requester, CancelJob(r) PROVE SameRows /\ StillActive /\ Checked
  <2>1. SameRows /\ StillActive
    BY <1>2, <1>0 DEF CancelJob, TypeOK, Active
  <2>2. Checked
    BY <1>2, <1>0 DEF CancelJob, TypeOK
  <2> QED BY <2>1, <2>2
<1>3. ASSUME NEW n \in Node, ClaimJob(n) PROVE SameRows /\ StillActive /\ Checked
  <2>1. SameRows /\ StillActive
    BY <1>3, <1>0 DEF ClaimJob, Claimable, TypeOK, Active
  <2> QED BY <1>3, <2>1 DEF ClaimJob, web
<1>4. ASSUME NEW n \in Node, DoneJob(n) \/ AbortJob(n)
      PROVE  SameRows /\ StillActive /\ Checked
  <2>1. SameRows /\ StillActive
    BY <1>4, <1>0 DEF DoneJob, AbortJob, TypeOK, Active
  <2> QED BY <1>4, <2>1 DEF DoneJob, AbortJob, web
<1>5. ASSUME NEW n \in Node,
             \/ SelectJob(n) \/ ClaimRefused(n) \/ StartBench(n) \/ EndBench(n)
             \/ PostRefused(n) \/ PostLost(n) \/ Forget(n)
      PROVE  SameRows /\ StillActive /\ Checked
  <2>1. UNCHANGED <<queue, web>>
    BY <1>5 DEF SelectJob, ClaimRefused, StartBench, EndBench, PostRefused, PostLost, Forget
  <2> QED BY <2>1 DEF queue, web
<1>6. CASE CheckTimeout
  <2>1. SameRows /\ StillActive
    BY <1>6 DEF CheckTimeout, Active
  <2> QED BY <1>6, <2>1 DEF CheckTimeout, web
<1>7. CASE AgeTick
  BY <1>7 DEF AgeTick, web
<1>8. CASE UNCHANGED vars
  BY <1>8 DEF vars, queue, web
<1> QED BY <1>1, <1>2, <1>3, <1>4, <1>5, <1>6, <1>7, <1>8 DEF Next, Page, Work

\* With one browser per team nothing comes between the SELECT and the INSERT of a job.
LEMMA QueuedStep ==
  ASSUME OneBrowserPerTeam, IInv, QueuedInv, [Next]_vars
  PROVE  QueuedInv'
<1>0. TypeOK
  BY DEF IInv
<1>a. 1 .. last \subseteq JobId
  BY TimeAssumption DEF IInv, TypeOK
<1>1. ASSUME NEW r \in Requester, InsertJob(r) PROVE QueuedInv'
  <2> DEFINE new == last + 1
  <2>1. /\ last \in Nat /\ new \in JobId /\ last' = new
        /\ status' = [status EXCEPT ![new] = "waiting"]
        /\ team' = [team EXCEPT ![new] = TeamOf[r]]
        /\ button' = [button EXCEPT ![r] = "idle"]
    BY <1>1, <1>0, TimeAssumption DEF InsertJob, TypeOK
  <2>2. \A j \in JobId : status[j] \in Active => j \in 1 .. last /\ j # new
    BY <1>0, <2>1 DEF TypeOK, Active
  <2>3. \A j \in JobId \ {new} : status'[j] = status[j] /\ team'[j] = team[j]
    BY <2>1, <1>0 DEF TypeOK
  <2>4. \A j \in JobId \ {new} : status[j] \in Active => team[j] # TeamOf[r]
    BY <1>1, <2>2 DEF InsertJob, QueuedInv, ActiveOf
  <2>5. team'[new] = TeamOf[r]
    BY <2>1, <1>0 DEF TypeOK
  <2>6. OneActiveJob'
    BY <2>3, <2>4, <2>5 DEF QueuedInv, OneActiveJob
  <2>7. ASSUME NEW s \in Requester, button'[s] = "insert" PROVE ActiveOf(TeamOf[s])' = {}
    <3>1. s # r /\ button[s] = "insert"
      BY <2>1, <2>7, <1>0 DEF TypeOK
    <3>2. TeamOf[s] # TeamOf[r]
      BY <3>1 DEF OneBrowserPerTeam
    <3>3. \A j \in 1 .. last : ~ (team[j] = TeamOf[s] /\ status[j] \in Active)
      BY <3>1 DEF QueuedInv, ActiveOf
    <3>4. \A j \in 1 .. new : j \in 1 .. last \/ j = new
      BY <2>1
    <3>5. \A j \in 1 .. new : ~ (team'[j] = TeamOf[s] /\ status'[j] \in Active)
      <4> TAKE j \in 1 .. new
      <4>1. CASE j = new
        BY <4>1, <2>5, <3>2
      <4>2. CASE j # new
        BY <4>2, <3>4, <3>3, <2>3, <1>a
      <4> QED BY <4>1, <4>2
    <3> QED BY <3>5, <2>1 DEF ActiveOf
  <2> QED BY <2>6, <2>7 DEF QueuedInv
<1>2. CASE \A r \in Requester : ~ InsertJob(r)
  <2>1. OneActiveJob'
    BY <1>2, NoNewActive DEF QueuedInv, OneActiveJob
  <2>2. ASSUME NEW s \in Requester, button'[s] = "insert" PROVE ActiveOf(TeamOf[s])' = {}
    <3>1. ActiveOf(TeamOf[s]) = {}
      BY <1>2, <2>2, NoNewActive DEF QueuedInv
    <3>2. /\ last' = last /\ team' = team
          /\ \A j \in 1 .. last : status'[j] \in Active => status[j] \in Active
      BY <1>2, NoNewActive, <1>a
    <3> QED BY <3>1, <3>2 DEF ActiveOf
  <2> QED BY <2>1, <2>2 DEF QueuedInv
<1> QED BY <1>1, <1>2

\* Where a team presses the buttons in one browser, its servers are never under two
\* benchmarks at a time: it has one active job, one node holds that job, and a
\* benchmark that goes on has an active job (queue.go:20, workermode.go:198, queue.go:203).
THEOREM OneBenchPerTeamCorrect ==
  ASSUME OneBrowserPerTeam
  PROVE  Spec => []OneBenchPerTeam
<1>1. Init => TimeInv /\ QueuedInv
  <2> SUFFICES ASSUME Init PROVE TimeInv /\ QueuedInv
    OBVIOUS
  <2>1. TimeInv
    BY DEF Init, TimeInv
  <2>2. QueuedInv
    BY DEF Init, QueuedInv, OneActiveJob, Active
  <2> QED BY <2>1, <2>2
<1>2. IInv /\ QueuedInv /\ [Next]_vars => QueuedInv'
  BY QueuedStep
<1>3. IInv /\ TimeInv /\ QueuedInv => OneBenchPerTeam
  <2> SUFFICES ASSUME IInv, TimeInv, QueuedInv, NEW m \in Node, NEW n \in Node,
                      worker[m] = "bench", worker[n] = "bench", team[task[m]] = team[task[n]]
               PROVE  m = n
    BY DEF OneBenchPerTeam
  <2>1. task[m] \in JobId /\ task[n] \in JobId
    BY TimeAssumption DEF IInv, TypeOK, HolderInv
  <2>2. task[m] = task[n]
    BY <2>1 DEF TimeInv, QueuedInv, OneActiveJob, Active
  <2> QED BY <2>2, HeldOnce DEF Holds
<1> QED BY InvariantCorrect, TimeStep, <1>1, <1>2, <1>3, PTL DEF Spec

=============================================================================
