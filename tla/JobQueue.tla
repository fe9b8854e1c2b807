------------------------------- MODULE JobQueue -------------------------------
(***************************************************************************)
(* The benchmark jobs of the contest portal: table queues with the handlers*)
(* of portal/queue.go that change it, the worker nodes of bench/workermode *)
(* that take the jobs and post their results, and the portal's timeout     *)
(* loop.  Every SELECT and every UPDATE is a step of its own; the network  *)
(* between nodes and portal may lose a message, and a node may die.        *)
(***************************************************************************)
EXTENDS Integers, FiniteSets

CONSTANTS Team,          \* teams
          Requester,     \* browsers that press the buttons of the portal
          TeamOf,        \* requester -> its team
          Node,          \* worker nodes
          Group,         \* groups of nodes and teams
          GroupOfTeam,   \* team -> group
          GroupOfNode,   \* node -> group
          Score,         \* scores a benchmark may reach
          MaxJobs,       \* bound: rows of table queues
          KillAfter,     \* a node has killed its benchmark after that long: 120 s,
                         \* and assumed: the time of the goroutine dump before it
          ReplyDelay,    \* assumed: a job reaches its node within that time
          TimeoutAfter   \* the portal gives up on a running job; 150 s

ASSUME TeamAssumption == TeamOf \in [Requester -> Team]
ASSUME GroupAssumption == GroupOfTeam \in [Team -> Group] /\ GroupOfNode \in [Node -> Group]
ASSUME ScoreAssumption == Score \subseteq Nat
ASSUME TimeAssumption ==
    /\ {MaxJobs, KillAfter, ReplyDelay, TimeoutAfter} \subseteq Nat
    /\ KillAfter + ReplyDelay <= TimeoutAfter

JobId == 1 .. MaxJobs
NoJob == 0
NoTeam == "none"
NoScore == -1
Active == {"waiting", "running"}
Final == {"done", "aborted", "canceled"}

\* What a benchmark leaves: no result file, a failure, or a score.
NoResult == [has |-> FALSE, pass |-> FALSE, score |-> 0]
Result == {NoResult} \cup [has : {TRUE}, pass : {FALSE}, score : {0}]
                     \cup [has : {TRUE}, pass : {TRUE}, score : Score]

VARIABLES last,       \* AUTO_INCREMENT: the id of the last job
          status,     \* job -> status; "none" for an id not given out yet
          team,       \* job -> team_id
          benchNode,  \* job -> bench_node, a set with at most one node
          age,        \* job -> time since updated_at, of a running job
          button,     \* requester -> what its request does next
          target,     \* requester -> the job its cancellation selected
          worker,     \* node -> what it does
          task,       \* node -> its job
          elapsed,    \* node -> how long its benchmark has been running
          result,     \* node -> what its benchmark left
          scores,     \* table scores: [job, team, score]
          best, latest \* table team_scores: team -> best_score, latest_score

queue == <<last, status, team, benchNode, age>>
web == <<button, target>>
nodes == <<worker, task, elapsed, result>>
board == <<scores, best, latest>>
vars == <<queue, web, nodes, board>>

Least(S) == CHOOSE j \in S : \A k \in S : j <= k
-----------------------------------------------------------------------------
(* The portal's pages: ServeQueueJob *)

\* cancelJob: SELECT the first waiting job of the team.
WaitingOf(t) == {j \in 1 .. last : team[j] = t /\ status[j] = "waiting"}
SelectCancel(r) ==
    /\ button[r] = "idle"
    /\ WaitingOf(TeamOf[r]) # {}
    /\ target' = [target EXCEPT ![r] = Least(WaitingOf(TeamOf[r]))]
    /\ button' = [button EXCEPT ![r] = "cancel"]
    /\ UNCHANGED <<queue, nodes, board>>

\* enqueueJob: SELECT; the team has no active job.
ActiveOf(t) == {j \in 1 .. last : team[j] = t /\ status[j] \in Active}
CheckQueued(r) ==
    /\ button[r] = "idle"
    /\ ActiveOf(TeamOf[r]) = {}
    /\ button' = [button EXCEPT ![r] = "insert"]
    /\ UNCHANGED <<queue, target, nodes, board>>

\* enqueueJob: INSERT.
InsertJob(r) ==
    /\ button[r] = "insert"
    /\ last < MaxJobs
    /\ last' = last + 1
    /\ status' = [status EXCEPT ![last + 1] = "waiting"]
    /\ team' = [team EXCEPT ![last + 1] = TeamOf[r]]
    /\ button' = [button EXCEPT ![r] = "idle"]
    /\ UNCHANGED <<benchNode, age, target, nodes, board>>

\* Bug: the UPDATE does not look at the status again.
AnyStatus(j) == TRUE

\* cancelJob: UPDATE ... WHERE id = ? AND status = 'waiting'.
Cancelable(j) == status[j] = "waiting"
CancelJob(r) ==
    /\ button[r] = "cancel"
    /\ status' = IF Cancelable(target[r])
                 THEN [status EXCEPT ![target[r]] = "canceled"] ELSE status
    /\ button' = [button EXCEPT ![r] = "idle"]
    /\ target' = [target EXCEPT ![r] = NoJob]
    /\ UNCHANGED <<last, team, benchNode, age, nodes, board>>
-----------------------------------------------------------------------------
(* Worker nodes: getJob, cmd, postResult; dequeueJob, doneJob, abortJob *)

GoIdle(n) == /\ worker' = [worker EXCEPT ![n] = "idle"]
             /\ task' = [task EXCEPT ![n] = NoJob]
             /\ elapsed' = [elapsed EXCEPT ![n] = 0]
             /\ result' = [result EXCEPT ![n] = NoResult]

\* Bug: the first waiting job is selected before the group is compared.
HeadOfLine(n) == {j \in 1 .. last : /\ status[j] = "waiting"
                                    /\ \A k \in 1 .. (j - 1) : status[k] # "waiting"
                                    /\ GroupOfTeam[team[j]] = GroupOfNode[n]}

\* dequeueJob: SELECT the first waiting job of the node's group.
WaitingFor(n) == {j \in 1 .. last : /\ status[j] = "waiting"
                                    /\ GroupOfTeam[team[j]] = GroupOfNode[n]}
SelectJob(n) ==
    /\ worker[n] = "idle"
    /\ WaitingFor(n) # {}
    /\ task' = [task EXCEPT ![n] = Least(WaitingFor(n))]
    /\ worker' = [worker EXCEPT ![n] = "claim"]
    /\ UNCHANGED <<queue, web, elapsed, result, board>>

\* dequeueJob: UPDATE ... WHERE id = ? AND status = 'waiting'.
Claimable(j) == status[j] = "waiting"
ClaimJob(n) ==
    /\ worker[n] = "claim"
    /\ Claimable(task[n])
    /\ status' = [status EXCEPT ![task[n]] = "running"]
    /\ benchNode' = [benchNode EXCEPT ![task[n]] = {n}]
    /\ age' = [age EXCEPT ![task[n]] = 0]
    /\ worker' = [worker EXCEPT ![n] = "reply"]
    /\ UNCHANGED <<last, team, web, task, elapsed, result, board>>

\* No row was affected: another node took the job, or it was canceled.
ClaimRefused(n) ==
    /\ worker[n] = "claim"
    /\ ~ Claimable(task[n])
    /\ GoIdle(n)
    /\ UNCHANGED <<queue, web, board>>

\* The job arrives at the node, which starts the benchmark.
StartBench(n) ==
    /\ worker[n] = "reply"
    /\ worker' = [worker EXCEPT ![n] = "bench"]
    /\ UNCHANGED <<queue, web, task, elapsed, result, board>>

\* The benchmark ends, or is killed after KillAfter and leaves no result.
EndBench(n) ==
    /\ worker[n] = "bench"
    /\ \E r \in Result : result' = [result EXCEPT ![n] = r]
    /\ worker' = [worker EXCEPT ![n] = "post"]
    /\ UNCHANGED <<queue, web, task, elapsed, board>>

\* Bug: the latest score replaces the best one.
LatestWins(a, b) == b

\* doneJob, with a result: UPDATE ... WHERE id = ? AND status = 'running'; if it
\* was, and the benchmark passed, the score is entered in the same transaction.
Running(j) == status[j] = "running"
Greatest(a, b) == IF a >= b THEN a ELSE b
DoneJob(n) ==
    /\ worker[n] = "post" /\ result[n].has
    /\ Running(task[n])
    /\ status' = [status EXCEPT ![task[n]] = "done"]
    /\ IF result[n].pass
       THEN LET t == team[task[n]]
                s == result[n].score
            IN  /\ scores' = scores \cup {[job |-> task[n], team |-> t, score |-> s]}
                /\ best' = [best EXCEPT ![t] = Greatest(@, s)]
                /\ latest' = [latest EXCEPT ![t] = s]
       ELSE UNCHANGED board
    /\ age' = [age EXCEPT ![task[n]] = 0]
    /\ GoIdle(n)
    /\ UNCHANGED <<last, team, benchNode, web>>

\* abortJob, without one.
AbortJob(n) ==
    /\ worker[n] = "post" /\ ~ result[n].has
    /\ Running(task[n])
    /\ status' = [status EXCEPT ![task[n]] = "aborted"]
    /\ age' = [age EXCEPT ![task[n]] = 0]
    /\ GoIdle(n)
    /\ UNCHANGED <<last, team, benchNode, web, board>>

\* The portal refuses the result, the job is no longer running; or the request
\* is lost, and the node does not repeat it.
PostRefused(n) ==
    /\ worker[n] = "post"
    /\ ~ Running(task[n])
    /\ GoIdle(n)
    /\ UNCHANGED <<queue, web, board>>
PostLost(n) ==
    /\ worker[n] = "post"
    /\ GoIdle(n)
    /\ UNCHANGED <<queue, web, board>>

\* The reply to job/new is lost, the benchmark cannot be started, or the node
\* dies (and comes back): the job stays running.
Forget(n) ==
    /\ worker[n] \in {"reply", "bench"}
    /\ GoIdle(n)
    /\ UNCHANGED <<queue, web, board>>
-----------------------------------------------------------------------------
(* Time *)

\* Bugs: the portal gives up before the node does; it gives up on waiting jobs only.
ExpiredEarly(j) == status[j] = "running" /\ age[j] >= TimeoutAfter
ExpiredWaiting(j) == status[j] = "waiting" /\ age[j] > TimeoutAfter

\* checkTimeoutJob: one UPDATE over all running jobs.
Expired(j) == status[j] = "running" /\ age[j] > TimeoutAfter
CheckTimeout ==
    /\ \E j \in JobId : Expired(j)
    /\ status' = [j \in JobId |-> IF Expired(j) THEN "aborted" ELSE status[j]]
    /\ age' = [j \in JobId |-> IF Expired(j) THEN 0 ELSE age[j]]
    /\ UNCHANGED <<last, team, benchNode, web, nodes, board>>

\* Time passes: not beyond the moment a node must have killed its benchmark, nor
\* beyond the delay within which a reply arrives.
AgeTick ==
    /\ \A n \in Node : worker[n] = "bench" => elapsed[n] < KillAfter
    /\ \A n \in Node : worker[n] = "reply" => age[task[n]] < ReplyDelay
    /\ age' = [j \in JobId |-> IF status[j] = "running" /\ age[j] <= TimeoutAfter
                               THEN age[j] + 1 ELSE age[j]]
    /\ elapsed' = [n \in Node |-> IF worker[n] = "bench" THEN elapsed[n] + 1
                                  ELSE elapsed[n]]
    /\ UNCHANGED <<last, status, team, benchNode, web, worker, task, result, board>>
-----------------------------------------------------------------------------
Init == /\ last = 0
        /\ status = [j \in JobId |-> "none"]
        /\ team = [j \in JobId |-> NoTeam]
        /\ benchNode = [j \in JobId |-> {}]
        /\ age = [j \in JobId |-> 0]
        /\ button = [r \in Requester |-> "idle"]
        /\ target = [r \in Requester |-> NoJob]
        /\ worker = [n \in Node |-> "idle"]
        /\ task = [n \in Node |-> NoJob]
        /\ elapsed = [n \in Node |-> 0]
        /\ result = [n \in Node |-> NoResult]
        /\ scores = {}
        /\ best = [t \in Team |-> NoScore]
        /\ latest = [t \in Team |-> NoScore]

Page(r) == CheckQueued(r) \/ InsertJob(r) \/ SelectCancel(r) \/ CancelJob(r)
Work(n) == \/ SelectJob(n) \/ ClaimJob(n) \/ ClaimRefused(n) \/ StartBench(n)
           \/ EndBench(n) \/ DoneJob(n) \/ AbortJob(n) \/ PostRefused(n)

Next == \/ \E r \in Requester : Page(r)
        \/ \E n \in Node : Work(n) \/ PostLost(n) \/ Forget(n)
        \/ CheckTimeout
        \/ AgeTick

Spec == Init /\ [][Next]_vars

\* The nodes' loop and the portal's timeout loop run on, and time passes.
FairSpec == /\ Spec
            /\ \A n \in Node : WF_vars(Work(n))
            /\ WF_vars(CheckTimeout) /\ WF_vars(AgeTick)
-----------------------------------------------------------------------------
(* Properties *)

Status == Active \cup Final
TypeOK ==
    /\ last \in 0 .. MaxJobs
    /\ status \in [JobId -> Status \cup {"none"}]
    /\ \A j \in JobId : (status[j] # "none") <=> (j <= last)
    /\ team \in [JobId -> Team \cup {NoTeam}]
    /\ \A j \in 1 .. last : team[j] \in Team
    /\ benchNode \in [JobId -> SUBSET Node]
    /\ \A j \in JobId : status[j] \in {"running", "done", "aborted"} => benchNode[j] # {}
    /\ age \in [JobId -> Nat]
    /\ button \in [Requester -> {"idle", "insert", "cancel"}]
    /\ target \in [Requester -> JobId \cup {NoJob}]
    /\ worker \in [Node -> {"idle", "claim", "reply", "bench", "post"}]
    /\ task \in [Node -> JobId \cup {NoJob}]
    /\ elapsed \in [Node -> Nat]
    /\ result \in [Node -> Result]
    /\ scores \subseteq [job : JobId, team : Team, score : Score]
    /\ best \in [Team -> Score \cup {NoScore}]
    /\ latest \in [Team -> Score \cup {NoScore}]

\* A job is given to one node only, though every node may select it: the UPDATE
\* looks at the status again (queue.go:55).
Holds(n) == worker[n] \in {"reply", "bench", "post"}
ClaimedOnce ==
    \A m, n \in Node : Holds(m) /\ Holds(n) /\ task[m] = task[n] => m = n

\* A job that was canceled while a node was taking it has never been given to a
\* node (queue.go:100 against queue.go:55).
CanceledNeverRun == \A j \in JobId : status[j] = "canceled" => benchNode[j] = {}

\* A job is run by one node or by none: claims and cancellations may select it at the
\* same time, and one UPDATE takes effect.
RunOnce == ClaimedOnce /\ CanceledNeverRun

\* A job that has ended stays as it ended: a late result does not revive a job
\* the portal gave up on, nor a timeout spoil one that was done (queue.go:145).
FinalStays ==
    [][\A j \in JobId : status[j] \in Final => status'[j] = status[j]]_vars

\* A team has at most one active job (queue.go:20-29).
OneActiveJob ==
    \A i, j \in JobId :
        team[i] = team[j] /\ status[i] \in Active /\ status[j] \in Active => i = j

\* The servers of a team are never under two benchmarks at a time: a node has
\* killed its benchmark before the portal gives up on the job and lets the team
\* enqueue the next one (120 s in workermode.go:198 against 150 s in queue.go:203).
OneBenchPerTeam ==
    \A m, n \in Node :
        worker[m] = "bench" /\ worker[n] = "bench" /\ team[task[m]] = team[task[n]] =>
            m = n

\* The scores are those of jobs that are done, one per job, and the score board
\* shows the best of each team and one of them as the latest (queue.go:161-180).
BoardAgrees ==
    /\ \A s \in scores : status[s.job] = "done" /\ team[s.job] = s.team
    /\ \A s1, s2 \in scores : s1.job = s2.job => s1 = s2
    /\ \A t \in Team :
          LET S == {s.score : s \in {x \in scores : x.team = t}}
          IN  IF S = {} THEN best[t] = NoScore /\ latest[t] = NoScore
              ELSE /\ latest[t] \in S /\ best[t] \in S
                   /\ \A x \in S : x <= best[t]

\* A waiting job of a group that has nodes is taken or canceled.
WaitingServed ==
    \A j \in JobId :
        status[j] = "waiting" /\ (\E n \in Node : GroupOfNode[n] = GroupOfTeam[team[j]])
            ~> status[j] # "waiting"

\* The queue keeps the promise of Jobs: every UPDATE that takes effect is one of its
\* steps, and everything else, the SELECTs, the nodes' programs, what is lost, is a
\* stutter.
Promise == INSTANCE Jobs WITH count <- last, phase <- status, owner <- team,
                              runner <- benchNode, ledger <- scores, board <- best
ImplementsJobs == Promise!Spec

\* It keeps the promise that a job that was given out ends as well, whatever happens to
\* its node and its messages: it never keeps its team from enqueueing for ever
\* (queue.go:31, queue.go:199).
ImplementsFairJobs == Promise!FairSpec

=============================================================================
