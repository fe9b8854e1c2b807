---------------------------------- MODULE Jobs ----------------------------------
(***************************************************************************)
(* What the portal promises of benchmark jobs, without its SELECTs, its    *)
(* nodes' programs or the network: every operation is one step.  A job     *)
(* waits, is given to one node, and ends once; a job that is done may add  *)
(* one score to the ledger, and the board shows each team's greatest.      *)
(* JobQueue implements it.                                                 *)
(***************************************************************************)
EXTENDS Integers

CONSTANTS Team, Node, Score,
          NoTeam, NoScore,
          MaxJobs     \* bound: how many jobs there are

VARIABLES count,      \* jobs enqueued so far
          phase,      \* job -> none, waiting, running, done, aborted, canceled
          owner,      \* job -> its team
          runner,     \* job -> the node it was given to, a set with at most one
          ledger,     \* [job, team, score]
          board       \* team -> its greatest score

vars == <<count, phase, owner, runner, ledger, board>>

Job == 1 .. MaxJobs

Earned(t, scores) == {s.score : s \in {x \in scores : x.team = t}}
Top(S) == IF S = {} THEN NoScore ELSE CHOOSE x \in S : \A y \in S : y <= x

Init == /\ count = 0
        /\ phase = [j \in Job |-> "none"] /\ owner = [j \in Job |-> NoTeam]
        /\ runner = [j \in Job |-> {}]
        /\ ledger = {} /\ board = [t \in Team |-> NoScore]

Enqueue(t) ==
    /\ count < MaxJobs
    /\ count' = count + 1
    /\ phase' = [phase EXCEPT ![count + 1] = "waiting"]
    /\ owner' = [owner EXCEPT ![count + 1] = t]
    /\ UNCHANGED <<runner, ledger, board>>

Cancel(j) ==
    /\ phase[j] = "waiting"
    /\ phase' = [phase EXCEPT ![j] = "canceled"]
    /\ UNCHANGED <<count, owner, runner, ledger, board>>

Give(j, n) ==
    /\ phase[j] = "waiting"
    /\ phase' = [phase EXCEPT ![j] = "running"]
    /\ runner' = [runner EXCEPT ![j] = {n}]
    /\ UNCHANGED <<count, owner, ledger, board>>

Finish(j) ==
    /\ phase[j] = "running"
    /\ phase' = [phase EXCEPT ![j] = "done"]
    /\ \/ UNCHANGED <<ledger, board>>
       \/ \E s \in Score :
             /\ ledger' = ledger \cup {[job |-> j, team |-> owner[j], score |-> s]}
             /\ board' = [t \in Team |-> Top(Earned(t, ledger'))]
    /\ UNCHANGED <<count, owner, runner>>

\* The portal may give up on several jobs at a time.
GiveUp(S) ==
    /\ \A j \in S : phase[j] = "running"
    /\ phase' = [j \in Job |-> IF j \in S THEN "aborted" ELSE phase[j]]
    /\ UNCHANGED <<count, owner, runner, ledger, board>>

End(j) == Finish(j) \/ \E S \in SUBSET Job : j \in S /\ GiveUp(S)

Next == \/ \E t \in Team : Enqueue(t)
        \/ \E j \in Job : Cancel(j) \/ End(j) \/ \E n \in Node : Give(j, n)

Spec == Init /\ [][Next]_vars

\* A job that was given to a node ends.
FairSpec == Spec /\ \A j \in Job : WF_vars(End(j))
=============================================================================
