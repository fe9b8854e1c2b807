------------------------------ MODULE MCJobQueue ------------------------------
(* The portal's queue on small instances.                                   *)
EXTENDS JobQueue, TLC

CONSTANTS t1, t2, r1, r2, n1, n2, g1, g2

MCTeam == {t1, t2}
MCRequester == {r1, r2}
MCNode == {n1, n2}
MCGroup == {g1, g2}

\* Each team at one browser; or both browsers with the same team.
OneEach == r1 :> t1 @@ r2 :> t2
SameTeam == [r \in MCRequester |-> t1]

\* All in one group; or the second team in a group that has no node.
AllTogether == [t \in MCTeam |-> g1]
SecondApart == [t \in MCTeam |-> IF t = t1 THEN g1 ELSE g2]
NodesTogether == [n \in MCNode |-> g1]

\* The nodes of a group are alike.
MCSymmetry == Permutations(MCNode)
=============================================================================
