------------------------------ MODULE Leaderboard ------------------------------
(***************************************************************************)
(* The portal's index page (portal/web.go): the leaderboard and the score  *)
(* plot are built from several queries, each a transaction of its own,     *)
(* while results are posted and while the staff freezes the ranking by     *)
(* filling the two snapshot tables (portal/README.md:67).  Pages share the *)
(* plot's query: singleflight gives the answer of the first to all that    *)
(* ask while it is under way.  Queries do not fail in this module, and     *)
(* only an error would lead buildScorePlot to its second query: its list   *)
(* has always the team's own line, so an empty snapshot is not noticed.    *)
(***************************************************************************)
EXTENDS Integers, FiniteSets, Functions

CONSTANTS Team,     \* includes Admin
          Admin,    \* team 9999, the only one of category 'official'
          Score, NoScore,
          NoTeam,   \* no page runs the plot's query
          rankingPickLatest,
          MaxResults, MaxPages  \* bounds: scores in all, pages asked for

LeaderboardAssumption == /\ Admin \in Team /\ NoTeam \notin Team
                         /\ Score \subseteq Int /\ NoScore \notin Score
                         /\ rankingPickLatest \in Nat \ {0} /\ MaxResults \in Nat /\ MaxPages \in Nat

VARIABLES latest,       \* team_scores.latest_score, a partial function of the team
          scores,       \* the table scores: [n, team, score]
          latestFixed,  \* team_scores_snapshot
          scoresFixed,  \* scores_snapshot
          flight,       \* plotGroup: [leader, rows]
          page          \* team -> its page as it is being built; one for each team

tables == <<latest, scores, latestFixed, scoresFixed>>
boardVars == <<tables, flight, page>>

Empty == [t \in {} |-> NoScore]

\* The function g with what f says instead where both say something.
Over(f, g) == [x \in DOMAIN f \cup DOMAIN g |-> IF x \in DOMAIN f THEN f[x] ELSE g[x]]
Only(t, s) == [u \in {t} |-> s]

NoFlight == [leader |-> NoTeam, rows |-> {}]

\* since, before: history, what there was when the page was requested.
Blank == [at |-> "none", all |-> Empty, own |-> NoScore, ranking |-> Empty, fixed |-> FALSE,
          rows |-> {}, plot |-> {}, since |-> 0, before |-> FALSE]

\* doneJob: the upsert of team_scores, in one transaction with the INSERT INTO scores.
DoneJob(t, s) ==
    LET n == Cardinality(scores)
    IN  /\ n < MaxResults
        /\ latest' = Over(Only(t, s), latest)
        /\ scores' = scores \cup {[n |-> n + 1, team |-> t, score |-> s]}
        /\ UNCHANGED <<latestFixed, scoresFixed, flight, page>>

\* The staff's two statements, by hand.
FixRanking ==
    /\ latestFixed = Empty /\ latest # Empty
    /\ latestFixed' = latest
    /\ UNCHANGED <<latest, scores, scoresFixed, flight, page>>

FixPlot ==
    /\ scoresFixed = {} /\ scores # {}
    /\ scoresFixed' = scores
    /\ UNCHANGED <<latest, scores, latestFixed, flight, page>>
-----------------------------------------------------------------------------
(* buildLeaderboard *)

Step(t, from, to) == page[t].at = from /\ page' = [page EXCEPT ![t] = Over(to, @)]

\* Teams of category 'official' are left out.
Unofficial(f) == Restrict(f, DOMAIN f \ {Admin})

RequestPage(t) ==
    /\ page[t].at = "none" /\ Cardinality({u \in Team : page[u].at # "none"}) < MaxPages
    /\ page' = [page EXCEPT ![t] = [Blank EXCEPT !.at = "snapshot",
                                                 !.since = Cardinality(scores),
                                                 !.before = latestFixed # Empty]]
    /\ UNCHANGED <<tables, flight>>

\* An empty snapshot: the live table is used.
ReadSnapshot(t) ==
    /\ LET all == Unofficial(latestFixed)
       IN  Step(t, "snapshot", [all |-> all, at |-> IF all = Empty THEN "live" ELSE "own"])
    /\ UNCHANGED <<tables, flight>>

\* Under a snapshot a team's own score is read from the live table: QueryRow fails
\* when it has none, and the live table is used.  The staff has no score to read.
ReadOwn(t) ==
    /\ \/ t = Admin /\ Step(t, "own", [at |-> "rank", fixed |-> TRUE])
       \/ t \in DOMAIN latest \ {Admin} /\ Step(t, "own", [at |-> "rank", fixed |-> TRUE, own |-> latest[t]])
       \/ t \notin DOMAIN latest \cup {Admin} /\ Step(t, "own", [at |-> "live"])
    /\ UNCHANGED <<tables, flight>>

\* The second call of buildLeaderboardFromTable.
ReadLive(t) ==
    /\ LET all == Unofficial(latest)
       IN  Step(t, "live", [at |-> "rank", all |-> all,
                            own |-> IF t \in DOMAIN all THEN all[t] ELSE NoScore])
    /\ UNCHANGED <<tables, flight>>

\* The first of the list; sort.Slice leaves equal scores in any order.
Picks(f) == {S \in SUBSET DOMAIN f :
                /\ Cardinality(S) <= rankingPickLatest
                /\ S = DOMAIN f \/ Cardinality(S) = rankingPickLatest
                /\ \A t \in S, u \in DOMAIN f \ S : f[t] >= f[u]}

\* Bug: own scores are put into the list of all.
OwnForAll(f, S, t, own) == [u \in S |-> IF u \in DOMAIN latest THEN latest[u] ELSE f[u]]

Ranking(f, S, t, own) == Over(IF own = NoScore THEN Empty ELSE Only(t, own), Restrict(f, S \ {t}))
Rank(t) ==
    /\ \E S \in Picks(page[t].all) :
          Step(t, "rank", [at |-> "plot", ranking |-> Ranking(page[t].all, S, t, page[t].own)])
    /\ UNCHANGED <<tables, flight>>
-----------------------------------------------------------------------------
(* buildScorePlot *)

\* plotGroup.Do: the first runs the query, the others wait for its answer.
Fly(t) ==
    /\ flight.leader = NoTeam
    /\ Step(t, "plot", [at |-> "wait"])
    /\ flight' = [leader |-> t, rows |-> {r \in scoresFixed : r.team # Admin}]
    /\ UNCHANGED tables

Join(t) ==
    /\ flight.leader # NoTeam
    /\ Step(t, "plot", [at |-> "wait"])
    /\ UNCHANGED <<tables, flight>>

Served == {t \in Team : page[t].at = "wait"}
Land ==
    /\ flight.leader # NoTeam
    /\ page' = [t \in Team |-> IF t \in Served
                               THEN [page[t] EXCEPT !.rows = flight.rows, !.at = "plot_own"]
                               ELSE page[t]]
    /\ flight' = NoFlight
    /\ UNCHANGED tables

\* A team's own line is read from the live table; the staff's is the snapshot's.
WithOwn(t, rows) == IF t = Admin THEN rows
                    ELSE {r \in rows : r.team # t} \cup {r \in scores : r.team = t}
ReadOwnPlot(t) ==
    /\ Step(t, "plot_own", [at |-> "shown", plot |-> WithOwn(t, page[t].rows), rows |-> {},
                            all |-> Empty, own |-> NoScore])
    /\ UNCHANGED <<tables, flight>>
-----------------------------------------------------------------------------
BoardInit ==
    /\ latest = Empty /\ scores = {} /\ latestFixed = Empty /\ scoresFixed = {}
    /\ flight = NoFlight /\ page = [t \in Team |-> Blank]

ServeIndex(t) == \/ RequestPage(t) \/ ReadSnapshot(t) \/ ReadOwn(t) \/ ReadLive(t) \/ Rank(t)
                 \/ Fly(t) \/ Join(t) \/ ReadOwnPlot(t)

BoardNext == \/ \E t \in Team : ServeIndex(t) \/ \E s \in Score : DoneJob(t, s)
             \/ FixRanking \/ FixPlot \/ Land

BoardSpec == BoardInit /\ [][BoardNext]_boardVars

-----------------------------------------------------------------------------
(* Properties *)

Partial(f) == DOMAIN f \subseteq Team /\ \A t \in DOMAIN f : f[t] \in Score
Results == [n : 1 .. MaxResults, team : Team, score : Score]

\* The tables hold scores of teams, one result each; only a page under way waits
\* for the plot's query, and only while there is one.
BoardTypeOK ==
    /\ Partial(latest) /\ Partial(latestFixed)
    /\ scores \subseteq Results /\ scoresFixed \subseteq scores
    /\ \A r, q \in scores : r.n = q.n => r = q
    /\ \A t \in Team : /\ page[t].at \in {"none", "snapshot", "own", "live", "rank", "plot",
                                          "wait", "plot_own", "shown"}
                       /\ Partial(page[t].ranking) /\ page[t].plot \subseteq scores
                       /\ page[t].at = "wait" => flight.leader # NoTeam

Displayed(t) == page[t].at = "shown"

\* A page that says the ranking is fixed "except for your own team" (index.tmpl:94)
\* tells no score of another team but the snapshot's.
FixedIsFrozen ==
    \A t \in Team : Displayed(t) /\ page[t].fixed =>
        \A u \in DOMAIN page[t].ranking \ {t} : u \in DOMAIN latestFixed /\ page[t].ranking[u] = latestFixed[u]

\* The plot tells nothing of another team that is not in the snapshot, though pages
\* share a query (web.go:314).
PlotFrozen == \A t \in Team : Displayed(t) => {r \in page[t].plot : r.team # t} \subseteq scoresFixed

\* A team's own results are live, freeze or not: what was committed when it asked for
\* the page is in its plot, and its entry of the ranking, which it always has, is of
\* that result or a later one (web.go:395, 313).
OwnIsFresh ==
    \A t \in Team \ {Admin} : Displayed(t) =>
        LET mine == {r \in scores : r.team = t /\ r.n <= page[t].since}
        IN  /\ mine \subseteq page[t].plot
            /\ mine # {} => /\ t \in DOMAIN page[t].ranking
                            /\ \E r \in scores : /\ r.team = t /\ r.score = page[t].ranking[t]
                                                 /\ \A q \in mine : q.n <= r.n

\* A page tells of other teams what the freeze allows and of its own team what is
\* committed, though it is built from several queries and shares one with other pages
\* (web.go:314, 395).
FreezeHolds == BoardTypeOK /\ FixedIsFrozen /\ PlotFrozen /\ OwnIsFresh
=============================================================================
