------------------------------ MODULE CalcOnSale ------------------------------
(***************************************************************************)
(* The validator of the benchmarker (bench/src/bench/gamelog.go) computes  *)
(* when an item goes on sale by a division per entry of the schedule, where*)
(* the server looks at every millisecond: the two must agree, or a correct *)
(* server is failed.                                                       *)
(***************************************************************************)
EXTENDS CalcStatus, Sequences

NotOnSale == -1

\* Bug: the division rounds down.
RoundDown(a, b) == a \div b

\* The milliseconds it takes to make a at b per millisecond, for a, b > 0.
RoundUp(a, b) == (a + b - 1) \div b

\* calcOnSale: ts are the times of the schedule, xs the milli-isu and vs the
\* power from each of them on; pr is the price.  The answer is the first time
\* in the first segment that reaches the price before the next one starts.
CalcOnSale(pr, ts, xs, vs) ==
    LET last == Len(ts)
        Reach(k) == ts[k] + RoundUp(pr - xs[k], vs[k])
        At(k) == IF pr <= xs[k] THEN ts[k]
                 ELSE IF vs[k] > 0 /\ (k < last => Reach(k) < ts[k + 1]) THEN Reach(k)
                 ELSE NotOnSale
    IN  IF pr > xs[last]
        THEN IF vs[last] > 0 /\ Reach(last) <= ts[1] + Horizon THEN Reach(last) ELSE NotOnSale
        ELSE At(CHOOSE k \in 1 .. last : /\ At(k) # NotOnSale
                                         /\ \A j \in 1 .. k - 1 : At(j) = NotOnSale)

\* validateStatusBench: the times of the entries its simulation makes, in their order.
Entries == {roomTime} \cup Updates
Place(t) == Cardinality({u \in Entries : u <= t})
Times == [k \in 1 .. Cardinality(Entries) |-> CHOOSE t \in Entries : Place(t) = k]
-----------------------------------------------------------------------------
(* Property *)

\* The benchmarker's closed form of when an item goes on sale agrees with the server's
\* simulation (gamelog.go:405-450, Game.js:214).
FormsAgree ==
    LET sim == Simulation
        ts == Times
        xs == [k \in DOMAIN ts |-> sim[ts[k]].milli]
        vs == [k \in DOMAIN ts |-> sim[ts[k]].power]
        sale == OnSale(sim)
    IN  \A i \in Item :
           LET pr == Milli * NextPrice(i)
           IN  sim[roomTime].milli < pr =>
                  CalcOnSale(pr, ts, xs, vs) =
                    IF i \in DOMAIN sale THEN sale[i] ELSE NotOnSale
=============================================================================
