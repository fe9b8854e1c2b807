--------------------------------- MODULE Arrays ---------------------------------
(***************************************************************************)
(* The loops that phina.js adds to Array.prototype, most of which change   *)
(* the array they run over: one call, step by step.  Indices are those of  *)
(* the code, from 0; what is read behind the end is undefined.             *)
(***************************************************************************)
EXTENDS Integers, Sequences, FiniteSets, SequencesExt, FiniteSetsExt

CONSTANTS Values, Undefined,
          Fns,     \* functions given to the erasing calls, by the values they hold for
          MaxLen,  \* bound: elements
          MaxInt   \* bound: arguments of range

Erasing == {"eraseAll", "eraseIf", "eraseIfAll"}
Infinity == MaxInt + 1000  \* beyond every value

ArraysAssumption ==
    /\ Values \subseteq Int /\ Undefined \notin Values /\ MaxLen \in Nat /\ MaxInt \in Nat
    /\ \A v \in Values : -Infinity < v /\ v < Infinity
    /\ \A f \in Fns : f \subseteq Values \cup {Undefined}

VARIABLES op, before,   \* the call, and the array before it
          fn,           \* of the erasing calls
          start, end, step,
          arr, i, len,
          max, min,     \* of most
          running

call == <<op, before, fn, start, end, step>>
vars == <<call, arr, i, len, max, min, running>>

At(a, n) == IF n < Len(a) THEN a[n + 1] ELSE Undefined
Runs(o) == op = o /\ running
Ends == running' = FALSE /\ UNCHANGED <<arr, i, len, max, min>>
-----------------------------------------------------------------------------
(* erase, eraseAll, eraseIf, eraseIfAll *)

\* Bug: the element that moves up is passed over.
PassOver(n) == n + 1

Again(n) == n

\* splice(n, 1); behind the end there is nothing to remove.
Splice(a, n) == IF n < Len(a) THEN RemoveAt(a, n + 1) ELSE a

\* The arguments are compared with ==, so that undefined stands for null, too.
Erase ==
    /\ op \in Erasing /\ running
    /\ IF i >= len THEN Ends
       ELSE IF At(arr, i) \in fn
       THEN /\ arr' = Splice(arr, i)
            /\ len' = IF op = "eraseIfAll" THEN len - 1 ELSE len
            /\ running' = (op # "eraseIf") /\ i' = Again(i)
            /\ UNCHANGED <<max, min>>
       ELSE i' = i + 1 /\ UNCHANGED <<arr, len, max, min, running>>
    /\ UNCHANGED call
-----------------------------------------------------------------------------
(* shuffle, uniq, fill, range, most *)

Swap(a, m, n) == [a EXCEPT ![m + 1] = a[n + 1], ![n + 1] = a[m + 1]]

Shuffle ==
    /\ Runs("shuffle")
    /\ IF i >= len THEN Ends
       ELSE /\ \E j \in 0 .. len - 1 : arr' = Swap(arr, i, j)
            /\ i' = i + 1 /\ UNCHANGED <<len, max, min, running>>
    /\ UNCHANGED call

FirstOf(a, n) == \A k \in 1 .. n - 1 : a[k] # a[n]

\* filter keeps an element when indexOf finds it first at its own index.
Uniq ==
    /\ Runs("uniq")
    /\ IF i >= len THEN Ends
       ELSE /\ arr' = IF FirstOf(before, i + 1) THEN Append(arr, before[i + 1]) ELSE arr
            /\ i' = i + 1 /\ UNCHANGED <<len, max, min, running>>
    /\ UNCHANGED call

\* An end that is 0 or not given is the length.
FillEnd(e, l) == IF e = 0 THEN l ELSE e

Filling == 9
Fill ==
    /\ Runs("fill")
    /\ IF i >= FillEnd(end, len) THEN Ends
       ELSE /\ arr' = [arr EXCEPT ![i + 1] = Filling]
            /\ i' = i + 1 /\ UNCHANGED <<len, max, min, running>>
    /\ UNCHANGED call

BeforeEnd(n, s) == IF s > 0 THEN n < end ELSE n > end

\* step, or 1 or -1; a step in the wrong direction gives nothing.
Step == IF step # 0 THEN step ELSE IF start < end THEN 1 ELSE -1

\* len is the next number here.
RangeStep ==
    /\ Runs("range")
    /\ IF (start < end) = (Step > 0) /\ BeforeEnd(len, Step)
       THEN /\ arr' = Append(arr, len) /\ len' = len + Step
            /\ UNCHANGED <<i, max, min, running>>
       ELSE Ends
    /\ UNCHANGED call

Less(m, v) == IF v < m THEN v ELSE m

Most ==
    /\ Runs("most")
    /\ IF i >= len THEN Ends
       ELSE /\ max' = IF max < arr[i + 1] THEN arr[i + 1] ELSE max
            /\ min' = Less(min, arr[i + 1])
            /\ i' = i + 1 /\ UNCHANGED <<arr, len, running>>
    /\ UNCHANGED call
-----------------------------------------------------------------------------
Arrays == UNION {[1 .. n -> Values] : n \in 0 .. MaxLen}
WithHoles == UNION {[1 .. n -> Values \cup {Undefined}] : n \in 0 .. MaxLen}

NoArguments == fn = {} /\ start = 0 /\ end = 0 /\ step = 0

Calls ==
    \/ op \in Erasing /\ before \in WithHoles /\ fn \in Fns /\ start = 0 /\ end = 0 /\ step = 0
    \/ op \in {"shuffle", "uniq", "most"} /\ before \in Arrays /\ NoArguments
    \/ /\ op = "fill" /\ before \in Arrays /\ fn = {} /\ step = 0
       /\ start \in 0 .. Len(before) /\ end \in 0 .. Len(before)
    \/ /\ op = "range" /\ before = <<>> /\ fn = {}
       /\ start \in -MaxInt .. MaxInt /\ end \in -MaxInt .. MaxInt /\ step \in -3 .. 3

Init ==
    /\ Calls
    /\ arr = IF op = "uniq" THEN <<>> ELSE before
    /\ i = IF op = "fill" THEN start ELSE 0
    /\ len = IF op = "range" THEN start ELSE Len(before)
    /\ max = -Infinity /\ min = Infinity /\ running = TRUE

Next == Erase \/ Shuffle \/ Uniq \/ Fill \/ RangeStep \/ Most

Spec == Init /\ [][Next]_vars

-----------------------------------------------------------------------------
(* Properties *)

Done(ops) == ~ running /\ op \in ops

\* All elements a function holds for are erased, or the first, and nothing else, though
\* the loop runs over the array it shortens (phina.js:1095): what is kept is where as many
\* are kept up to it.
KeptTo(n) == {m \in 1 .. n : before[m] \notin fn}
ErasesThose ==
    /\ Done({"eraseAll", "eraseIfAll"}) =>
           /\ Len(arr) = Cardinality(KeptTo(Len(before)))
           /\ \A n \in KeptTo(Len(before)) : arr[Cardinality(KeptTo(n))] = before[n]
    /\ Done({"eraseIf"}) =>
           \/ arr = before /\ ToSet(before) \cap fn = {}
           \/ \E n \in DOMAIN before : /\ before[n] \in fn /\ arr = RemoveAt(before, n)
                                       /\ \A k \in 1 .. n - 1 : before[k] \notin fn

\* A shuffle in place loses and doubles nothing (phina.js:1373).
ShufflePermutes ==
    op = "shuffle" => \A v \in Values :
        Cardinality({n \in DOMAIN arr : arr[n] = v}) = Cardinality({n \in DOMAIN before : before[n] = v})

\* Of equal elements the first is kept, in its place (phina.js:1210).
UniqKeepsFirsts ==
    Done({"uniq"}) => /\ IsInjective(arr) /\ ToSet(arr) = ToSet(before)
                      /\ LET place(v) == Min({n \in DOMAIN before : before[n] = v})
                         IN  \A m, n \in DOMAIN arr : m < n => place(arr[m]) < place(arr[n])

\* The numbers start + n * step before the end, in that order, and none if the step leads
\* away from the end (phina.js:1344).
RangeIsThose ==
    Done({"range"}) =>
        /\ \A n \in DOMAIN arr : arr[n] = start + (n - 1) * Step
        /\ LET between(v) == (start <= v /\ v < end) \/ (end < v /\ v <= start)
               width == IF Step > 0 THEN Step ELSE -Step
           IN  ToSet(arr) = {v \in -MaxInt .. MaxInt :
                                between(v) /\ (start < end) = (Step > 0) /\ (v - start) % width = 0}

\* The elements from start to end are filled, if the end is not 0 (phina.js:1309).
FillsThose ==
    Done({"fill"}) /\ end # 0 =>
        arr = [n \in DOMAIN before |-> IF start < n /\ n <= end THEN Filling ELSE before[n]]

\* The greatest and the least element (phina.js:1575).
MostIsExtreme ==
    Done({"most"}) /\ before # <<>> => max = Max(ToSet(before)) /\ min = Min(ToSet(before))

=============================================================================
