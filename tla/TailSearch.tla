---------------------------- MODULE TailSearch ----------------------------
(***************************************************************************)
(* chooseKeptTail: which newest messages stay live after a pour-off.       *)
(*                                                                         *)
(* One search is a conversation with the price handle: the whole list is   *)
(* weighed first, when the host names the window, to find the cap; then    *)
(* longestTailWithin halves the eligible starts with one question each;    *)
(* then the answer itself is weighed.  The handle may fall silent at any   *)
(* question, and then nothing is chosen (NoWeightFromTheHandle).           *)
(*                                                                         *)
(* A query is what the caller brings: the ascending candidate starts, the  *)
(* number of messages, the weight of the tail from each position, the      *)
(* window, whether a handle and a model are there, and K, X and the floor. *)
(***************************************************************************)
EXTENDS TailByWeight, FiniteSets

CONSTANT Queries

Phases == {"all", "search", "done", "failed"}

IsQuery(q) ==
    /\ q.total \in Nat
    /\ q.starts \in Seq(0 .. q.total)
    \* the whole list is always a candidate
    /\ q.starts # <<>> /\ q.starts[1] = 0
    /\ \A i, j \in 1 .. Len(q.starts) : i < j => q.starts[i] < q.starts[j]
    /\ q.weight \in [0 .. q.total -> Nat]
    \* a longer tail weighs no less
    /\ \A s, t \in 0 .. q.total : s <= t => q.weight[t] <= q.weight[s]
    /\ q.window \in Nat \cup {NoWindow}
    /\ q.priced \in BOOLEAN
    /\ q.floor \in Nat
    /\ q.keepTokens \in Nat
    /\ q.pourAt \in Nat

ASSUME QueriesAreQueries == \A q \in Queries : IsQuery(q)

VARIABLES
    query,     \* what the caller asks
    phase,
    cap,       \* the weight the tail may not exceed
    count,     \* how many of the starts are eligible: the first `count`
    lo, hi,    \* the starts the answer lies between
    weighed,   \* the starts the handle has given a weight for
    chosen     \* the start of the kept tail

vars == <<query, phase, cap, count, lo, hi, weighed, chosen>>

Eligible(i) == IsEligible(query.starts[i], query.total, query.floor)

\* The eligible starts, as the filter leaves them: ascending starts, so a prefix.
IsEligibleCount(n) ==
    /\ n \in 0 .. Len(query.starts)
    /\ \A i \in 1 .. n : Eligible(i)
    /\ n < Len(query.starts) => ~Eligible(n + 1)

Tails == {query.starts[i] : i \in 1 .. count}

\* The host names the window and there is something to weigh.
WeighsAll == query.priced /\ query.window # NoWindow /\ query.total > 0

Init ==
    /\ query \in Queries
    /\ phase = "all"
    /\ cap = query.keepTokens
    /\ \E n \in 0 .. Len(query.starts) : IsEligibleCount(n) /\ count = n
    /\ lo = 1
    /\ hi = count
    /\ weighed = {}
    /\ chosen = NoTail

---------------------------------------------------------------------------

\* Where the tail is chosen once the cap is known: nothing eligible, the floor
\* alone without a price, or the search.
Begin ==
    \/ /\ count = 0
       /\ phase' = "done"
       /\ chosen' = NoTail
    \/ /\ count > 0
       /\ ~query.priced
       /\ phase' = "done"
       /\ chosen' = query.starts[count]
    \/ /\ count > 0
       /\ query.priced
       /\ phase' = "search"
       /\ UNCHANGED chosen

\* Mutant: a rest above X leaves a negative cap.
WeighAllCapBelowZero ==
    /\ phase = "all"
    /\ WeighsAll
    /\ weighed' = {0}
    /\ cap' = AtMost(query.keepTokens, query.pourAt - RestOf(query.window, query.weight[0]))
    /\ Begin
    /\ UNCHANGED <<query, count, lo, hi>>

\* Mutant: the rest of the window is not counted under X.
WeighAllWithoutRest ==
    /\ phase = "all"
    /\ WeighsAll
    /\ weighed' = {0}
    /\ cap' = CapOf(query.keepTokens, query.pourAt, 0)
    /\ Begin
    /\ UNCHANGED <<query, count, lo, hi>>

WeighAll ==
    /\ phase = "all"
    /\ WeighsAll
    /\ weighed' = {0}
    /\ cap' = CapOf(query.keepTokens, query.pourAt, RestOf(query.window, query.weight[0]))
    /\ Begin
    /\ UNCHANGED <<query, count, lo, hi>>

NoCapToFind ==
    /\ phase = "all"
    /\ ~WeighsAll
    /\ Begin
    /\ UNCHANGED <<query, cap, count, lo, hi, weighed>>

Middle == (lo + hi) \div 2

Fits(s) == query.weight[s] <= cap

\* Mutant: the middle that fits is left out of what is searched on.
ProbeSkipsTheMiddle ==
    /\ phase = "search"
    /\ lo < hi
    /\ weighed' = weighed \cup {query.starts[Middle]}
    /\ IF Fits(query.starts[Middle]) /\ Middle > lo
       THEN hi' = Middle - 1 /\ UNCHANGED lo
       ELSE lo' = Middle + 1 /\ UNCHANGED hi
    /\ UNCHANGED <<query, phase, cap, count, chosen>>

\* Mutant: the middle that does not fit is searched again.
ProbeKeepsTheMiddle ==
    /\ phase = "search"
    /\ lo < hi
    /\ weighed' = weighed \cup {query.starts[Middle]}
    /\ IF Fits(query.starts[Middle])
       THEN hi' = Middle /\ UNCHANGED lo
       ELSE lo' = Middle /\ UNCHANGED hi
    /\ UNCHANGED <<query, phase, cap, count, chosen>>

\* One halving; a start weighed before is not asked about again.
Probe ==
    /\ phase = "search"
    /\ lo < hi
    /\ weighed' = weighed \cup {query.starts[Middle]}
    /\ IF Fits(query.starts[Middle])
       THEN hi' = Middle /\ UNCHANGED lo
       ELSE lo' = Middle + 1 /\ UNCHANGED hi
    /\ UNCHANGED <<query, phase, cap, count, chosen>>

\* The answer goes out with its own weight.
Conclude ==
    /\ phase = "search"
    /\ lo = hi
    /\ chosen' = query.starts[lo]
    /\ weighed' = weighed \cup {chosen'}
    /\ phase' = "done"
    /\ UNCHANGED <<query, cap, count, lo, hi>>

\* The start the next question is about, when there is one.
Question ==
    CASE phase = "all" -> 0
      [] phase = "search" -> query.starts[IF lo < hi THEN Middle ELSE lo]

\* The handle gives no weight: the search fails and decides nothing.
Silence ==
    /\ \/ phase = "all" /\ WeighsAll
       \/ phase = "search"
    /\ Question \notin weighed
    /\ phase' = "failed"
    /\ UNCHANGED <<query, cap, count, lo, hi, weighed, chosen>>

Next == WeighAll \/ NoCapToFind \/ Probe \/ Conclude \/ Silence

Spec == Init /\ [][Next]_vars /\ WF_vars(Next)

---------------------------------------------------------------------------

TypeOK ==
    /\ query \in Queries
    /\ phase \in Phases
    /\ cap \in Nat
    /\ count \in 0 .. Len(query.starts)
    /\ lo \in Nat
    /\ hi \in Nat
    /\ weighed \subseteq 0 .. query.total
    /\ chosen \in (0 .. query.total) \cup {NoTail}

\* The tail a priced search ends with is the longest eligible one under the cap,
\* or the shortest eligible one when the floor is stronger than the weight; the
\* halving skips no better start (longestTailWithin).
ChosenIsLongestWithinCap ==
    phase = "done" /\ query.priced =>
        chosen = LongestWithin(Tails, query.weight, cap)

\* With the window named, the kept tail and the rest of the window together stay
\* at or under X whenever any eligible tail could do that (the cap of
\* chooseKeptTail and the search agree): "never more than fits under
\* pourOffAtTokens with the rest of the window".
KeptWindowFitsUnderX ==
    LET rest == RestOf(query.window, query.weight[0])
    IN  (/\ phase = "done" /\ WeighsAll
         /\ \E s \in Tails : /\ query.weight[s] <= query.keepTokens
                             /\ query.weight[s] > 0
                             /\ rest + query.weight[s] <= query.pourAt)
        => /\ chosen # NoTail
           /\ query.weight[chosen] > 0 => rest + query.weight[chosen] <= query.pourAt
           /\ query.weight[chosen] <= query.keepTokens

\* The search asks about log2 of the starts: one question to find the cap, one
\* per halving, one for the answer's own weight.
FewQuestions ==
    Cardinality(weighed) >= 2 => 2 ^ (Cardinality(weighed) - 2) <= count

\* Whatever is asked is answered: a search ends, chosen or failed.
SearchEnds == <>(phase \in {"done", "failed"})
===========================================================================
