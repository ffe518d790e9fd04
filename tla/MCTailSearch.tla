--------------------------- MODULE MCTailSearch ---------------------------
(***************************************************************************)
(* Searches small enough to list: every shape of up to MaxMessages         *)
(* messages (all sets of turn starts, all weights up to MaxWeight that do  *)
(* not fall as the tail grows), and longer lists, where the halving has    *)
(* more to halve, with one message weighing one.                           *)
(***************************************************************************)
EXTENDS TailSearch, FiniteSetsExt, SequencesExt

CONSTANTS MaxMessages, MaxWeight, LongLists

\* The tails' weights, one per position; the empty tail weighs what the handle
\* charges for nothing.
Weights(total) ==
    {w \in [0 .. total -> 0 .. MaxWeight] :
        \A s \in 1 .. total : w[s] <= w[s - 1]}

Starts(total) ==
    {SetToSortSeq(S \cup {0}, <) : S \in SUBSET (1 .. total - 1)}

ShortQueries ==
    UNION {[total : {n}, starts : Starts(n), weight : Weights(n),
            window : {NoWindow, 4}, priced : BOOLEAN, floor : {0, 2},
            keepTokens : {1, 2}, pourAt : {3}] : n \in 0 .. MaxMessages}

LongQueries ==
    UNION {[total : {n}, starts : {[i \in 1 .. n |-> i - 1]},
            weight : {[s \in 0 .. n |-> n - s]},
            window : {NoWindow, n + 1, n + 3}, priced : {TRUE}, floor : {0, 3},
            keepTokens : 0 .. n, pourAt : {n \div 2, n}] : n \in LongLists}

AllQueries == ShortQueries \cup LongQueries
===========================================================================
