--------------------------- MODULE TailByWeight ---------------------------
(***************************************************************************)
(* Where the kept tail of a session may start, and which start is the      *)
(* right one: the vocabulary of tail-by-weight.ts and chooseKeptTail.      *)
(*                                                                         *)
(* Positions count from 0, as in the code: the tail from position s of     *)
(* `total` messages holds total - s of them.  NoTail is the code's null.   *)
(***************************************************************************)
EXTENDS Integers, Sequences

Roles == {"user", "other"}     \* "other": an assistant message or a tool result

NoTail == -1                   \* nothing is chosen
NoWindow == -1                 \* the host names no weight of the window

AtMost(a, b) == IF a <= b THEN a ELSE b
NotNegative(a) == IF a < 0 THEN 0 ELSE a

\* A turn starts at a user's message; a tool's answer never starts one.
TurnStarts(messages) == {s \in 0 .. Len(messages) - 1 : messages[s + 1] = "user"}

\* The whole list is always a candidate.
Candidates(messages) == TurnStarts(messages) \cup {0}

\* Mutant: the floor is forgotten.
IsEligibleWithoutFloor(s, total, floor) == s < total

IsEligible(s, total, floor) == s < total /\ total - s >= floor

EligibleStarts(messages, floor) ==
    {s \in Candidates(messages) : IsEligible(s, Len(messages), floor)}

\* What the window weighs beside its messages.
RestOf(window, all) == NotNegative(window - all)

\* The weight the tail may not exceed: K, or what the rest leaves under X.
CapOf(keepTokens, pourAt, rest) == AtMost(keepTokens, NotNegative(pourAt - rest))

\* The shortest eligible tail.
FloorTail(eligible) ==
    IF eligible = {} THEN NoTail
    ELSE CHOOSE s \in eligible : \A t \in eligible : t <= s

\* The longest eligible tail that weighs no more than cap; when none does, the
\* shortest one.  The definition a search is measured against.
LongestWithin(eligible, weight, cap) ==
    LET light == {s \in eligible : weight[s] <= cap}
    IN  IF light = {} THEN FloorTail(eligible)
        ELSE CHOOSE s \in light : \A t \in light : s <= t
===========================================================================
