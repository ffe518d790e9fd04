---------------------------- MODULE WindowProofs ----------------------------
(***************************************************************************)
(* What stays in the window.  For every set of queries: the search of      *)
(* chooseKeptTail ends with the longest eligible tail within the cap, and  *)
(* with the window named the kept tail fits under X whenever some eligible *)
(* tail does.  For every conversation and every archive of it: without a   *)
(* fresh summary, nothing falls between the summary and what is sent.      *)
(***************************************************************************)
EXTENDS TailSearch, Recovery, WellFoundedInduction, TLAPS

---------------------------------------------------------------------------
(* The search for the kept tail                                            *)

\* The answer lies between lo and hi: everything longer is too heavy, and hi,
\* unless it is the shortest eligible tail, has been seen to fit.
Between(first, last) ==
    /\ first \in 1 .. count
    /\ last \in first .. count
    /\ last < count => Fits(query.starts[last])
    /\ \A i \in 1 .. first - 1 : ~Fits(query.starts[i])

SearchInv ==
    /\ TypeOK
    /\ IsEligibleCount(count)
    /\ phase = "all" => lo = 1 /\ hi = count
    /\ phase = "search" => query.priced /\ Between(lo, hi)
    /\ phase = "done" /\ query.priced =>
          \/ count = 0 /\ chosen = NoTail
          \/ \E k \in 1 .. count : chosen = query.starts[k] /\ Between(k, k)
    /\ phase \in {"search", "done"} /\ WeighsAll =>
          cap = CapOf(query.keepTokens, query.pourAt,
                      RestOf(query.window, query.weight[0]))

LEMMA QueryFacts ==
    ASSUME TypeOK
    PROVE  /\ IsQuery(query)
           /\ \A i \in 1 .. Len(query.starts) : query.starts[i] \in 0 .. query.total
           /\ \A s \in 0 .. query.total : query.weight[s] \in Nat
           /\ Len(query.starts) \in Nat
  <1>1. IsQuery(query)
    BY QueriesAreQueries DEF TypeOK
  <1>2. Len(query.starts) \in Nat
    BY <1>1 DEF IsQuery
  <1>3. \A i \in 1 .. Len(query.starts) : query.starts[i] \in 0 .. query.total
    BY <1>1 DEF IsQuery
  <1>4. \A s \in 0 .. query.total : query.weight[s] \in Nat
    BY <1>1 DEF IsQuery
  <1>5. QED
    BY <1>1, <1>2, <1>3, <1>4

LEMMA CapIsNatural ==
    ASSUME NEW k \in Nat, NEW x \in Nat, NEW w \in Nat, NEW a \in Nat
    PROVE  CapOf(k, x, RestOf(w, a)) \in Nat
  BY DEF CapOf, RestOf, AtMost, NotNegative

LEMMA InitSearchInv == Init => SearchInv
  <1> SUFFICES ASSUME Init PROVE SearchInv
    OBVIOUS
  <1>1. IsQuery(query)
    BY QueriesAreQueries DEF Init
  <1>2. Len(query.starts) \in Nat /\ query.keepTokens \in Nat
    BY <1>1 DEF IsQuery
  <1>3. IsEligibleCount(count) /\ count \in 0 .. Len(query.starts)
    BY DEF Init
  <1>4. TypeOK
    BY <1>2, <1>3 DEF Init, TypeOK, Phases, NoTail
  <1>5. QED
    BY <1>3, <1>4 DEF Init, SearchInv

\* What Begin does to a search that has found its cap.
LEMMA BeginKeeps ==
    ASSUME SearchInv, phase = "all", Begin,
           UNCHANGED <<query, count, lo, hi>>
    PROVE  /\ phase' \in Phases
           /\ chosen' \in (0 .. query.total) \cup {NoTail}
           /\ phase' # "all"
           /\ phase' = "search" => query.priced /\ Between(lo, hi)'
           /\ phase' = "done" /\ query.priced => count = 0 /\ chosen' = NoTail
  <1> USE DEF SearchInv
  <1>1. /\ count \in 0 .. Len(query.starts)
        /\ Len(query.starts) \in Nat
        /\ \A i \in 1 .. Len(query.starts) : query.starts[i] \in 0 .. query.total
        /\ query.priced \in BOOLEAN
    BY QueryFacts DEF TypeOK, IsQuery
  <1>2. CASE count = 0
    BY <1>1, <1>2 DEF Begin, Phases
  <1>3. CASE count > 0 /\ ~query.priced
    BY <1>1, <1>3 DEF Begin, Phases
  <1>4. CASE count > 0 /\ query.priced
    <2>1. phase' = "search" /\ chosen' = chosen
      BY <1>1, <1>4 DEF Begin
    <2>2. Between(lo, hi)'
      BY <1>1, <1>4 DEF Between
    <2>3. QED
      BY <1>4, <2>1, <2>2 DEF Phases, TypeOK
  <1>5. QED
    BY <1>1, <1>2, <1>3, <1>4

LEMMA WeighAllKeeps == SearchInv /\ WeighAll => SearchInv'
  <1> SUFFICES ASSUME SearchInv, WeighAll PROVE SearchInv'
    OBVIOUS
  <1>1. phase = "all" /\ WeighsAll /\ Begin /\ UNCHANGED <<query, count, lo, hi>>
    BY DEF WeighAll
  <1>2. /\ phase' \in Phases /\ phase' # "all"
        /\ chosen' \in (0 .. query.total) \cup {NoTail}
        /\ phase' = "search" => query.priced /\ Between(lo, hi)'
        /\ phase' = "done" /\ query.priced => count = 0 /\ chosen' = NoTail
    BY <1>1, BeginKeeps
  <1>3. cap' \in Nat
    <2>1. /\ query.keepTokens \in Nat /\ query.pourAt \in Nat
          /\ query.window \in Nat /\ query.weight[0] \in Nat
      BY <1>1, QueryFacts DEF SearchInv, IsQuery, WeighsAll
    <2>2. QED
      BY <2>1, CapIsNatural DEF WeighAll
  <1>4. weighed' \subseteq 0 .. query.total
    BY QueryFacts DEF SearchInv, IsQuery, WeighAll
  <1>5. TypeOK'
    BY <1>1, <1>2, <1>3, <1>4 DEF SearchInv, TypeOK
  <1>6. IsEligibleCount(count)'
    BY <1>1 DEF SearchInv, IsEligibleCount, Eligible
  <1>7. cap' = CapOf(query.keepTokens, query.pourAt, RestOf(query.window, query.weight[0]))
    BY DEF WeighAll
  <1>8. QED
    BY <1>1, <1>2, <1>5, <1>6, <1>7 DEF SearchInv

LEMMA NoCapToFindKeeps == SearchInv /\ NoCapToFind => SearchInv'
  <1> SUFFICES ASSUME SearchInv, NoCapToFind PROVE SearchInv'
    OBVIOUS
  <1>1. phase = "all" /\ ~WeighsAll /\ Begin /\ UNCHANGED <<query, cap, count, lo, hi, weighed>>
    BY DEF NoCapToFind
  <1>2. /\ phase' \in Phases /\ phase' # "all"
        /\ chosen' \in (0 .. query.total) \cup {NoTail}
        /\ phase' = "search" => query.priced /\ Between(lo, hi)'
        /\ phase' = "done" /\ query.priced => count = 0 /\ chosen' = NoTail
    BY <1>1, BeginKeeps
  <1>3. TypeOK'
    BY <1>1, <1>2 DEF SearchInv, TypeOK
  <1>4. IsEligibleCount(count)' /\ ~WeighsAll'
    BY <1>1 DEF SearchInv, IsEligibleCount, Eligible, WeighsAll
  <1>5. QED
    BY <1>1, <1>2, <1>3, <1>4 DEF SearchInv

\* The halving keeps the answer between lo and hi.
LEMMA ProbeKeeps == SearchInv /\ Probe => SearchInv'
  <1> SUFFICES ASSUME SearchInv, Probe PROVE SearchInv'
    OBVIOUS
  <1>1. /\ phase = "search" /\ lo < hi
        /\ UNCHANGED <<query, phase, cap, count, chosen>>
    BY DEF Probe
  <1>2. Between(lo, hi) /\ count \in 0 .. Len(query.starts) /\ Len(query.starts) \in Nat
    BY <1>1, QueryFacts DEF SearchInv, TypeOK
  <1>3. Middle \in lo .. hi - 1
    BY <1>1, <1>2 DEF Between, Middle
  <1>4. query.starts[Middle] \in 0 .. query.total
    BY <1>2, <1>3, QueryFacts DEF Between, SearchInv
  <1>5. Between(lo, hi)'
    <2>1. CASE Fits(query.starts[Middle])
      <3>1. hi' = Middle /\ lo' = lo
        BY <2>1 DEF Probe
      <3>2. QED
        BY <1>1, <1>2, <1>3, <2>1, <3>1 DEF Between, Fits
    <2>2. CASE ~Fits(query.starts[Middle])
      <3>1. lo' = Middle + 1 /\ hi' = hi
        BY <2>2 DEF Probe
      <3>2. \A i \in 1 .. Middle : ~Fits(query.starts[i])
        <4>1. SUFFICES ASSUME NEW i \in 1 .. Middle, i >= lo
                       PROVE  query.weight[query.starts[i]] > cap
          BY <1>2, <1>3, <4>1, QueryFacts DEF Between, Fits, SearchInv, TypeOK
        <4>2. IsQuery(query)
          BY QueryFacts DEF SearchInv
        <4>3. i \in 1 .. Len(query.starts) /\ Middle \in 1 .. Len(query.starts)
          BY <1>2, <1>3, <4>1 DEF Between
        <4>4. query.starts[i] <= query.starts[Middle]
          <5>1. CASE i = Middle
            BY <4>3, <5>1, QueryFacts DEF SearchInv
          <5>2. CASE i < Middle
            <6>1. query.starts[i] < query.starts[Middle]
              BY <4>2, <4>3, <5>2 DEF IsQuery
            <6>2. query.starts[i] \in Nat /\ query.starts[Middle] \in Nat
              BY <4>3, QueryFacts DEF SearchInv
            <6>3. QED
              BY <6>1, <6>2
          <5>3. QED
            BY <1>3, <1>2, <5>1, <5>2 DEF Between
        <4>5. /\ query.starts[i] \in 0 .. query.total
              /\ query.weight[query.starts[i]] \in Nat
              /\ query.weight[query.starts[Middle]] \in Nat
          BY <1>4, <4>3, QueryFacts DEF SearchInv
        <4>6. query.weight[query.starts[Middle]] <= query.weight[query.starts[i]]
          BY <1>4, <4>2, <4>4, <4>5 DEF IsQuery
        <4>7. query.weight[query.starts[Middle]] > cap
          BY <2>2, <4>5 DEF Fits, SearchInv, TypeOK
        <4>8. QED
          BY <4>5, <4>6, <4>7 DEF SearchInv, TypeOK
      <3>3. QED
        BY <1>1, <1>2, <1>3, <3>1, <3>2 DEF Between, Fits
    <2>3. QED
      BY <2>1, <2>2
  <1>6. TypeOK'
    <2>1. weighed' \subseteq 0 .. query.total
      BY <1>4 DEF Probe, SearchInv, TypeOK
    <2>2. lo' \in Nat /\ hi' \in Nat
      BY <1>1, <1>2, <1>5 DEF Between
    <2>3. QED
      BY <1>1, <2>1, <2>2 DEF SearchInv, TypeOK
  <1>7. QED
    BY <1>1, <1>5, <1>6 DEF SearchInv, IsEligibleCount, Eligible, WeighsAll

LEMMA ConcludeKeeps == SearchInv /\ Conclude => SearchInv'
  <1> SUFFICES ASSUME SearchInv, Conclude PROVE SearchInv'
    OBVIOUS
  <1>1. /\ phase = "search" /\ lo = hi /\ phase' = "done"
        /\ chosen' = query.starts[lo] /\ weighed' = weighed \cup {query.starts[lo]}
        /\ UNCHANGED <<query, cap, count, lo, hi>>
    BY DEF Conclude
  <1>2. Between(lo, lo) /\ lo \in 1 .. Len(query.starts)
    BY <1>1, QueryFacts DEF SearchInv, TypeOK, Between
  <1>3. Between(lo, lo)'
    BY <1>1, <1>2 DEF Between, Fits
  <1>4. TypeOK'
    BY <1>1, <1>2, QueryFacts DEF SearchInv, TypeOK, Phases
  <1>5. lo \in 1 .. count
    BY <1>2 DEF Between
  <1>6. \E k \in 1 .. count' : chosen' = query'.starts[k] /\ Between(k, k)'
    BY <1>1, <1>3, <1>5
  <1>7. QED
    BY <1>1, <1>4, <1>6 DEF SearchInv, IsEligibleCount, Eligible, WeighsAll

LEMMA SilenceKeeps == SearchInv /\ Silence => SearchInv'
  BY DEF SearchInv, Silence, TypeOK, Phases, IsEligibleCount, Eligible, WeighsAll

LEMMA StutterKeeps == SearchInv /\ UNCHANGED vars => SearchInv'
  BY DEF SearchInv, vars, TypeOK, IsEligibleCount, Eligible, WeighsAll, Between, Fits

\* The invariant of the search holds in every reachable state.
THEOREM SearchInvariant == Spec => []SearchInv
  <1>1. SearchInv /\ [Next]_vars => SearchInv'
    BY WeighAllKeeps, NoCapToFindKeeps, ProbeKeeps, ConcludeKeeps, SilenceKeeps,
       StutterKeeps DEF Next
  <1>2. QED
    BY InitSearchInv, <1>1, PTL DEF Spec

\* Every value the search works with stays in its range: the handle is only ever
\* asked about a position of the list, and the answer is one.
THEOREM TypeCorrect == Spec => []TypeOK
  <1>1. SearchInv => TypeOK
    BY DEF SearchInv
  <1>2. QED
    BY <1>1, SearchInvariant, PTL

\* The halved answer is the one the definition names: unique by the order of the
\* starts, the longest of those that fit or the shortest of all.
LEMMA BetweenIsLongest ==
    ASSUME TypeOK, NEW k \in 1 .. count, Between(k, k)
    PROVE  query.starts[k] = LongestWithin(Tails, query.weight, cap)
  <1> DEFINE Light == {s \in Tails : query.weight[s] <= cap}
  <1>1. IsQuery(query) /\ count \in 0 .. Len(query.starts) /\ Len(query.starts) \in Nat
    BY QueryFacts DEF TypeOK
  <1>2. \A i \in 1 .. count : query.starts[i] \in Nat
    <2>1. SUFFICES ASSUME NEW i \in 1 .. count PROVE query.starts[i] \in Nat
      OBVIOUS
    <2>2. query.starts[i] \in 0 .. query.total
      BY <1>1, <2>1, QueryFacts
    <2>3. QED
      BY <1>1, <2>2 DEF IsQuery
  <1>3. \A i, j \in 1 .. count : i < j => query.starts[i] < query.starts[j]
    <2>1. 1 .. count \subseteq 1 .. Len(query.starts)
      BY <1>1
    <2>2. \A i, j \in 1 .. Len(query.starts) : i < j => query.starts[i] < query.starts[j]
      BY <1>1 DEF IsQuery
    <2>3. QED
      BY <2>1, <2>2
  <1>4. \A i, j \in 1 .. count : i <= j => query.starts[i] <= query.starts[j]
    <2>1. SUFFICES ASSUME NEW i \in 1 .. count, NEW j \in 1 .. count, i <= j
                   PROVE  query.starts[i] <= query.starts[j]
      OBVIOUS
    <2>2. CASE i = j
      BY <1>2, <2>2
    <2>3. CASE i < j
      <3>1. query.starts[i] < query.starts[j]
        BY <1>3, <2>3
      <3>2. QED
        BY <1>2, <3>1
    <2>4. QED
      BY <1>1, <2>1, <2>2, <2>3
  <1>5. query.starts[k] \in Tails
    BY DEF Tails
  <1>6. CASE Fits(query.starts[k])
    <2>1. query.starts[k] \in Light
      BY <1>5, <1>6 DEF Fits
    <2>2. \A t \in Light : query.starts[k] <= t
      <3>1. SUFFICES ASSUME NEW i \in 1 .. count, Fits(query.starts[i])
                     PROVE  query.starts[k] <= query.starts[i]
        BY DEF Tails, Fits
      <3>2. k <= i
        BY <1>1, <3>1 DEF Between
      <3>3. QED
        BY <1>4, <3>2
    <2>3. \A s \in Light : (\A t \in Light : s <= t) => s = query.starts[k]
      <3>1. SUFFICES ASSUME NEW i \in 1 .. count, query.starts[i] \in Light,
                            \A t \in Light : query.starts[i] <= t
                     PROVE  query.starts[i] = query.starts[k]
        BY DEF Tails
      <3>2. query.starts[i] <= query.starts[k] /\ query.starts[k] <= query.starts[i]
        BY <2>1, <2>2, <3>1
      <3>3. QED
        BY <1>2, <3>2
    <2>4. (CHOOSE s \in Light : \A t \in Light : s <= t) = query.starts[k]
      BY <2>1, <2>2, <2>3
    <2>5. QED
      BY <2>1, <2>4 DEF LongestWithin
  <1>7. CASE ~Fits(query.starts[k])
    <2>1. k = count
      BY <1>1, <1>7 DEF Between
    <2>2. Light = {}
      <3>1. SUFFICES ASSUME NEW i \in 1 .. count, Fits(query.starts[i]) PROVE FALSE
        BY DEF Tails, Fits
      <3>2. i < k
        BY <1>1, <1>7, <2>1, <3>1
      <3>3. QED
        BY <1>1, <3>1, <3>2 DEF Between
    <2>3. \A t \in Tails : t <= query.starts[k]
      BY <1>1, <1>4, <2>1 DEF Tails
    <2>4. \A s \in Tails : (\A t \in Tails : t <= s) => s = query.starts[k]
      <3>1. SUFFICES ASSUME NEW i \in 1 .. count,
                            \A t \in Tails : t <= query.starts[i]
                     PROVE  query.starts[i] = query.starts[k]
        BY DEF Tails
      <3>2. query.starts[i] <= query.starts[k] /\ query.starts[k] <= query.starts[i]
        BY <1>5, <2>3, <3>1 DEF Tails
      <3>3. QED
        BY <1>2, <3>2
    <2>5. (CHOOSE s \in Tails : \A t \in Tails : t <= s) = query.starts[k]
      BY <1>5, <2>3, <2>4
    <2>6. QED
      BY <1>5, <2>2, <2>5 DEF LongestWithin, FloorTail
  <1>8. QED
    BY <1>6, <1>7

LEMMA DoneIsLongest == SearchInv => ChosenIsLongestWithinCap
  <1> SUFFICES ASSUME SearchInv, phase = "done", query.priced
               PROVE  chosen = LongestWithin(Tails, query.weight, cap)
    BY DEF ChosenIsLongestWithinCap
  <1>1. CASE count = 0 /\ chosen = NoTail
    <2>1. Tails = {}
      BY <1>1 DEF Tails
    <2>2. QED
      BY <1>1, <2>1 DEF LongestWithin, FloorTail
  <1>2. CASE \E k \in 1 .. count : chosen = query.starts[k] /\ Between(k, k)
    BY <1>2, BetweenIsLongest DEF SearchInv
  <1>3. QED
    BY <1>1, <1>2 DEF SearchInv

\* However the starts and weights lie, the binary search of longestTailWithin
\* chooses what its comment promises: the longest eligible tail not above the
\* cap, or the shortest eligible one when even that is too heavy.
THEOREM SearchCorrect == Spec => []ChosenIsLongestWithinCap
  BY SearchInvariant, DoneIsLongest, PTL

\* A cap found from the window leaves room for the rest of it under X.
LEMMA CapLeavesRoom ==
    ASSUME NEW k \in Nat, NEW x \in Nat, NEW r \in Nat, NEW w \in Nat
    PROVE  /\ w <= CapOf(k, x, r) => w <= k /\ (w > 0 => r + w <= x)
           /\ w <= k /\ w > 0 /\ r + w <= x => w <= CapOf(k, x, r)
  BY DEF CapOf, AtMost, NotNegative

LEMMA DoneFitsUnderX == SearchInv => KeptWindowFitsUnderX
  <1> DEFINE rest == RestOf(query.window, query.weight[0])
  <1> SUFFICES ASSUME SearchInv, phase = "done", WeighsAll,
                      NEW s \in Tails,
                      query.weight[s] <= query.keepTokens,
                      query.weight[s] > 0,
                      rest + query.weight[s] <= query.pourAt
               PROVE  /\ chosen # NoTail
                      /\ query.weight[chosen] > 0 =>
                            rest + query.weight[chosen] <= query.pourAt
                      /\ query.weight[chosen] <= query.keepTokens
    BY DEF KeptWindowFitsUnderX
  <1>1. IsQuery(query) /\ TypeOK /\ count \in 0 .. Len(query.starts) /\ query.priced
    BY QueryFacts DEF SearchInv, TypeOK, WeighsAll
  <1>2. PICK i \in 1 .. count : s = query.starts[i]
    BY DEF Tails
  <1>3. s \in 0 .. query.total /\ query.weight[s] \in Nat
    <2>1. i \in 1 .. Len(query.starts)
      BY <1>1, <1>2 DEF IsQuery
    <2>2. query.starts[i] \in 0 .. query.total
      BY <1>1, <2>1, QueryFacts
    <2>3. QED
      BY <1>1, <1>2, <2>2, QueryFacts
  <1>4. /\ query.keepTokens \in Nat /\ query.pourAt \in Nat
        /\ query.window \in Nat /\ query.weight[0] \in Nat
    BY <1>1, QueryFacts DEF IsQuery, WeighsAll
  <1>5. rest \in Nat
    BY <1>4 DEF RestOf, NotNegative
  <1>6. cap = CapOf(query.keepTokens, query.pourAt, rest)
    BY DEF SearchInv
  <1>7. Fits(s)
    BY <1>3, <1>4, <1>5, <1>6, CapLeavesRoom DEF Fits
  <1>8. count # 0
    BY <1>1, <1>2 DEF IsQuery
  <1>9. PICK k \in 1 .. count : chosen = query.starts[k] /\ Between(k, k)
    BY <1>1, <1>8 DEF SearchInv
  <1>10. chosen \in 0 .. query.total /\ query.weight[chosen] \in Nat
    <2>1. k \in 1 .. Len(query.starts)
      BY <1>1, <1>9 DEF IsQuery
    <2>2. query.starts[k] \in 0 .. query.total
      BY <1>1, <2>1, QueryFacts
    <2>3. QED
      BY <1>1, <1>9, <2>2, QueryFacts
  <1>11. Fits(chosen)
    <2>1. CASE k < count
      BY <1>9, <2>1 DEF Between
    <2>2. CASE k = count
      <3>1. i >= k
        BY <1>2, <1>7, <1>9 DEF Between
      <3>2. i = k
        BY <1>1, <1>2, <2>2, <3>1
      <3>3. QED
        BY <1>2, <1>7, <1>9, <3>2
    <2>3. QED
      BY <1>1, <1>9, <2>1, <2>2 DEF IsQuery
  <1>12. QED
    <2>1. query.weight[chosen] <= CapOf(query.keepTokens, query.pourAt, rest)
      BY <1>6, <1>11 DEF Fits
    <2>2. chosen # NoTail
      BY <1>1, <1>10 DEF NoTail, IsQuery
    <2>3. QED
      BY <1>4, <1>5, <1>10, <2>1, <2>2, CapLeavesRoom

\* With the window named by the host, the kept tail and the rest of the window
\* stay within X, and the tail within K, whenever some eligible tail does: the
\* cap of chooseKeptTail is neither too wide nor narrower than it has to be.
THEOREM KeptWindowUnderX == Spec => []KeptWindowFitsUnderX
  BY SearchInvariant, DoneFitsUnderX, PTL

---------------------------------------------------------------------------
(* Where the window without a fresh summary begins                         *)

LEMMA HasLeast ==
    ASSUME NEW S, S \subseteq Nat, S # {}
    PROVE  \E x \in S : \A y \in S : x <= y
  <1>1. PICK x \in S : \A y \in S : ~(<<y, x>> \in OpToRel(<, Nat))
    BY NatLessThanWellFounded, WFMin
  <1>2. \A y \in S : ~(y < x)
    BY <1>1 DEF OpToRel
  <1>3. QED
    BY <1>2

LEMMA HasGreatest ==
    ASSUME NEW n \in Nat, NEW S, S \subseteq 0 .. n, S # {}
    PROVE  \E x \in S : \A y \in S : y <= x
  <1> DEFINE T == {b \in Nat : \A s \in S : s <= b}
  <1>1. \A s \in S : s \in Nat /\ s <= n
    OBVIOUS
  <1>2. n \in T
    BY <1>1
  <1>3. PICK x \in T : \A b \in T : x <= b
    BY <1>2, HasLeast, T \subseteq Nat
  <1>4. x \in S
    <2>1. SUFFICES ASSUME x \notin S PROVE FALSE
      OBVIOUS
    <2>2. PICK s \in S : TRUE
      OBVIOUS
    <2>3. s < x /\ x \in Nat /\ s \in Nat
      BY <1>1, <1>3, <2>1
    <2>4. x - 1 \in T
      BY <1>1, <1>3, <2>1, <2>3
    <2>5. QED
      BY <1>3, <2>3, <2>4
  <1>5. QED
    BY <1>3, <1>4

LEMMA ConversationFacts ==
    ASSUME NEW c, IsConversation(c)
    PROVE  /\ Len(c) \in Nat /\ DOMAIN c = 1 .. Len(c)
           /\ \A i \in 1 .. Len(c) : /\ c[i].batch \in Nat /\ c[i].moment \in Nat
                                     /\ c[i].role \in Roles
           /\ \A i, j \in 1 .. Len(c) : i <= j => c[i].batch <= c[j].batch
           /\ \A i, j \in 1 .. Len(c) :
                 i < j /\ ~Opens(c, j) /\ c[j].moment # 0 => c[i].moment <= c[j].moment
  <1> DEFINE Said == [batch : Nat, moment : Nat, role : Roles]
  <1>1. c \in Seq(Said)
    BY DEF IsConversation
  <1>2. Len(c) \in Nat /\ DOMAIN c = 1 .. Len(c)
    BY <1>1
  <1>3. \A i \in 1 .. Len(c) : c[i] \in Said
    <2> HIDE DEF Said
    <2> QED
      BY <1>1
  <1>4. \A i \in 1 .. Len(c) : c[i].batch \in Nat /\ c[i].moment \in Nat /\ c[i].role \in Roles
    BY <1>3
  <1>5. QED
    BY <1>2, <1>4 DEF IsConversation

\* However many numbers there are, none is beyond some bound.
LEMMA NumbersAreBounded ==
    ASSUME NEW n \in Nat, NEW f \in [1 .. n -> Nat]
    PROVE  \E b \in Nat : \A i \in 1 .. n : f[i] <= b
  <1> DEFINE Bounded(k) == \E b \in Nat : \A i \in 1 .. k : f[i] <= b
             T == {k \in 0 .. n : ~Bounded(k)}
  <1>1. ASSUME T # {} PROVE FALSE
    <2>1. T \subseteq Nat
      OBVIOUS
    <2>2. PICK k \in T : \A j \in T : k <= j
      <3> HIDE DEF T
      <3> QED
        BY <1>1, <2>1, HasLeast
    <2>3. k \in 0 .. n /\ ~Bounded(k)
      BY <2>2
    <2>4. k # 0
      <3>1. \A i \in 1 .. 0 : f[i] <= 0
        OBVIOUS
      <3>2. Bounded(0)
        BY <3>1
      <3> HIDE DEF Bounded
      <3>3. QED
        BY <2>3, <3>2
    <2>5. k - 1 \in 0 .. n /\ k - 1 \notin T
      <3> HIDE DEF T, Bounded
      <3> QED
        BY <2>2, <2>3, <2>4
    <2>6. Bounded(k - 1)
      <3> HIDE DEF Bounded
      <3> QED
        BY <2>5
    <2>7. PICK b \in Nat : \A i \in 1 .. k - 1 : f[i] <= b
      BY <2>6
    <2>8. k \in 1 .. n /\ f[k] \in Nat
      BY <2>3, <2>4
    <2>9. PICK c \in Nat : b <= c /\ f[k] <= c
      BY <2>7, <2>8
    <2>10. \A i \in 1 .. k : f[i] <= c
      <3>1. \A i \in 1 .. k : i \in 1 .. k - 1 \/ i = k
        BY <2>8
      <3>2. \A i \in 1 .. k - 1 : f[i] \in Nat
        BY <2>8
      <3>3. QED
        BY <2>7, <2>8, <2>9, <3>1, <3>2
    <2>11. QED
      BY <2>3, <2>10
  <1>2. Bounded(n)
    <2>1. n \notin T /\ n \in 0 .. n
      <3> HIDE DEF T
      <3> QED
        BY <1>1
    <2> HIDE DEF Bounded
    <2>2. QED
      BY <2>1
  <1>3. QED
    BY <1>2

LEMMA MomentsAreBounded ==
    ASSUME NEW c, IsConversation(c)
    PROVE  \E b \in Nat : \A i \in 1 .. Len(c) : c[i].moment <= b
  <1> DEFINE f == [i \in 1 .. Len(c) |-> c[i].moment]
  <1>1. Len(c) \in Nat /\ f \in [1 .. Len(c) -> Nat]
    BY ConversationFacts
  <1>2. \E b \in Nat : \A i \in 1 .. Len(c) : f[i] <= b
    <2> HIDE DEF f
    <2> QED
      BY <1>1, NumbersAreBounded
  <1>3. QED
    BY <1>2

LEMMA StampIsTheLasts ==
    ASSUME IsConversation(said), NEW i \in 1 .. N, Stamp(i) # 0
    PROVE  \E l \in 1 .. N :
              /\ said[l].batch = said[i].batch /\ said[l].moment = Stamp(i)
              /\ \A k \in 1 .. N :
                    said[k].batch = said[i].batch /\ said[k].moment # 0 => k <= l
  <1> DEFINE batch == {j \in 1 .. N : said[j].batch = said[i].batch /\ said[j].moment # 0}
  <1>1. N \in Nat
    BY ConversationFacts DEF N
  <1>2. batch # {} /\ Stamp(i) = said[CHOOSE j \in batch : \A k \in batch : k <= j].moment
    BY DEF Stamp
  <1>3. batch \subseteq 0 .. N
    BY <1>1
  <1>4. \E j \in batch : \A k \in batch : k <= j
    <2> HIDE DEF batch
    <2> QED
      BY <1>1, <1>2, <1>3, HasGreatest
  <1>5. PICK l \in batch : l = (CHOOSE j \in batch : \A k \in batch : k <= j)
    BY <1>4
  <1>6. \A k \in batch : k <= l
    BY <1>4, <1>5
  <1>7. QED
    BY <1>2, <1>5, <1>6

\* Of the moments the transcript may have lost, none is shared by two batches.
MostAreTimed == timed = 1 .. N \/ \E i \in 1 .. N : Alone(i) /\ timed = (1 .. N) \ {i}

\* A turn that is not an archive's last stands in the transcript before the archive's
\* end: the batch it ends in is the last one, and what stands in it past the end is no
\* older than what stands before.
LEMMA EarlierTurnIsWithin ==
    ASSUME IsConversation(said), MostAreTimed,
           NEW e \in Nat, NEW i \in 1 .. N, NEW k \in 1 .. N, i <= e, k <= e,
           Stamp(i) # 0, Stamp(i) < Stamp(k), Stamp(k) # 0,
           NEW p \in Places(Stamp(i)), \A j \in Places(Stamp(i)) : p <= j
    PROVE  p <= e
  <1>1. /\ N \in Nat
        /\ \A j \in 1 .. N : said[j].batch \in Nat /\ said[j].moment \in Nat
        /\ \A j, h \in 1 .. N : j <= h => said[j].batch <= said[h].batch
        /\ \A j, h \in 1 .. N :
              j < h /\ ~Opens(said, h) /\ said[h].moment # 0 => said[j].moment <= said[h].moment
    BY ConversationFacts DEF N
  <1>2. PICK l \in 1 .. N :
              /\ said[l].batch = said[i].batch /\ said[l].moment = Stamp(i)
              /\ \A j \in 1 .. N :
                    said[j].batch = said[i].batch /\ said[j].moment # 0 => j <= l
    BY StampIsTheLasts
  <1>3. PICK h \in 1 .. N :
              /\ said[h].batch = said[k].batch /\ said[h].moment = Stamp(k)
              /\ \A j \in 1 .. N :
                    said[j].batch = said[k].batch /\ said[j].moment # 0 => j <= h
    BY StampIsTheLasts
  <1>4. p \in 1 .. N /\ said[p].moment = Stamp(i)
    BY DEF Places
  <1>5. p <= l
    <2>1. CASE l \in timed
      BY <1>2, <2>1 DEF Places
    <2>2. CASE l \notin timed
      <3>1. Alone(l)
        BY <2>2 DEF MostAreTimed
      <3>2. said[p].batch = said[i].batch
        BY <1>2, <1>4, <3>1 DEF Alone
      <3>3. QED
        BY <1>2, <1>4, <3>2
    <2>3. QED
      BY <2>1, <2>2
  <1>6. ASSUME e < l PROVE FALSE
    <2>1. said[h].batch # said[l].batch
      <3>1. SUFFICES ASSUME said[h].batch = said[l].batch PROVE FALSE
        OBVIOUS
      <3>2. h <= l /\ l <= h
        BY <1>2, <1>3, <3>1
      <3>3. h = l
        BY <1>2, <1>3, <3>2
      <3>4. QED
        BY <1>2, <1>3, <1>1, <3>3
    <2>2. said[k].batch <= said[l].batch
      BY <1>1, <1>6
    <2>3. h < l
      <3>1. CASE l <= h
        <4>1. said[l].batch <= said[h].batch
          BY <1>1, <3>1
        <4>2. QED
          BY <1>1, <1>3, <2>1, <2>2, <4>1
      <3>2. QED
        BY <1>1, <3>1
    <2>4. ~Opens(said, l)
      <3>1. l - 1 \in 1 .. N /\ i <= l - 1 /\ l # 1
        BY <1>1, <1>6
      <3>2. said[i].batch <= said[l - 1].batch /\ said[l - 1].batch <= said[l].batch
        BY <1>1, <3>1
      <3>3. QED
        BY <1>1, <1>2, <3>1, <3>2 DEF Opens
    <2>5. said[h].moment <= said[l].moment
      BY <1>1, <1>2, <2>3, <2>4
    <2>6. QED
      BY <1>1, <1>2, <1>3, <2>5
  <1>7. QED
    BY <1>1, <1>4, <1>5, <1>6

LEMMA BoundaryIsWithin ==
    ASSUME IsConversation(said), MostAreTimed, ends \in Seq(Nat),
           NEW a \in DOMAIN ends, ends[a] <= N
    PROVE  Boundary(a) \in 0 .. ends[a]
  <1> DEFINE stamps == Stamps(a)
             before == {m \in stamps : \E k \in stamps : m < k}
             known == {m \in before : Places(m) # {}}
             latest == CHOOSE m \in known : \A k \in known : k <= m
  <1>1. N \in Nat /\ \A j \in 1 .. N : said[j].moment \in Nat
    BY ConversationFacts DEF N
  <1>2. ends[a] \in Nat
    OBVIOUS
  <1>3. \A m \in stamps : m # 0 /\ \E i \in 1 .. N : i <= ends[a] /\ m = Stamp(i)
    <2> DEFINE start == IF a = 1 THEN 0 ELSE ends[a - 1]
    <2>1. start \in Nat
      <3>1. CASE a = 1
        BY <3>1
      <3>2. CASE a # 1
        <4>1. a - 1 \in DOMAIN ends
          BY <3>2
        <4>2. QED
          BY <3>2, <4>1
      <3>3. QED
        BY <3>1, <3>2
    <2>2. stamps = {Stamp(i) : i \in start + 1 .. ends[a]} \ {0}
      BY DEF Stamps
    <2>3. \A i \in start + 1 .. ends[a] : i \in 1 .. N /\ i <= ends[a]
      <3> HIDE DEF start
      <3> QED
        BY <1>1, <1>2, <2>1
    <2>4. QED
      BY <2>2, <2>3
  <1>4. Boundary(a) = IF known = {} THEN 0
                      ELSE CHOOSE i \in Places(latest) : \A j \in Places(latest) : i <= j
    BY DEF Boundary
  <1>5. CASE known = {}
    BY <1>2, <1>4, <1>5
  <1>6. CASE known # {}
    <2>1. \A m \in known : \E j \in 1 .. N : m = said[j].moment
      BY DEF Places
    <2>2. \E m \in known : \A k \in known : k <= m
      <3>1. PICK b \in Nat : \A j \in 1 .. N : said[j].moment <= b
        BY MomentsAreBounded DEF N
      <3>2. known \subseteq 0 .. b
        <4> HIDE DEF known
        <4> QED
          BY <1>1, <2>1, <3>1
      <3>3. QED
        <4> HIDE DEF known
        <4> QED
          BY <1>6, <3>1, <3>2, HasGreatest
    <2>3. latest \in known
      <3> HIDE DEF known
      <3> QED
        BY <2>2
    <2> HIDE DEF latest
    <2>4. PICK i \in 1 .. N : i <= ends[a] /\ latest = Stamp(i) /\ latest # 0
      BY <1>3, <2>3
    <2>5. PICK k \in 1 .. N : k <= ends[a] /\ latest < Stamp(k) /\ Stamp(k) # 0
      BY <1>3, <2>3
    <2>6. Places(latest) # {} /\ Places(latest) \subseteq 1 .. N
      BY <2>3 DEF Places
    <2>7. \E p \in Places(latest) : \A j \in Places(latest) : p <= j
      <3>1. Places(latest) \subseteq Nat
        BY <2>6
      <3>2. QED
        BY <2>6, <3>1, HasLeast
    <2>8. PICK p \in Places(latest) :
              p = (CHOOSE i_1 \in Places(latest) : \A j \in Places(latest) : i_1 <= j)
      BY <2>7
    <2>9. \A j \in Places(latest) : p <= j
      BY <2>7, <2>8
    <2>10. p <= ends[a]
      BY <1>2, <2>4, <2>5, <2>9, EarlierTurnIsWithin
    <2>11. Boundary(a) = p
      BY <1>4, <1>6, <2>8
    <2>12. QED
      BY <1>1, <1>2, <2>6, <2>10, <2>11
  <1>7. QED
    BY <1>5, <1>6

RecoveryInv ==
    /\ IsConversation(said) /\ MostAreTimed
    /\ ends \in Seq(Nat) /\ \A n \in DOMAIN ends : ends[n] <= N
    /\ search \in [pc : {"idle", "ask", "cut", "sent"}, ask : 0 .. Len(ends),
                   found : 0 .. Len(ends)]
    /\ sent \in [from : Nat, dropped : Nat]
    /\ NothingFallsBetween

LEMMA RecoveryInitially == RecoveryInit => RecoveryInv
  <1> SUFFICES ASSUME RecoveryInit PROVE RecoveryInv
    OBVIOUS
  <1>1. IsConversation(said) /\ ends \in Seq(Nat)
    BY RecoveryConstants DEF RecoveryInit
  <1>2. MostAreTimed /\ \A n \in DOMAIN ends : ends[n] <= N
    BY DEF RecoveryInit, MostAreTimed
  <1>3. Len(ends) \in Nat
    BY <1>1
  <1>4. QED
    BY <1>1, <1>2, <1>3 DEF RecoveryInit, RecoveryInv, NotSent, NothingFallsBetween

\* What the window is cut from stands as it stood.
LEMMA StandsStill ==
    ASSUME RecoveryInv, UNCHANGED <<said, timed, ends>>
    PROVE  /\ IsConversation(said)' /\ MostAreTimed' /\ (ends \in Seq(Nat))'
           /\ (\A n \in DOMAIN ends : ends[n] <= N)'
  BY DEF RecoveryInv, MostAreTimed, Alone, N, IsConversation, Opens

LEMMA RecoverKeeps ==
    ASSUME RecoveryInv, NEW priced, NEW counted, Recover(priced, counted)
    PROVE  RecoveryInv'
  <1>1. /\ UNCHANGED <<said, timed, ends>>
        /\ search.pc = "idle" /\ Len(ends) \in Nat
        /\ search \in [pc : {"idle", "ask", "cut", "sent"}, ask : 0 .. Len(ends),
                       found : 0 .. Len(ends)]
    BY DEF Recover, RecoveryInv
  <1>2. CASE PassesThrough(priced)
    <2>1. /\ search' = [search EXCEPT !.pc = "sent"]
          /\ sent' = [from |-> 1, dropped |-> 0]
      BY <1>2 DEF Recover
    <2>2. 0 <= (IF search.found = 0 THEN 0 ELSE ends[search.found])
      BY <1>1 DEF RecoveryInv
    <2>3. NothingFallsBetween'
      BY <1>1, <2>1, <2>2 DEF NothingFallsBetween
    <2>4. QED
      BY <1>1, <2>1, <2>3, StandsStill DEF RecoveryInv
  <1>3. CASE ~PassesThrough(priced)
    <2>1. /\ search' = [pc |-> IF counted THEN "ask" ELSE "cut", ask |-> Len(ends), found |-> 0]
          /\ sent' = sent
      BY <1>3 DEF Recover
    <2>2. NothingFallsBetween'
      BY <2>1 DEF NothingFallsBetween
    <2>3. QED
      BY <1>1, <2>1, <2>2, StandsStill DEF RecoveryInv
  <1>4. QED
    BY <1>2, <1>3

LEMMA AskKeeps == RecoveryInv /\ (Ask \/ AskFails) => RecoveryInv'
  <1> SUFFICES ASSUME RecoveryInv, Ask \/ AskFails PROVE RecoveryInv'
    OBVIOUS
  <1> DEFINE oldest == IF Len(ends) > Probes THEN Len(ends) - Probes + 1 ELSE 1
             Searches == [pc : {"idle", "ask", "cut", "sent"}, ask : 0 .. Len(ends),
                          found : 0 .. Len(ends)]
  <1>1. /\ UNCHANGED <<said, timed, ends, sent>> /\ Len(ends) \in Nat /\ search \in Searches
        /\ oldest \in Nat \ {0}
    BY RecoveryConstants DEF Ask, AskFails, RecoveryInv
  <1>2. \/ search' = [search EXCEPT !.pc = "cut"]
        \/ search' = [search EXCEPT !.pc = "cut", !.found = search.ask]
        \/ search.ask >= oldest /\ search' = [search EXCEPT !.ask = search.ask - 1]
    <2>1. CASE AskFails
      BY <2>1 DEF AskFails
    <2>2. CASE Ask
      <3>1. search' = IF search.ask < oldest THEN [search EXCEPT !.pc = "cut"]
                      ELSE IF fate[search.ask] = "closed"
                           THEN [search EXCEPT !.pc = "cut", !.found = search.ask]
                      ELSE [search EXCEPT !.ask = search.ask - 1]
        BY <2>2 DEF Ask
      <3>2. QED
        <4> HIDE DEF oldest
        <4> QED
          BY <1>1, <3>1
    <2>3. QED
      BY <2>1, <2>2
  <1>3. search' \in Searches /\ search'.pc # "sent"
    <2> HIDE DEF oldest
    <2>1. search.pc = "ask"
      BY DEF Ask, AskFails
    <2>2. CASE search' = [search EXCEPT !.pc = "cut"]
      BY <1>1, <2>2
    <2>3. CASE search' = [search EXCEPT !.pc = "cut", !.found = search.ask]
      BY <1>1, <2>3
    <2>4. CASE search.ask >= oldest /\ search' = [search EXCEPT !.ask = search.ask - 1]
      <3>1. search.ask \in 0 .. Len(ends)
        BY <1>1
      <3>2. search.ask - 1 \in 0 .. Len(ends)
        BY <1>1, <2>4, <3>1
      <3>3. QED
        BY <1>1, <2>1, <2>4, <3>2
    <2>5. QED
      BY <1>2, <2>2, <2>3, <2>4
  <1>4. QED
    BY <1>1, <1>3, StandsStill DEF RecoveryInv, NothingFallsBetween

LEMMA FloorTailIsOne ==
    ASSUME NEW n \in Nat, NEW S, S \subseteq 0 .. n
    PROVE  FloorTail(S) \in S \cup {NoTail}
  <1>1. S # {} => \E s \in S : \A t \in S : t <= s
    BY HasGreatest
  <1>2. QED
    BY <1>1 DEF FloorTail

LEMMA LongestIsOne ==
    ASSUME NEW n \in Nat, NEW S, S \subseteq 0 .. n, NEW weight, NEW heaviest
    PROVE  LongestWithin(S, weight, heaviest) \in S \cup {NoTail}
  <1> DEFINE light == {s \in S : weight[s] <= heaviest}
  <1>1. light \subseteq Nat
    <2>1. \A s \in S : s \in Nat
      OBVIOUS
    <2>2. QED
      BY <2>1
  <1>2. light # {} => \E s \in light : \A t \in light : s <= t
    BY <1>1, HasLeast
  <1>3. QED
    BY <1>2, FloorTailIsOne DEF LongestWithin

\* What is sent begins after the boundary and what was dropped.
LEMMA CutKeeps ==
    ASSUME RecoveryInv, NEW priced \in BOOLEAN, Cut(priced)
    PROVE  RecoveryInv'
  <1> DEFINE boundary == IF search.found = 0 THEN 0 ELSE Boundary(search.found)
             roles == [i \in 1 .. N - boundary |-> said[boundary + i].role]
             eligible == EligibleStarts(roles, Floor)
             weight == [s \in 0 .. Len(roles) |-> Len(roles) - s]
             start == IF priced THEN LongestWithin(eligible, weight, KeepTokens)
                      ELSE FloorTail(eligible)
             kept == boundary + (IF start = NoTail THEN 0 ELSE start) + 1
             users == {i \in kept .. N : said[i].role = "user"}
             from == IF search.found # 0 THEN kept
                     ELSE IF users = {} THEN N + 1
                     ELSE CHOOSE i \in users : \A j \in users : i <= j
             end == IF search.found = 0 THEN 0 ELSE ends[search.found]
  <1>1. /\ UNCHANGED <<said, timed, ends>> /\ Len(ends) \in Nat
        /\ search \in [pc : {"idle", "ask", "cut", "sent"}, ask : 0 .. Len(ends),
                       found : 0 .. Len(ends)]
        /\ search' = [search EXCEPT !.pc = "sent"]
    <2>1. UNCHANGED <<said, timed, ends>> /\ search' = [search EXCEPT !.pc = "sent"]
      BY DEF Cut
    <2>2. QED
      BY <2>1 DEF RecoveryInv
  <1>2. sent' = [from |-> from, dropped |-> from - boundary - 1]
    BY DEF Cut
  <1>3. N \in Nat
    BY ConversationFacts DEF RecoveryInv, N
  <1>4. end \in 0 .. N /\ boundary \in 0 .. end
    <2>1. CASE search.found = 0
      BY <1>3, <2>1
    <2>2. CASE search.found # 0
      <3>1. search.found \in DOMAIN ends
        BY <1>1, <2>2 DEF RecoveryInv
      <3>2. ends[search.found] \in Nat /\ ends[search.found] <= N
        BY <3>1 DEF RecoveryInv
      <3>3. Boundary(search.found) \in 0 .. ends[search.found]
        BY <3>1, <3>2, BoundaryIsWithin DEF RecoveryInv
      <3>4. QED
        BY <1>3, <2>2, <3>2, <3>3
    <2>3. QED
      BY <2>1, <2>2
  <1> HIDE DEF boundary, end
  <1>5. Len(roles) = N - boundary /\ N - boundary \in Nat
    <2>1. N - boundary \in Nat
      BY <1>3, <1>4
    <2>2. roles \in Seq({said[boundary + i].role : i \in 1 .. N - boundary})
      BY <2>1
    <2>3. DOMAIN roles = 1 .. N - boundary
      OBVIOUS
    <2>4. QED
      <3> HIDE DEF roles
      <3> QED
        BY <2>1, <2>2, <2>3
  <1>6. eligible \subseteq 0 .. N - boundary
    BY <1>5 DEF EligibleStarts, Candidates, TurnStarts, IsEligible
  <1>7. start \in (0 .. N - boundary) \cup {NoTail}
    <2> HIDE DEF eligible, weight
    <2> QED
      BY <1>5, <1>6, FloorTailIsOne, LongestIsOne
  <1> HIDE DEF start
  <1>8. kept \in Nat /\ boundary + 1 <= kept
    BY <1>3, <1>4, <1>5, <1>7 DEF NoTail
  <1> HIDE DEF kept
  <1>9. from \in Nat /\ boundary + 1 <= from
    <2>1. CASE users # {}
      <3>1. users \subseteq Nat /\ \A i \in users : kept <= i
        BY <1>3, <1>8
      <3>2. \E i \in users : \A j \in users : i <= j
        <4> HIDE DEF users
        <4> QED
          BY <2>1, <3>1, HasLeast
      <3> DEFINE earliest == CHOOSE i \in users : \A j \in users : i <= j
      <3>3. earliest \in users
        <4> HIDE DEF users
        <4> QED
          BY <3>2
      <3>4. earliest \in Nat /\ kept <= earliest
        <4> HIDE DEF users, earliest
        <4> QED
          BY <3>1, <3>3
      <3>5. from \in {kept, earliest}
        BY <2>1
      <3>6. QED
        <4> HIDE DEF from, earliest
        <4> QED
          BY <1>3, <1>4, <1>8, <3>4, <3>5
    <2>2. CASE users = {}
      BY <1>3, <1>4, <1>8, <2>2
    <2>3. QED
      BY <2>1, <2>2
  <1> HIDE DEF from
  <1>10. sent' \in [from : Nat, dropped : Nat]
    BY <1>2, <1>3, <1>4, <1>9
  <1>11. sent'.from - sent'.dropped - 1 <= end
    BY <1>2, <1>3, <1>4, <1>9
  <1>12. search'.found = search.found
    BY <1>1
  <1>13. NothingFallsBetween'
    BY <1>1, <1>11, <1>12 DEF NothingFallsBetween, end
  <1>14. QED
    BY <1>1, <1>10, <1>13, StandsStill DEF RecoveryInv

LEMMA RecoveryKept == RecoveryInv /\ [RecoveryNext]_recoveryVars => RecoveryInv'
  <1> SUFFICES ASSUME RecoveryInv, [RecoveryNext]_recoveryVars PROVE RecoveryInv'
    OBVIOUS
  <1>1. CASE SummaryEnds \/ UNCHANGED recoveryVars
    <2>1. UNCHANGED <<said, timed, ends, search, sent>>
      BY <1>1 DEF SummaryEnds, recoveryVars
    <2>2. QED
      BY <2>1, StandsStill DEF RecoveryInv, NothingFallsBetween
  <1>2. CASE \E priced, counted \in BOOLEAN : Recover(priced, counted)
    BY <1>2, RecoverKeeps
  <1>3. CASE Ask \/ AskFails
    BY <1>3, AskKeeps
  <1>4. CASE \E priced \in BOOLEAN : Cut(priced)
    BY <1>4, CutKeeps
  <1>5. QED
    BY <1>1, <1>2, <1>3, <1>4 DEF RecoveryNext

\* However long the conversation is, however its batches and their moments lie, wherever
\* its archives end and whichever of them were summarised, a message that is not sent is
\* in the summary sent, or was dropped for its weight and counted
\* (assembleWithoutFreshSummary, boundaryBeforeArchiveEnd).
THEOREM NoGapInTheThread == RecoverySpec => []NothingFallsBetween
  <1>1. RecoveryInv => NothingFallsBetween
    BY DEF RecoveryInv
  <1>2. QED
    BY RecoveryInitially, RecoveryKept, <1>1, PTL DEF RecoverySpec
===========================================================================
