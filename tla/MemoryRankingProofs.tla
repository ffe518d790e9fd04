------------------------ MODULE MemoryRankingProofs ------------------------
(***************************************************************************)
(* What the ranking of memories gives for every list of them: a place for  *)
(* each of a set's elements in an order, a stable sort, the first of each  *)
(* key, and what may pass the limits of postProcessMemories,               *)
(* pickMemoriesForInjection and rerankMemories.                            *)
(***************************************************************************)
EXTENDS MemoryRanking, FiniteSetTheorems, SequenceTheorems, TLAPS

---------------------------------------------------------------------------
(* Putting in order *)

\* A total order on places, those before each place and the place itself.
IsOrder(P, R) ==
    /\ \A i \in P : <<i, i>> \in R
    /\ \A i, j \in P : <<i, j>> \in R \/ <<j, i>> \in R
    /\ \A i, j \in P : <<i, j>> \in R /\ <<j, i>> \in R => i = j
    /\ \A i, j, k \in P : <<i, j>> \in R /\ <<j, k>> \in R => <<i, k>> \in R

UpTo(P, R, i) == {j \in P : <<j, i>> \in R}

\* Of an order on a finite set, each element has a place of its own,
LEMMA PlacesAreTheirOwn ==
    ASSUME NEW P, IsFiniteSet(P), NEW R, IsOrder(P, R)
    PROVE  /\ \A i \in P : Cardinality(UpTo(P, R, i)) \in 1 .. Cardinality(P)
           /\ \A i, l \in P : Cardinality(UpTo(P, R, i)) = Cardinality(UpTo(P, R, l)) => i = l
  <1> DEFINE n == Cardinality(P)
  <1>1. n \in Nat
    BY FS_CardinalityType
  <1>2. ASSUME NEW i \in P
        PROVE  IsFiniteSet(UpTo(P, R, i)) /\ Cardinality(UpTo(P, R, i)) \in 1 .. n
    <2>1. UpTo(P, R, i) \in SUBSET P /\ i \in UpTo(P, R, i)
      BY DEF UpTo, IsOrder
    <2>2. IsFiniteSet(UpTo(P, R, i)) /\ Cardinality(UpTo(P, R, i)) <= n
      BY <2>1, FS_Subset
    <2>3. Cardinality(UpTo(P, R, i)) \in Nat /\ Cardinality(UpTo(P, R, i)) # 0
      BY <2>1, <2>2, FS_CardinalityType, FS_EmptySet
    <2>4. QED
      BY <1>1, <2>2, <2>3
  <1>3. ASSUME NEW i \in P, NEW l \in P, i # l, <<i, l>> \in R
        PROVE  Cardinality(UpTo(P, R, i)) # Cardinality(UpTo(P, R, l))
    <2>1. UpTo(P, R, i) \in SUBSET UpTo(P, R, l)
      BY <1>3 DEF UpTo, IsOrder
    <2>2. l \in UpTo(P, R, l) /\ l \notin UpTo(P, R, i)
      BY <1>3 DEF UpTo, IsOrder
    <2>3. UpTo(P, R, l) # UpTo(P, R, i)
      BY <2>2
    <2>4. QED
      BY <1>2, <2>1, <2>3, FS_Subset
  <1>4. \A i, l \in P : Cardinality(UpTo(P, R, i)) = Cardinality(UpTo(P, R, l)) => i = l
    BY <1>3 DEF IsOrder
  <1>5. QED
    BY <1>2, <1>4

\* and each number up to its size is the place of one element.
LEMMA EachPlaceIsTaken ==
    ASSUME NEW P, IsFiniteSet(P), NEW R, IsOrder(P, R)
    PROVE  /\ Cardinality(P) \in Nat
           /\ \A k \in 1 .. Cardinality(P) : \E i \in P : Cardinality(UpTo(P, R, i)) = k
  <1> DEFINE n == Cardinality(P)
             f == [i \in P |-> Cardinality(UpTo(P, R, i))]
  <1>1. n \in Nat
    BY FS_CardinalityType
  <1>2. f \in Injection(P, 1 .. n)
    <2>1. f \in [P -> 1 .. n]
      BY PlacesAreTheirOwn
    <2>2. \A i, l \in P : f[i] = f[l] => i = l
      BY PlacesAreTheirOwn
    <2>3. QED
      BY <2>1, <2>2 DEF Injection, IsInjective
  <1>3. IsFiniteSet(1 .. n) /\ Cardinality(1 .. n) = n
    BY <1>1, FS_Interval
  <1>4. f \in Surjection(P, 1 .. n)
    BY <1>2, <1>3, FS_Injection
  <1>5. \A k \in 1 .. n : \E i \in P : f[i] = k
    BY <1>4 DEF Surjection
  <1>6. QED
    BY <1>1, <1>5

\* t holds what s has at places of P, each of them once.
IsPick(t, s, P) ==
    \E where \in [1 .. Len(t) -> P] :
        /\ t = [k \in 1 .. Len(t) |-> s[where[k]]]
        /\ \A k, l \in 1 .. Len(t) : where[k] = where[l] => k = l

\* and leaves out none of what s has there.
HasAll(t, s, P) == \A i \in P : \E k \in 1 .. Len(t) : t[k] = s[i]

LEMMA InOrderPicks ==
    ASSUME NEW P, IsFiniteSet(P), NEW R, IsOrder(P, R), NEW s
    PROVE  /\ Len(InOrder(s, P, R)) = Cardinality(P)
           /\ IsPick(InOrder(s, P, R), s, P) /\ HasAll(InOrder(s, P, R), s, P)
  <1> DEFINE n == Cardinality(P)
             where == [k \in 1 .. n |->
                          CHOOSE i \in P : Cardinality({j \in P : <<j, i>> \in R}) = k]
             t == InOrder(s, P, R)
  <1>1. n \in Nat
    BY EachPlaceIsTaken
  <1>2. \A k \in 1 .. n : \E i \in P : Cardinality({j \in P : <<j, i>> \in R}) = k
    <2>1. \A i : UpTo(P, R, i) = {j \in P : <<j, i>> \in R}
      BY DEF UpTo
    <2>2. \A k \in 1 .. n : \E i \in P : Cardinality(UpTo(P, R, i)) = k
      BY EachPlaceIsTaken
    <2>3. QED
      BY <2>1, <2>2
  <1>3. \A k \in 1 .. n : where[k] \in P /\ Cardinality({j \in P : <<j, where[k]>> \in R}) = k
    BY <1>2
  <1>4. t = [k \in 1 .. n |-> s[where[k]]]
    BY DEF InOrder
  <1>5. \A i \in P : \E k \in 1 .. n : where[k] = i
    <2>1. ASSUME NEW i \in P PROVE Cardinality(UpTo(P, R, i)) \in 1 .. n
      BY PlacesAreTheirOwn
    <2>2. \A i, l \in P : Cardinality(UpTo(P, R, i)) = Cardinality(UpTo(P, R, l)) => i = l
      BY PlacesAreTheirOwn
    <2>3. \A i : UpTo(P, R, i) = {j \in P : <<j, i>> \in R}
      BY DEF UpTo
    <2> HIDE DEF n, where
    <2>4. ASSUME NEW i \in P PROVE where[Cardinality(UpTo(P, R, i))] = i
      BY <1>3, <2>1, <2>2, <2>3
    <2>5. QED
      BY <2>1, <2>4
  <1> HIDE DEF n, where, t
  <1>6. Len(t) = n
    BY <1>1, <1>4
  <1>7. where \in [1 .. n -> P]
    BY <1>3 DEF where
  <1>8. \A k, l \in 1 .. n : where[k] = where[l] => k = l
    BY <1>3
  <1>9. HasAll(t, s, P)
    BY <1>4, <1>5, <1>6 DEF HasAll
  <1>10. QED
    BY <1>4, <1>6, <1>7, <1>8, <1>9 DEF IsPick, n, t

LEMMA PickIsFromThere ==
    ASSUME NEW t, NEW s, NEW P, NEW T, Len(t) \in Nat, IsPick(t, s, P), \A i \in P : s[i] \in T
    PROVE  t \in Seq(T)
  <1>1. PICK where \in [1 .. Len(t) -> P] : t = [k \in 1 .. Len(t) |-> s[where[k]]]
    BY DEF IsPick
  <1>2. \A k \in 1 .. Len(t) : s[where[k]] \in T
    BY <1>1
  <1>3. QED
    BY <1>1, <1>2

LEMMA OnlyPicks ==
    ASSUME NEW T, NEW s \in Seq(T), NEW P \in SUBSET DOMAIN s
    PROVE  /\ Len(Only(s, P)) \in Nat /\ Len(Only(s, P)) <= Len(s)
           /\ IsPick(Only(s, P), s, P) /\ HasAll(Only(s, P), s, P)
  <1> DEFINE R == {p \in P \X P : p[1] <= p[2]}
  <1>1. P \subseteq Int /\ IsFiniteSet(DOMAIN s) /\ Cardinality(DOMAIN s) = Len(s)
    <2>1. Len(s) \in Nat /\ DOMAIN s = 1 .. Len(s)
      OBVIOUS
    <2>2. /\ IsFiniteSet(1 .. Len(s))
          /\ Cardinality(1 .. Len(s)) = IF 1 > Len(s) THEN 0 ELSE Len(s) - 1 + 1
      BY <2>1, FS_Interval
    <2>3. QED
      BY <2>1, <2>2
  <1>2. IsFiniteSet(P) /\ Cardinality(P) <= Len(s)
    BY <1>1, FS_Subset
  <1>3. \A i, j \in P : <<i, j>> \in R <=> i <= j
    OBVIOUS
  <1>4. IsOrder(P, R)
    <2> HIDE DEF R
    <2>1. \A i, j, k \in P : /\ i <= i /\ (i <= j \/ j <= i) /\ (i <= j /\ j <= i => i = j)
                             /\ (i <= j /\ j <= k => i <= k)
      BY <1>1
    <2>2. QED
      BY <1>3, <2>1 DEF IsOrder
  <1>5. /\ Len(InOrder(s, P, R)) = Cardinality(P)
        /\ IsPick(InOrder(s, P, R), s, P) /\ HasAll(InOrder(s, P, R), s, P)
    BY <1>2, <1>4, InOrderPicks
  <1>6. QED
    BY <1>2, <1>5, FS_CardinalityType DEF Only

LEMMA HighestPicks ==
    ASSUME NEW T, NEW s \in Seq(T), NEW weight \in [DOMAIN s -> Int]
    PROVE  /\ Len(Highest1st(s, weight)) = Len(s)
           /\ IsPick(Highest1st(s, weight), s, DOMAIN s)
           /\ HasAll(Highest1st(s, weight), s, DOMAIN s)
  <1> DEFINE P == DOMAIN s
             R == {p \in P \X P : \/ weight[p[1]] > weight[p[2]]
                                  \/ weight[p[1]] = weight[p[2]] /\ p[1] <= p[2]}
  <1>1. /\ P \subseteq Int /\ IsFiniteSet(P) /\ Cardinality(P) = Len(s)
    <2>1. Len(s) \in Nat /\ DOMAIN s = 1 .. Len(s)
      OBVIOUS
    <2>2. /\ IsFiniteSet(1 .. Len(s))
          /\ Cardinality(1 .. Len(s)) = IF 1 > Len(s) THEN 0 ELSE Len(s) - 1 + 1
      BY <2>1, FS_Interval
    <2>3. QED
      BY <2>1, <2>2
  <1>2. \A i, j \in P : <<i, j>> \in R <=> \/ weight[i] > weight[j]
                                           \/ weight[i] = weight[j] /\ i <= j
    OBVIOUS
  <1>3. IsOrder(P, R)
    <2> DEFINE Before(i, j) == weight[i] > weight[j] \/ (weight[i] = weight[j] /\ i <= j)
    <2>1. \A i \in P : weight[i] \in Int /\ i \in Int
      BY <1>1
    <2>2. \A i, j \in P : <<i, j>> \in R <=> Before(i, j)
      BY <1>2
    <2> HIDE DEF R, P
    <2>3. \A i, j \in P : (i = j => Before(i, j)) /\ (Before(i, j) \/ Before(j, i))
      BY <2>1
    <2>4. \A i, j \in P : Before(i, j) /\ Before(j, i) => i = j
      BY <2>1
    <2>5. \A i, j, k \in P : Before(i, j) /\ Before(j, k) => Before(i, k)
      BY <2>1
    <2> HIDE DEF Before
    <2>6. QED
      BY <2>2, <2>3, <2>4, <2>5 DEF IsOrder
  <1>4. /\ Len(InOrder(s, P, R)) = Cardinality(P)
        /\ IsPick(InOrder(s, P, R), s, P) /\ HasAll(InOrder(s, P, R), s, P)
    BY <1>1, <1>3, InOrderPicks
  <1>5. QED
    BY <1>1, <1>4 DEF Highest1st

LEMMA FirstOfIsFromThere ==
    ASSUME NEW T, NEW s \in Seq(T), NEW n \in Nat
    PROVE  /\ FirstOf(s, n) \in Seq(T) /\ Len(FirstOf(s, n)) <= n
           /\ Len(FirstOf(s, n)) <= Len(s)
           /\ \A k \in 1 .. Len(FirstOf(s, n)) : FirstOf(s, n)[k] = s[k]
           /\ n > 0 /\ s # <<>> => FirstOf(s, n) # <<>>
  <1> DEFINE m == IF Len(s) < n THEN Len(s) ELSE n
             t == SubSeq(s, 1, m)
  <1>1. m \in Nat /\ m <= n /\ m <= Len(s) /\ (n > 0 /\ Len(s) > 0 => m > 0)
    BY LenProperties
  <1> HIDE DEF m
  <1>2. t \in Seq(T) /\ Len(t) = m /\ \A k \in 1 .. m : t[k] = s[k]
    BY <1>1, SubSeqProperties, LenProperties
  <1>3. s # <<>> => Len(s) > 0
    BY LenProperties, EmptySeq
  <1>4. t = FirstOf(s, n)
    BY DEF FirstOf, m
  <1> HIDE DEF t
  <1>5. n > 0 /\ s # <<>> => t # <<>>
    BY <1>1, <1>2, <1>3
  <1>6. QED
    BY <1>1, <1>2, <1>4, <1>5

\* The first of each key have each key once.
LEMMA FirstsAreDistinct ==
    ASSUME NEW T, NEW s \in Seq(T), NEW key
    PROVE  /\ FirstOfEach(s, key) \in Seq(T)
           /\ \E where \in [1 .. Len(FirstOfEach(s, key)) -> DOMAIN s] :
                 /\ \A k \in 1 .. Len(FirstOfEach(s, key)) : FirstOfEach(s, key)[k] = s[where[k]]
                 /\ \A k, l \in 1 .. Len(FirstOfEach(s, key)) :
                       key[where[k]] = key[where[l]] => k = l
  <1> DEFINE P == {i \in DOMAIN s : \A j \in 1 .. (i - 1) : key[j] # key[i]}
             t == FirstOfEach(s, key)
  <1>1. Len(t) \in Nat /\ IsPick(t, s, P)
    BY OnlyPicks DEF FirstOfEach
  <1>2. \A i \in P : s[i] \in T
    OBVIOUS
  <1>3. \A i, j \in P : key[i] = key[j] => i = j
    <2> SUFFICES ASSUME NEW i \in P, NEW j \in P, key[i] = key[j], i < j PROVE FALSE
      <3>1. \A i \in P : i \in Int
        OBVIOUS
      <3>2. QED
        BY <3>1
    <2>1. i \in 1 .. (j - 1)
      OBVIOUS
    <2>2. QED
      BY <2>1
  <1> HIDE DEF t, P
  <1>4. t \in Seq(T)
    BY <1>1, <1>2, PickIsFromThere
  <1>5. PICK where \in [1 .. Len(t) -> P] :
            /\ t = [k \in 1 .. Len(t) |-> s[where[k]]]
            /\ \A k, l \in 1 .. Len(t) : where[k] = where[l] => k = l
    BY <1>1 DEF IsPick
  <1>6. where \in [1 .. Len(t) -> DOMAIN s]
    BY DEF P
  <1>7. \A k \in 1 .. Len(t) : t[k] = s[where[k]]
    BY <1>5
  <1>8. \A k, l \in 1 .. Len(t) : key[where[k]] = key[where[l]] => k = l
    BY <1>3, <1>5
  <1>9. QED
    BY <1>4, <1>6, <1>7, <1>8 DEF t

\* and none is left out.
KeepsEach(t, s, key) ==
    \A i \in DOMAIN s : \E k \in 1 .. Len(t), j \in DOMAIN s : t[k] = s[j] /\ key[j] = key[i]

LEMMA EachKeyIsKept ==
    ASSUME NEW T, NEW s \in Seq(T), NEW key
    PROVE  KeepsEach(FirstOfEach(s, key), s, key)
  <1> SUFFICES ASSUME NEW i \in DOMAIN s
               PROVE  \E k \in 1 .. Len(FirstOfEach(s, key)), j \in DOMAIN s :
                         FirstOfEach(s, key)[k] = s[j] /\ key[j] = key[i]
    BY DEF KeepsEach
  <1> DEFINE P == {a \in DOMAIN s : \A b \in 1 .. (a - 1) : key[b] # key[a]}
             Q == {a \in DOMAIN s : key[a] = key[i]}
             R == {p \in Q \X Q : p[1] <= p[2]}
  <1>1. DOMAIN s = 1 .. Len(s) /\ Len(s) \in Nat /\ Q \subseteq Int
    OBVIOUS
  <1>2. IsFiniteSet(Q) /\ Q # {}
    <2>1. IsFiniteSet(DOMAIN s)
      BY <1>1, FS_Interval
    <2>2. Q \in SUBSET DOMAIN s /\ i \in Q
      OBVIOUS
    <2> HIDE DEF Q
    <2>3. QED
      BY <2>1, <2>2, FS_Subset
  <1>3. IsOrder(Q, R)
    BY <1>1 DEF IsOrder
  <1> HIDE DEF Q, R
  <1>4. 1 \in 1 .. Cardinality(Q)
    <2>1. Cardinality(Q) \in Nat /\ Cardinality(Q) # 0
      BY <1>2, FS_EmptySet, FS_CardinalityType
    <2>2. QED
      BY <2>1
  <1>5. PICK j \in Q : Cardinality(UpTo(Q, R, j)) = 1
    <2>1. \A k \in 1 .. Cardinality(Q) : \E a \in Q : Cardinality(UpTo(Q, R, a)) = k
      BY <1>2, <1>3, EachPlaceIsTaken
    <2>2. QED
      BY <1>4, <2>1
  <1>6. UpTo(Q, R, j) = {j}
    <2>1. IsFiniteSet(UpTo(Q, R, j)) /\ j \in UpTo(Q, R, j)
      <3>1. UpTo(Q, R, j) \subseteq Q
        BY DEF UpTo
      <3>2. j \in UpTo(Q, R, j)
        BY <1>3 DEF UpTo, IsOrder
      <3>3. QED
        BY <1>2, <3>1, <3>2, FS_Subset
    <2>2. \E x : UpTo(Q, R, j) = {x}
      BY <1>5, <2>1, FS_Singleton
    <2>3. QED
      BY <2>1, <2>2
  <1>7. j \in P
    <2> SUFFICES ASSUME NEW b \in 1 .. (j - 1), key[b] = key[j] PROVE FALSE
      BY DEF Q
    <2>1. b \in DOMAIN s /\ b < j
      BY <1>1 DEF Q
    <2>2. b \in UpTo(Q, R, j)
      BY <1>1, <2>1 DEF UpTo, Q, R
    <2>3. QED
      BY <1>6, <2>1, <2>2
  <1>8. HasAll(FirstOfEach(s, key), s, P)
    BY OnlyPicks DEF FirstOfEach
  <1>9. QED
    BY <1>7, <1>8 DEF HasAll, Q

\* A sequence of what is picked, and of those that pass what P asks.
LEMMA OnlyIsFromThere ==
    ASSUME NEW T, NEW s \in Seq(T), NEW P \in SUBSET DOMAIN s, NEW U, \A i \in P : s[i] \in U
    PROVE  Only(s, P) \in Seq(U)
  BY OnlyPicks, PickIsFromThere

LEMMA HighestIsFromThere ==
    ASSUME NEW T, NEW s \in Seq(T), NEW weight \in [DOMAIN s -> Int]
    PROVE  Highest1st(s, weight) \in Seq(T) /\ Len(Highest1st(s, weight)) = Len(s)
  <1>1. Len(s) \in Nat
    BY LenProperties
  <1>2. \A i \in DOMAIN s : s[i] \in T
    OBVIOUS
  <1>3. QED
    BY <1>1, <1>2, HighestPicks, PickIsFromThere

---------------------------------------------------------------------------
(* Ranking *)

\* No folder is left of what was found.
LEMMA CandidatesAreFound ==
    ASSUME NEW T, NEW answers \in Seq(T)
    PROVE  Candidates(answers) \in Seq({m \in T : m.level # "folder"})
  <1> DEFINE key == [i \in DOMAIN answers |-> answers[i].uri]
             single == FirstOfEach(answers, key)
             P == {i \in DOMAIN single : single[i].level # "folder"}
             U == {m \in T : m.level # "folder"}
  <1>1. single \in Seq(T)
    BY FirstsAreDistinct
  <1> HIDE DEF single
  <1>2. P \in SUBSET DOMAIN single /\ \A i \in P : single[i] \in U
    BY <1>1
  <1>3. Candidates(answers) = Only(single, P)
    BY DEF Candidates, single
  <1> HIDE DEF P, U
  <1>4. Only(single, P) \in Seq(U)
    BY <1>1, <1>2, OnlyIsFromThere
  <1>5. QED
    BY <1>3, <1>4 DEF U

\* What the threshold leaves.
LEMMA ProcessedPass ==
    ASSUME NEW T, \A m \in T : m.score \in Int, NEW answers \in Seq(T), NEW limit \in Nat,
           NEW threshold
    PROVE  PostProcessed(answers, limit, threshold) \in Seq({m \in T : m.score >= threshold})
  <1> DEFINE weight == [i \in DOMAIN answers |-> answers[i].score]
             sorted == Highest1st(answers, weight)
             P == {i \in DOMAIN sorted : sorted[i].score >= threshold}
             over == Only(sorted, P)
             key == [i \in DOMAIN over |-> TwinKey(over[i])]
             single == FirstOfEach(over, key)
             U == {m \in T : m.score >= threshold}
  <1>1. weight \in [DOMAIN answers -> Int]
    <2>1. \A i \in DOMAIN answers : answers[i] \in T
      OBVIOUS
    <2>2. QED
      BY <2>1
  <1> HIDE DEF weight
  <1>2. sorted \in Seq(T)
    BY <1>1, HighestIsFromThere
  <1> HIDE DEF sorted
  <1>3. P \in SUBSET DOMAIN sorted /\ \A i \in P : sorted[i] \in U
    BY <1>2
  <1> HIDE DEF P, U
  <1>4. over \in Seq(U)
    BY <1>2, <1>3, OnlyIsFromThere
  <1> HIDE DEF over, key
  <1>5. single \in Seq(U)
    BY <1>4, FirstsAreDistinct
  <1>6. PostProcessed(answers, limit, threshold) = FirstOf(single, limit)
    BY DEF PostProcessed, single, key, over, P, sorted, weight
  <1> HIDE DEF single
  <1>7. FirstOf(single, limit) \in Seq(U)
    BY <1>5, FirstOfIsFromThere
  <1>8. QED
    BY <1>6, <1>7 DEF U

\* What the threshold leaves has, if nothing is cut off, a twin of each that passed.
LEMMA ProcessedKeepsATwin ==
    ASSUME NEW T, \A m \in T : m.score \in Int, NEW answers \in Seq(T), NEW threshold,
           NEW limit \in Nat, Len(answers) <= limit,
           NEW i \in DOMAIN answers, answers[i].score >= threshold
    PROVE  \E k \in DOMAIN PostProcessed(answers, limit, threshold) :
              TwinKey(PostProcessed(answers, limit, threshold)[k]) = TwinKey(answers[i])
  <1> DEFINE weight == [j \in DOMAIN answers |-> answers[j].score]
             sorted == Highest1st(answers, weight)
             P == {j \in DOMAIN sorted : sorted[j].score >= threshold}
             over == Only(sorted, P)
             key == [j \in DOMAIN over |-> TwinKey(over[j])]
             single == FirstOfEach(over, key)
  <1>1. weight \in [DOMAIN answers -> Int]
    <2>1. \A j \in DOMAIN answers : answers[j] \in T
      OBVIOUS
    <2>2. QED
      BY <2>1
  <1> HIDE DEF weight
  <1>2. sorted \in Seq(T) /\ Len(sorted) = Len(answers)
    BY <1>1, HighestIsFromThere
  <1>3. PICK a \in 1 .. Len(sorted) : sorted[a] = answers[i]
    BY <1>1, HighestPicks DEF HasAll
  <1> HIDE DEF sorted
  <1>4. a \in P /\ P \in SUBSET DOMAIN sorted
    BY <1>2, <1>3
  <1>5. /\ over \in Seq(T) /\ Len(over) <= Len(sorted)
        /\ \E b \in 1 .. Len(over) : over[b] = sorted[a]
    <2>1. \A j \in P : sorted[j] \in T
      BY <1>2
    <2> HIDE DEF P
    <2>2. QED
      BY <1>2, <1>4, <2>1, OnlyPicks, OnlyIsFromThere DEF HasAll
  <1> HIDE DEF P, over
  <1>6. PICK b \in DOMAIN over : over[b] = answers[i]
    BY <1>3, <1>5
  <1> HIDE DEF key
  <1>7. PICK k \in 1 .. Len(single), c \in DOMAIN over :
            single[k] = over[c] /\ key[c] = key[b]
    <2>1. over \in Seq(T)
      BY <1>5
    <2>2. KeepsEach(single, over, key)
      BY <2>1, EachKeyIsKept
    <2>3. QED
      BY <1>6, <2>2 DEF KeepsEach
  <1>8. TwinKey(single[k]) = TwinKey(answers[i])
    BY <1>6, <1>7 DEF key
  <1>9. single \in Seq(T) /\ Len(single) <= Len(over)
    <2>1. single \in Seq(T)
      BY <1>5, FirstsAreDistinct
    <2>2. Len(single) <= Len(over)
      BY <1>5, OnlyPicks DEF FirstOfEach
    <2>3. QED
      BY <2>1, <2>2
  <1>10. PostProcessed(answers, limit, threshold) = FirstOf(single, limit)
    BY DEF PostProcessed, single, key, over, P, sorted, weight
  <1> HIDE DEF single
  <1>11. FirstOf(single, limit) = single
    <2>1. Len(single) <= limit /\ Len(single) \in Nat
      <3>1. Len(single) \in Nat /\ Len(over) \in Nat /\ Len(answers) \in Nat
        BY <1>5, <1>9
      <3>2. QED
        BY <1>2, <1>5, <1>9, <3>1
    <2>2. (IF Len(single) < limit THEN Len(single) ELSE limit) = Len(single)
      BY <2>1
    <2>3. SubSeq(single, 1, Len(single)) = single
      BY <1>9
    <2>4. QED
      BY <2>2, <2>3 DEF FirstOf
  <1>12. k \in DOMAIN single
    BY <1>7, <1>9
  <1>13. QED
    BY <1>8, <1>10, <1>11, <1>12

LEMMA PickedOnce ==
    ASSUME NEW T \in SUBSET MemoryRecords, NEW candidates \in Seq(T), NEW limit \in Nat,
           NEW threshold
    PROVE  /\ Picked(candidates, limit, threshold) \in Seq(T)
           /\ Len(Picked(candidates, limit, threshold)) <= limit
           /\ Distinct(Picked(candidates, limit, threshold))
  <1> DEFINE weight == [i \in DOMAIN candidates |-> Rank(candidates[i])]
             sorted == Highest1st(candidates, weight)
             key == [i \in DOMAIN sorted |-> TextKey(sorted[i])]
             single == FirstOfEach(sorted, key)
             leaves == {i \in DOMAIN single : single[i].level = "leaf"}
             others == {i \in (DOMAIN single) \ leaves : single[i].score >= threshold}
             a == Only(single, leaves)
             b == Only(single, others)
             c == a \o b
  <1>1. weight \in [DOMAIN candidates -> Int]
    <2>1. \A i \in DOMAIN candidates : candidates[i] \in MemoryRecords
      OBVIOUS
    <2>2. \A i \in DOMAIN candidates : candidates[i].score \in Int /\ candidates[i].boost \in Int
      BY <2>1 DEF MemoryRecords
    <2>3. \A i \in DOMAIN candidates : Rank(candidates[i]) \in Int
      BY <2>2 DEF Rank
    <2>4. QED
      BY <2>3
  <1> HIDE DEF weight
  <1>2. sorted \in Seq(T)
    BY <1>1, HighestIsFromThere
  <1>3. PICK where \in [1 .. Len(single) -> DOMAIN sorted] :
            /\ \A k \in 1 .. Len(single) : single[k] = sorted[where[k]]
            /\ \A k, l \in 1 .. Len(single) : key[where[k]] = key[where[l]] => k = l
    <2> HIDE DEF sorted, key
    <2>1. QED
      BY <1>2, FirstsAreDistinct
  <1>4. single \in Seq(T)
    <2> HIDE DEF sorted, key
    <2>1. QED
      BY <1>2, FirstsAreDistinct
  <1> HIDE DEF sorted
  <1>5. \A k \in 1 .. Len(single) : key[where[k]] = TextKey(single[k])
    BY <1>3
  <1> HIDE DEF single, key
  <1>6. \A k, l \in 1 .. Len(single) : TextKey(single[k]) = TextKey(single[l]) => k = l
    BY <1>3, <1>5
  <1>7. /\ leaves \in SUBSET DOMAIN single /\ others \in SUBSET DOMAIN single
        /\ leaves \cap others = {}
        /\ DOMAIN single = 1 .. Len(single)
        /\ \A i \in DOMAIN single : single[i] \in T
    BY <1>4
  <1> HIDE DEF leaves, others
  <1>8. /\ Len(a) \in Nat /\ IsPick(a, single, leaves) /\ a \in Seq(T)
        /\ Len(b) \in Nat /\ IsPick(b, single, others) /\ b \in Seq(T)
    BY <1>4, <1>7, OnlyPicks, OnlyIsFromThere
  <1>9. PICK p \in [1 .. Len(a) -> leaves] :
            /\ a = [k \in 1 .. Len(a) |-> single[p[k]]]
            /\ \A k, l \in 1 .. Len(a) : p[k] = p[l] => k = l
    BY <1>8 DEF IsPick
  <1>10. PICK q \in [1 .. Len(b) -> others] :
            /\ b = [k \in 1 .. Len(b) |-> single[q[k]]]
            /\ \A k, l \in 1 .. Len(b) : q[k] = q[l] => k = l
    BY <1>8 DEF IsPick
  <1> HIDE DEF a, b
  <1>11. /\ c \in Seq(T) /\ Len(c) = Len(a) + Len(b)
         /\ \A k \in 1 .. (Len(a) + Len(b)) : c[k] = IF k <= Len(a) THEN a[k] ELSE b[k - Len(a)]
    BY <1>8, ConcatProperties
  <1> HIDE DEF c
  <1> DEFINE place(k) == IF k <= Len(a) THEN p[k] ELSE q[k - Len(a)]
  <1>12. ASSUME NEW k \in 1 .. Len(c)
         PROVE  /\ k <= Len(a) => k \in 1 .. Len(a)
                /\ ~(k <= Len(a)) => k - Len(a) \in 1 .. Len(b)
    BY <1>8, <1>11
  <1>13. ASSUME NEW k \in 1 .. Len(c)
         PROVE  c[k] = single[place(k)] /\ place(k) \in 1 .. Len(single)
    <2>1. CASE k <= Len(a)
      <3>1. c[k] = a[k] /\ k \in 1 .. Len(a)
        BY <1>11, <1>12, <2>1
      <3>2. a[k] = single[p[k]] /\ p[k] \in leaves
        BY <1>9, <3>1
      <3>3. QED
        BY <1>7, <2>1, <3>1, <3>2
    <2>2. CASE ~(k <= Len(a))
      <3>1. c[k] = b[k - Len(a)] /\ k - Len(a) \in 1 .. Len(b)
        BY <1>11, <1>12, <2>2
      <3>2. b[k - Len(a)] = single[q[k - Len(a)]] /\ q[k - Len(a)] \in others
        BY <1>10, <3>1
      <3>3. QED
        BY <1>7, <2>2, <3>1, <3>2
    <2>3. QED
      BY <2>1, <2>2
  <1>14. ASSUME NEW k \in 1 .. Len(c), NEW l \in 1 .. Len(c), place(k) = place(l)
         PROVE  k = l
    <2>1. CASE k <= Len(a) /\ l <= Len(a)
      BY <1>9, <1>12, <1>14, <2>1
    <2>2. CASE ~(k <= Len(a)) /\ ~(l <= Len(a))
      <3>1. k - Len(a) = l - Len(a)
        BY <1>10, <1>12, <1>14, <2>2
      <3>2. QED
        BY <1>8, <1>11, <3>1
    <2>3. CASE (k <= Len(a)) /\ ~(l <= Len(a))
      <3>1. place(k) = p[k] /\ p[k] \in leaves
        BY <1>9, <1>12, <2>3
      <3>2. place(l) = q[l - Len(a)] /\ q[l - Len(a)] \in others
        BY <1>10, <1>12, <2>3
      <3> HIDE DEF place
      <3>3. QED
        BY <1>7, <1>14, <3>1, <3>2
    <2>4. CASE ~(k <= Len(a)) /\ (l <= Len(a))
      <3>1. place(l) = p[l] /\ p[l] \in leaves
        BY <1>9, <1>12, <2>4
      <3>2. place(k) = q[k - Len(a)] /\ q[k - Len(a)] \in others
        BY <1>10, <1>12, <2>4
      <3> HIDE DEF place
      <3>3. QED
        BY <1>7, <1>14, <3>1, <3>2
    <2>5. QED
      BY <2>1, <2>2, <2>3, <2>4
  <1> HIDE DEF place
  <1>15. \A k, l \in 1 .. Len(c) : TextKey(c[k]) = TextKey(c[l]) => k = l
    BY <1>6, <1>13, <1>14
  <1> DEFINE t == FirstOf(c, limit)
  <1>16. /\ t \in Seq(T) /\ Len(t) <= limit /\ Len(t) <= Len(c)
         /\ \A k \in 1 .. Len(t) : t[k] = c[k]
    BY <1>11, FirstOfIsFromThere
  <1>17. Len(t) \in Nat /\ Len(c) \in Nat
    BY <1>11, <1>16, LenProperties
  <1> HIDE DEF t
  <1>18. \A k \in 1 .. Len(t) : k \in 1 .. Len(c)
    BY <1>16, <1>17
  <1>19. Distinct(t)
    BY <1>15, <1>16, <1>18 DEF Distinct
  <1>20. t = Picked(candidates, limit, threshold)
    BY DEF t, c, a, b, leaves, others, single, key, sorted, weight, Picked
  <1>21. QED
    BY <1>16, <1>19, <1>20

\* What the reranker scored, its best over the floor, if anything.
LEMMA RerankedPass ==
    ASSUME NEW T \in SUBSET MemoryRecords, NEW candidates \in Seq(T), NEW relevance,
           \A i \in DOMAIN candidates : relevance[candidates[i].uri] \in Int,
           NEW keep \in Nat, keep > 0, NEW floor \in Int
    PROVE  LET t == Reranked(candidates, relevance, keep, floor)
           IN /\ t \in Seq(MemoryRecords)
              /\ Len(t) <= keep
              /\ \A i \in 1 .. Len(t) : \E m \in T : t[i].level = m.level /\ t[i].uri = m.uri
              /\ t # <<>> => t[1].score >= floor
  <1> DEFINE weight == [i \in DOMAIN candidates |-> relevance[candidates[i].uri]]
             order == Highest1st(candidates, weight)
             best == FirstOf(order, keep)
             scored == [i \in DOMAIN best |-> [best[i] EXCEPT !.score = relevance[best[i].uri]]]
             t == Reranked(candidates, relevance, keep, floor)
  <1>1. t = IF candidates = <<>> \/ relevance[order[1].uri] < floor THEN <<>> ELSE scored
    BY DEF Reranked
  <1>2. weight \in [DOMAIN candidates -> Int]
    OBVIOUS
  <1> HIDE DEF weight
  <1> DEFINE U == {m \in T : relevance[m.uri] \in Int}
  <1>3. candidates \in Seq(U)
    <2>1. \A i \in DOMAIN candidates : candidates[i] \in U
      OBVIOUS
    <2>2. QED
      BY <2>1
  <1>4. order \in Seq(U) /\ Len(order) = Len(candidates)
    <2> HIDE DEF U
    <2>1. QED
      BY <1>2, <1>3, HighestIsFromThere
  <1> HIDE DEF order, t
  <1>5. /\ best \in Seq(U) /\ Len(best) <= keep
        /\ \A k \in 1 .. Len(best) : best[k] = order[k]
    <2> HIDE DEF U
    <2>1. QED
      BY <1>4, FirstOfIsFromThere
  <1> HIDE DEF best
  <1>6. DOMAIN best = 1 .. Len(best) /\ Len(best) \in Nat /\ \A i \in DOMAIN best : best[i] \in U
    BY <1>5
  <1>7. ASSUME NEW i \in DOMAIN best
        PROVE  /\ scored[i] \in MemoryRecords /\ scored[i].score = relevance[best[i].uri]
               /\ scored[i].level = best[i].level /\ scored[i].uri = best[i].uri
    <2>1. best[i] \in MemoryRecords /\ relevance[best[i].uri] \in Int
      BY <1>6
    <2>2. scored[i] = [best[i] EXCEPT !.score = relevance[best[i].uri]]
      OBVIOUS
    <2> HIDE DEF scored
    <2>3. QED
      BY <2>1, <2>2 DEF MemoryRecords
  <1>8. scored \in Seq(MemoryRecords) /\ Len(scored) = Len(best)
    <2>1. DOMAIN scored = 1 .. Len(best)
      BY <1>6
    <2>2. scored \in [1 .. Len(best) -> MemoryRecords]
      BY <1>6, <1>7
    <2>3. QED
      BY <1>6, <2>2
  <1> HIDE DEF scored
  <1>9. CASE candidates = <<>> \/ relevance[order[1].uri] < floor
    <2>1. t = <<>>
      BY <1>1, <1>9
    <2>2. QED
      BY <2>1 DEF t
  <1>10. CASE ~(candidates = <<>> \/ relevance[order[1].uri] < floor)
    <2>1. t = scored
      BY <1>1, <1>10
    <2>2. \A i \in 1 .. Len(t) : \E m \in T : t[i].level = m.level /\ t[i].uri = m.uri
      BY <1>6, <1>7, <1>8, <2>1
    <2>3. t # <<>> => t[1].score >= floor
      <3>1. SUFFICES ASSUME t # <<>> PROVE t[1].score >= floor
        OBVIOUS
      <3>2. Len(scored) \in Nat \ {0}
        BY <1>8, <2>1, <3>1, LenProperties, EmptySeq
      <3>3. 1 \in DOMAIN best /\ best[1] \in U
        BY <1>6, <1>8, <3>2
      <3>4. best[1] = order[1] /\ relevance[best[1].uri] \in Int
        BY <1>5, <1>6, <3>3
      <3>5. scored[1].score = relevance[order[1].uri] /\ relevance[order[1].uri] \in Int
        BY <1>7, <3>3, <3>4
      <3>6. QED
        BY <1>10, <2>1, <3>5
    <2>4. QED
      BY <1>5, <1>8, <2>1, <2>2, <2>3 DEF t
  <1>11. QED
    BY <1>9, <1>10

=============================================================================
