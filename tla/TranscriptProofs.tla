--------------------------- MODULE TranscriptProofs ---------------------------
(***************************************************************************)
(* What becomes of a conversation, whatever is said in it, however long it *)
(* is and whatever the tools are called: the hook and the queue record the *)
(* same; what the model is sent alternates, loses nothing that was said    *)
(* and has every result with its call; and asked for a price, no two calls *)
(* are named alike.                                                        *)
(*                                                                         *)
(* The code's loops are folds.  A fold is proved about by the values it    *)
(* takes (IsRun), climbing from one to the next (Climb); what two windows  *)
(* have in common is what a reader of each, itself a fold, makes of it.    *)
(***************************************************************************)
EXTENDS Transcript, FiniteSetTheorems, SequenceTheorems, WellFoundedInduction, TLAPS

---------------------------------------------------------------------------
(* Loops, and the values they take                                         *)

LEMMA Least ==
    ASSUME NEW S, S \subseteq Nat, S # {}
    PROVE  \E x \in S : \A y \in S : x <= y
  <1>1. PICK x \in S : \A y \in S : ~(<<y, x>> \in OpToRel(<, Nat))
    BY NatLessThanWellFounded, WFMin
  <1>2. \A y \in S : ~(y < x)
    BY <1>1 DEF OpToRel
  <1>3. QED
    BY <1>2

LEMMA Climb ==
    ASSUME NEW N \in Nat, NEW T, 0 \in T,
           \A n \in 0 .. N - 1 : n \in T => n + 1 \in T
    PROVE  \A n \in 0 .. N : n \in T
<1> DEFINE Out == {n \in 0 .. N : n \notin T}
<1>1. SUFFICES ASSUME Out # {} PROVE FALSE
  OBVIOUS
<1>2. PICK n \in Out : \A k \in Out : n <= k
  BY <1>1, Least, Out \subseteq Nat
<1>3. n \in Nat /\ n # 0 /\ n - 1 \in 0 .. N - 1 /\ n - 1 + 1 = n
  BY <1>2
<1>4. n - 1 \notin Out
  BY <1>2, <1>3
<1> QED
  BY <1>2, <1>3, <1>4

\* The steps of a loop over members of M, with values in S.
Loops(S, M) == [S \X M -> S]

LEMMA Runs ==
    ASSUME NEW S, NEW M, NEW F \in Loops(S, M), NEW b \in S, NEW s \in Seq(M)
    PROVE  \E acc \in [0 .. Len(s) -> S] :
              /\ acc[0] = b
              /\ \A n \in 0 .. Len(s) - 1 : acc[n + 1] = F[<<acc[n], s[n + 1]>>]
<1> DEFINE Good(n, acc) == /\ acc \in [0 .. n -> S]
                           /\ acc[0] = b
                           /\ \A k \in 0 .. n - 1 : acc[k + 1] = F[<<acc[k], s[k + 1]>>]
           T == {n \in 0 .. Len(s) : \E acc : Good(n, acc)}
<1>1. Len(s) \in Nat /\ \A n \in 0 .. Len(s) - 1 : s[n + 1] \in M
  BY ElementOfSeq, LenProperties
<1>2. 0 \in T
  <2>1. Good(0, [k \in 0 .. 0 |-> b])
    OBVIOUS
  <2>2. 0 \in 0 .. Len(s)
    BY <1>1
  <2> HIDE DEF Good
  <2> QED
    BY <2>1, <2>2
<1>3. \A n \in 0 .. Len(s) - 1 : n \in T => n + 1 \in T
  <2>1. SUFFICES ASSUME NEW n \in 0 .. Len(s) - 1, n \in T PROVE n + 1 \in T
    OBVIOUS
  <2>2. PICK acc : Good(n, acc)
    BY <2>1
  <2> DEFINE more == [k \in 0 .. n + 1 |-> IF k = n + 1 THEN F[<<acc[n], s[n + 1]>>] ELSE acc[k]]
  <2>3. F[<<acc[n], s[n + 1]>>] \in S
    BY <1>1, <2>1, <2>2 DEF Loops
  <2>4. more \in [0 .. n + 1 -> S] /\ more[0] = b
    BY <1>1, <2>1, <2>2, <2>3
  <2>5. ASSUME NEW k \in 0 .. n PROVE more[k + 1] = F[<<more[k], s[k + 1]>>]
    <3>1. k + 1 \in 0 .. n + 1 /\ k \in 0 .. n + 1 /\ k # n + 1 /\ (k = n \/ k \in 0 .. n - 1)
      BY <2>1
    <3>2. more[k] = acc[k] /\ more[k + 1] = IF k + 1 = n + 1 THEN F[<<acc[n], s[n + 1]>>] ELSE acc[k + 1]
      BY <3>1
    <3>3. CASE k = n
      BY <3>2, <3>3
    <3>4. CASE k \in 0 .. n - 1
      <4>1. acc[k + 1] = F[<<acc[k], s[k + 1]>>] /\ k + 1 # n + 1
        BY <2>1, <2>2, <3>4
      <4> QED
        BY <3>2, <4>1
    <3> QED
      BY <3>1, <3>3, <3>4
  <2> HIDE DEF more
  <2>6. Good(n + 1, more)
    BY <1>1, <2>1, <2>4, <2>5
  <2> QED
    BY <1>1, <2>1, <2>6
<1>4. Len(s) \in T
  <2> HIDE DEF T
  <2>1. \A n \in 0 .. Len(s) : n \in T
    BY <1>1, <1>2, <1>3, Climb
  <2> QED
    BY <1>1, <2>1
<1> QED
  BY <1>1, <1>4

\* A loop whose step is a function.
Fold(F, b, s) ==
    LET acc[n \in 0 .. Len(s)] == IF n = 0 THEN b ELSE F[<<acc[n - 1], s[n]>>]
    IN  acc[Len(s)]

\* The values of a loop, step by step.
IsRun(acc, F, b, s, S) ==
    /\ acc \in [0 .. Len(s) -> S]
    /\ acc[0] = b
    /\ \A n \in 0 .. Len(s) - 1 : acc[n + 1] = F[<<acc[n], s[n + 1]>>]

LEMMA RunStep ==
    ASSUME NEW acc, NEW F, NEW b, NEW S, NEW M, NEW s \in Seq(M), IsRun(acc, F, b, s, S),
           NEW n \in 0 .. Len(s) - 1
    PROVE  /\ n \in 0 .. Len(s) /\ n + 1 \in 0 .. Len(s) /\ n + 1 \in 1 .. Len(s)
           /\ acc[n] \in S /\ acc[n + 1] \in S /\ s[n + 1] \in M
           /\ acc[n + 1] = F[<<acc[n], s[n + 1]>>]
<1>1. Len(s) \in Nat
  BY LenProperties
<1>2. n \in 0 .. Len(s) /\ n + 1 \in 0 .. Len(s) /\ n + 1 \in 1 .. Len(s)
  BY <1>1
<1>3. s[n + 1] \in M
  BY <1>2, ElementOfSeq
<1> QED
  BY <1>2, <1>3 DEF IsRun

LEMMA RunStart ==
    ASSUME NEW acc, NEW F, NEW b, NEW S, NEW M, NEW s \in Seq(M), IsRun(acc, F, b, s, S)
    PROVE  /\ Len(s) \in Nat /\ 0 \in 0 .. Len(s) /\ Len(s) \in 0 .. Len(s)
           /\ acc[0] = b /\ b \in S /\ acc[Len(s)] \in S
  BY LenProperties DEF IsRun

LEMMA Agree ==
    ASSUME NEW N \in Nat, NEW a, NEW c, a[0] = c[0],
           \A n \in 0 .. N - 1 : a[n] = c[n] => a[n + 1] = c[n + 1]
    PROVE  a[N] = c[N]
<1> DEFINE T == {n \in 0 .. N : a[n] = c[n]}
<1>1. 0 \in T /\ \A n \in 0 .. N - 1 : n \in T => n + 1 \in T
  OBVIOUS
<1>2. \A n \in 0 .. N : n \in T
  <2> HIDE DEF T
  <2> QED
    BY <1>1, Climb
<1> QED
  BY <1>2

LEMMA FoldRun ==
    ASSUME NEW S, NEW M, NEW F \in Loops(S, M), NEW b \in S, NEW s \in Seq(M)
    PROVE  \E acc : IsRun(acc, F, b, s, S) /\ Fold(F, b, s) = acc[Len(s)]
<1> DEFINE Body(a) == [n \in 0 .. Len(s) |-> IF n = 0 THEN b ELSE F[<<a[n - 1], s[n]>>]]
           chosen == CHOOSE a : a = Body(a)
<1>1. PICK acc \in [0 .. Len(s) -> S] :
          /\ acc[0] = b
          /\ \A n \in 0 .. Len(s) - 1 : acc[n + 1] = F[<<acc[n], s[n + 1]>>]
  BY Runs
<1>2. Len(s) \in Nat
  BY LenProperties
<1>3. acc = Body(acc)
  <2>1. ASSUME NEW n \in 0 .. Len(s), n # 0 PROVE acc[n] = F[<<acc[n - 1], s[n]>>]
    <3>1. n - 1 \in 0 .. Len(s) - 1 /\ n - 1 + 1 = n
      BY <1>2, <2>1
    <3> QED
      BY <1>1, <3>1
  <2> QED
    BY <1>1, <2>1
<1>4. chosen = Body(chosen)
  BY <1>3
<1>5. Fold(F, b, s) = chosen[Len(s)]
  BY DEF Fold
<1>6. chosen[Len(s)] = acc[Len(s)]
  <2> HIDE DEF chosen
  <2>1. chosen[0] = acc[0]
    BY <1>1, <1>2, <1>4
  <2>2. ASSUME NEW n \in 0 .. Len(s) - 1, chosen[n] = acc[n] PROVE chosen[n + 1] = acc[n + 1]
    <3>1. n + 1 \in 0 .. Len(s) /\ n + 1 # 0 /\ n + 1 - 1 = n
      BY <1>2
    <3>2. chosen[n + 1] = F[<<chosen[n], s[n + 1]>>]
      BY <1>4, <3>1
    <3> QED
      BY <1>1, <2>2, <3>2
  <2> QED
    BY <1>2, <2>1, <2>2, Agree
<1> QED
  BY <1>1, <1>5, <1>6 DEF IsRun

LEMMA FoldIs ==
    ASSUME NEW S, NEW M, NEW F \in Loops(S, M), NEW b \in S, NEW s \in Seq(M),
           NEW a, a[0] = b, \A n \in 0 .. Len(s) - 1 : a[n] \in S => a[n + 1] = F[<<a[n], s[n + 1]>>]
    PROVE  Fold(F, b, s) = a[Len(s)]
<1>1. PICK acc : IsRun(acc, F, b, s, S) /\ Fold(F, b, s) = acc[Len(s)]
  BY FoldRun
<1>2. Len(s) \in Nat
  BY LenProperties
<1>3. a[0] = acc[0]
  BY <1>1 DEF IsRun
<1>4. ASSUME NEW n \in 0 .. Len(s) - 1, a[n] = acc[n] PROVE a[n + 1] = acc[n + 1]
  <2>1. acc[n] \in S
    BY <1>1, <1>2 DEF IsRun
  <2> QED
    BY <1>1, <1>4, <2>1 DEF IsRun
<1>5. a[Len(s)] = acc[Len(s)]
  BY <1>2, <1>3, <1>4, Agree
<1> QED
  BY <1>1, <1>5

LEMMA FoldType ==
    ASSUME NEW S, NEW M, NEW F \in Loops(S, M), NEW b \in S, NEW s \in Seq(M)
    PROVE  Fold(F, b, s) \in S
<1>1. PICK acc : IsRun(acc, F, b, s, S) /\ Fold(F, b, s) = acc[Len(s)]
  BY FoldRun
<1> QED
  BY <1>1, LenProperties DEF IsRun

LEMMA FoldEmpty ==
    ASSUME NEW S, NEW M, NEW F \in Loops(S, M), NEW b \in S
    PROVE  Fold(F, b, <<>>) = b
<1>1. ASSUME NEW e \in Seq(M), Len(e) = 0 PROVE Fold(F, b, e) = b
  <2>1. PICK acc : IsRun(acc, F, b, e, S) /\ Fold(F, b, e) = acc[Len(e)]
    BY FoldRun
  <2> QED
    BY <1>1, <2>1 DEF IsRun
<1>2. <<>> \in Seq(M) /\ Len(<<>>) = 0
  BY EmptySeq
<1> QED
  BY <1>1, <1>2

LEMMA FoldConcat ==
    ASSUME NEW S, NEW M, NEW F \in Loops(S, M), NEW b \in S,
           NEW s \in Seq(M), NEW t \in Seq(M)
    PROVE  Fold(F, b, s \o t) = Fold(F, Fold(F, b, s), t)
<1> DEFINE u == s \o t
           middle == Fold(F, b, s)
<1>1. /\ u \in Seq(M) /\ Len(s) \in Nat /\ Len(t) \in Nat /\ Len(u) = Len(s) + Len(t)
      /\ \A i \in 1 .. Len(u) : u[i] = IF i <= Len(s) THEN s[i] ELSE t[i - Len(s)]
  BY ConcatProperties, LenProperties
<1> HIDE DEF u
<1>2. middle \in S
  BY FoldType
<1>3. PICK x : IsRun(x, F, b, s, S) /\ middle = x[Len(s)]
  BY FoldRun
<1> HIDE DEF middle
<1>4. PICK y : IsRun(y, F, middle, t, S) /\ Fold(F, middle, t) = y[Len(t)]
  BY <1>2, FoldRun
<1> DEFINE a == [n \in 0 .. Len(u) |-> IF n <= Len(s) THEN x[n] ELSE y[n - Len(s)]]
<1>5. a[0] = b
  BY <1>1, <1>3 DEF IsRun
<1>6. ASSUME NEW n \in 0 .. Len(u) - 1 PROVE a[n + 1] = F[<<a[n], u[n + 1]>>]
  <2>1. n \in 0 .. Len(u) /\ n + 1 \in 0 .. Len(u) /\ n + 1 \in 1 .. Len(u)
    BY <1>1
  <2>2. CASE n < Len(s)
    <3>1. n \in 0 .. Len(s) - 1 /\ n + 1 <= Len(s) /\ n <= Len(s)
      BY <1>1, <2>2
    <3>2. a[n] = x[n] /\ a[n + 1] = x[n + 1] /\ u[n + 1] = s[n + 1]
      BY <1>1, <2>1, <3>1
    <3> QED
      BY <1>3, <3>1, <3>2 DEF IsRun
  <2>3. CASE n >= Len(s)
    <3> DEFINE k == n - Len(s)
    <3>1. k \in 0 .. Len(t) - 1 /\ k + 1 = n + 1 - Len(s) /\ ~(n + 1 <= Len(s))
      BY <1>1, <2>1, <2>3
    <3>2. a[n + 1] = y[k + 1] /\ u[n + 1] = t[k + 1]
      BY <1>1, <2>1, <3>1
    <3>3. a[n] = y[k]
      <4>1. CASE n = Len(s)
        BY <1>1, <1>3, <1>4, <2>1, <4>1 DEF IsRun
      <4>2. CASE n # Len(s)
        BY <1>1, <2>1, <2>3, <4>2
      <4> QED
        BY <4>1, <4>2
    <3> QED
      BY <1>4, <3>1, <3>2, <3>3 DEF IsRun
  <2> QED
    BY <1>1, <2>2, <2>3
<1>7. a[Len(u)] = y[Len(t)]
  <2>1. CASE Len(t) = 0
    BY <1>1, <1>3, <1>4, <2>1 DEF IsRun
  <2>2. CASE Len(t) # 0
    BY <1>1, <2>2
  <2> QED
    BY <2>1, <2>2
<1> HIDE DEF a
<1>8. Fold(F, b, u) = a[Len(u)]
  <2>1. \A n \in 0 .. Len(u) - 1 : a[n] \in S => a[n + 1] = F[<<a[n], u[n + 1]>>]
    BY <1>6
  <2>2. u \in Seq(M)
    BY <1>1
  <2> QED
    BY <1>5, <2>1, <2>2, FoldIs
<1> QED
  BY <1>4, <1>7, <1>8 DEF u, middle

LEMMA FoldAppend ==
    ASSUME NEW S, NEW M, NEW F \in Loops(S, M), NEW b \in S,
           NEW s \in Seq(M), NEW x \in M
    PROVE  Fold(F, b, Append(s, x)) = F[<<Fold(F, b, s), x>>]
<1> DEFINE before == Fold(F, b, s)
           one == <<x>>
<1>1. before \in S
  BY FoldType
<1>2. Append(s, x) = s \o one /\ one \in Seq(M) /\ Len(one) = 1 /\ one[1] = x
  BY AppendIsConcat
<1> HIDE DEF one
<1>3. Fold(F, b, Append(s, x)) = Fold(F, before, one)
  BY <1>2, FoldConcat
<1> HIDE DEF before
<1>4. PICK acc : IsRun(acc, F, before, one, S) /\ Fold(F, before, one) = acc[Len(one)]
  BY <1>1, <1>2, FoldRun
<1>5. acc[0 + 1] = F[<<acc[0], one[0 + 1]>>]
  BY <1>2, <1>4 DEF IsRun
<1> QED
  BY <1>2, <1>3, <1>4, <1>5 DEF IsRun, before

---------------------------------------------------------------------------
(* What is recorded of a transcript cut before one of the model's messages *)

Roles == {"user", "assistant", "toolResult"}
Shapes == [role : Roles, text : {"none", "text", "tag"}, calls : Seq(Ids),
           errored : BOOLEAN, of : Ids \cup {""}, said : Seq(Nat)]
Messages == {m \in Shapes : /\ m.role = "toolResult" => m.of \in Ids
                            /\ m.role # "assistant" => m.calls = <<>>}

Records == [role : {"user", "assistant"}, text : BOOLEAN, tools : Seq(Ids)]
Rounds == {a \in [out : Seq(Records), round : BOOLEAN] : a.round => a.out # <<>>}
NoRound == [out |-> <<>>, round |-> FALSE]

\* A loop that appends a piece for every member of M.
Gathers(F, G, R, M) ==
    /\ F \in Loops(Seq(R), M)
    /\ G \in [M -> Seq(R)]
    /\ \A p \in Seq(R), m \in M : F[<<p, m>>] = p \o G[m]

LEMMA GatherFrom ==
    ASSUME NEW R, NEW M, NEW F, NEW G, Gathers(F, G, R, M),
           NEW p \in Seq(R), NEW t \in Seq(M)
    PROVE  Fold(F, p, t) = p \o Fold(F, <<>>, t)
<1>1. Len(t) \in Nat /\ F \in Loops(Seq(R), M)
  BY LenProperties DEF Gathers
<1>2. PICK x : IsRun(x, F, p, t, Seq(R)) /\ Fold(F, p, t) = x[Len(t)]
  BY <1>1, FoldRun
<1> DEFINE e == <<>>
<1>e. e \in Seq(R) /\ p \o e = p
  BY EmptySeq, ConcatEmptySeq
<1> HIDE DEF e
<1>3. PICK y : IsRun(y, F, e, t, Seq(R)) /\ Fold(F, e, t) = y[Len(t)]
  BY <1>1, <1>e, FoldRun
<1> DEFINE T == {n \in 0 .. Len(t) : x[n] = p \o y[n]}
<1>4. 0 \in T
  <2>1. x[0] = p /\ y[0] = e
    BY <1>2, <1>3 DEF IsRun
  <2> QED
    BY <1>1, <1>e, <2>1
<1>5. ASSUME NEW n \in 0 .. Len(t) - 1, n \in T PROVE n + 1 \in T
  <2>1. x[n] \in Seq(R) /\ y[n] \in Seq(R) /\ t[n + 1] \in M
    BY <1>2, <1>3, RunStep
  <2> DEFINE g == G[t[n + 1]]
             z == y[n]
  <2>g. g \in Seq(R) /\ z \in Seq(R)
    BY <2>1 DEF Gathers
  <2>2. x[n + 1] = x[n] \o g /\ y[n + 1] = y[n] \o g
    BY <1>1, <1>2, <1>3, <2>1 DEF IsRun, Gathers
  <2> HIDE DEF g, z
  <2>3. (p \o z) \o g = p \o (z \o g)
    BY <2>g, ConcatAssociative
  <2>4. x[n] = p \o y[n]
    BY <1>5
  <2>5. x[n + 1] = p \o y[n + 1]
    BY <2>2, <2>3, <2>4 DEF g, z
  <2> QED
    BY <1>1, <2>5
<1>6. \A n \in 0 .. Len(t) : n \in T
  <2> HIDE DEF T
  <2> QED
    BY <1>1, <1>4, <1>5, Climb
<1>7. x[Len(t)] = p \o y[Len(t)]
  BY <1>1, <1>6
<1> QED
  BY <1>2, <1>3, <1>7 DEF e

LEMMA One == ASSUME NEW S, NEW x \in S PROVE <<x>> \in Seq(S) /\ Len(<<x>>) = 1 /\ <<x>>[1] = x
  OBVIOUS

LEMMA LastOfConcat ==
    ASSUME NEW R, NEW p \in Seq(R), NEW q \in Seq(R), q # <<>>, NEW v \in R
    PROVE  [p \o q EXCEPT ![Len(p \o q)] = v] = p \o [q EXCEPT ![Len(q)] = v]
<1> DEFINE w == p \o q
           changed == [q EXCEPT ![Len(q)] = v]
<1>1. /\ w \in Seq(R) /\ Len(p) \in Nat /\ Len(q) \in Nat /\ Len(w) = Len(p) + Len(q)
      /\ \A i \in 1 .. Len(w) : w[i] = IF i <= Len(p) THEN p[i] ELSE q[i - Len(p)]
  BY ConcatProperties, LenProperties
<1>2. Len(q) \in 1 .. Len(q) /\ Len(w) \in 1 .. Len(w)
  <2>1. Len(q) # 0
    BY EmptySeq
  <2> QED
    BY <1>1, <2>1
<1> HIDE DEF w
<1> DEFINE left == [w EXCEPT ![Len(w)] = v]
<1>3. /\ left \in Seq(R) /\ Len(left) = Len(w)
      /\ \A i \in 1 .. Len(w) : left[i] = IF i = Len(w) THEN v ELSE w[i]
  BY <1>1, <1>2, ExceptSeq
<1>4. /\ changed \in Seq(R) /\ Len(changed) = Len(q)
      /\ \A i \in 1 .. Len(q) : changed[i] = IF i = Len(q) THEN v ELSE q[i]
  BY <1>1, <1>2, ExceptSeq
<1> HIDE DEF left, changed
<1> DEFINE right == p \o changed
<1>5. /\ right \in Seq(R) /\ Len(right) = Len(w)
      /\ \A i \in 1 .. Len(w) : right[i] = IF i <= Len(p) THEN p[i] ELSE changed[i - Len(p)]
  <2>1. /\ right \in Seq(R) /\ Len(right) = Len(p) + Len(changed)
        /\ \A i \in 1 .. Len(p) + Len(changed) :
              right[i] = IF i <= Len(p) THEN p[i] ELSE changed[i - Len(p)]
    BY <1>4, ConcatProperties
  <2> HIDE DEF right
  <2> QED
    BY <1>1, <1>4, <2>1
<1> HIDE DEF right
<1>6. ASSUME NEW i \in 1 .. Len(w) PROVE left[i] = right[i]
  <2>1. CASE i <= Len(p)
    <3>1. i # Len(w)
      BY <1>1, <1>2, <2>1
    <3>2. left[i] = w[i]
      BY <1>3, <3>1
    <3>3. w[i] = p[i]
      BY <1>1, <2>1
    <3>4. right[i] = p[i]
      BY <1>5, <2>1
    <3> QED
      BY <3>2, <3>3, <3>4
  <2>2. CASE ~(i <= Len(p))
    <3>1. i - Len(p) \in 1 .. Len(q) /\ (i - Len(p) = Len(q) <=> i = Len(w))
      BY <1>1, <2>2
    <3> QED
      BY <1>1, <1>3, <1>4, <1>5, <2>2, <3>1
  <2> QED
    BY <2>1, <2>2
<1>7. left = right
  BY <1>3, <1>5, <1>6, SeqEqual
<1> QED
  BY <1>7 DEF left, right, changed, w

LEMMA ExtractedType == ASSUME NEW m \in Messages PROVE Extracted(m) \in Seq(Records)
<1>1. m \in Shapes /\ (m.role = "toolResult" => m.of \in Ids)
  BY DEF Messages
<1>2. m.role \in Roles
  BY <1>1 DEF Shapes
<1>3. CASE m.role = "toolResult"
  <2>1. Recorded("assistant", FALSE, <<m.of>>) \in Records
    <3>1. <<m.of>> \in Seq(Ids)
      BY <1>1, <1>3
    <3> QED
      BY <3>1 DEF Recorded, Records
  <2>2. Extracted(m) \in {<<>>, <<Recorded("assistant", FALSE, <<m.of>>)>>}
    BY <1>3 DEF Extracted
  <2> QED
    BY <2>1, <2>2, One, EmptySeq
<1>4. CASE m.role # "toolResult"
  <2>1. <<>> \in Seq(Ids) /\ <<>> \in Seq(Records)
    BY EmptySeq
  <2>2. Recorded("assistant", FALSE, <<>>) \in Records /\ Recorded(m.role, TRUE, <<>>) \in Records
    BY <1>2, <1>4, <2>1 DEF Recorded, Records, Roles
  <2>3. Extracted(m) \in {<<Recorded("assistant", FALSE, <<>>)>>, <<Recorded(m.role, TRUE, <<>>)>>, <<>>}
    BY <1>4 DEF Extracted
  <2> QED
    BY <2>1, <2>2, <2>3, One
<1> QED
  BY <1>3, <1>4

LEMMA CoalesceType == ASSUME NEW a \in Rounds, NEW m \in Records PROVE Coalesce(a, m) \in Rounds
<1> DEFINE n == Len(a.out)
           last == a.out[n]
           longer == [last EXCEPT !.tools = @ \o m.tools]
<1>1. a \in [out : Seq(Records), round : BOOLEAN] /\ (a.round => a.out # <<>>)
  BY DEF Rounds
<1>2. a.out \in Seq(Records) /\ a.round \in BOOLEAN
  BY <1>1
<1>3. IsToolOnly(m) \in BOOLEAN
  BY DEF IsToolOnly, Records
<1>4. CASE IsToolOnly(m) /\ a.round
  <2>1. n \in Nat /\ n # 0 /\ n \in 1 .. n
    BY <1>1, <1>2, <1>4, EmptySeq, LenProperties
  <2>2. last \in Records
    BY <1>2, <2>1, ElementOfSeq
  <2>3. last.tools \o m.tools \in Seq(Ids)
    BY <2>2, ConcatProperties DEF Records
  <2>4. longer \in Records
    BY <2>2, <2>3 DEF Records
  <2> HIDE DEF longer
  <2>5. [a.out EXCEPT ![n] = longer] \in Seq(Records) /\ Len([a.out EXCEPT ![n] = longer]) = n
    BY <1>2, <2>1, <2>4, ExceptSeq
  <2>6. Coalesce(a, m) = [a EXCEPT !.out = [a.out EXCEPT ![n] = longer]]
    BY <1>1, <1>4 DEF Coalesce, longer
  <2>7. [a.out EXCEPT ![n] = longer] # <<>>
    BY <2>1, <2>5, EmptySeq
  <2> QED
    BY <1>1, <2>5, <2>6, <2>7 DEF Rounds
<1>5. CASE ~(IsToolOnly(m) /\ a.round)
  <2>1. Append(a.out, m) \in Seq(Records) /\ Append(a.out, m) # <<>>
    BY <1>2, AppendProperties
  <2>2. Coalesce(a, m) = [out |-> IF IsBoundary(m) THEN a.out ELSE Append(a.out, m), round |-> IsToolOnly(m)]
    BY <1>5 DEF Coalesce
  <2>3. ~(IsBoundary(m) /\ IsToolOnly(m))
    BY DEF IsBoundary, IsToolOnly
  <2> QED
    BY <1>2, <1>3, <2>1, <2>2, <2>3 DEF Rounds
<1> QED
  BY <1>4, <1>5

CoalesceStep == [p \in Rounds \X Records |-> Coalesce(p[1], p[2])]

LEMMA CoalesceLoops ==
    /\ CoalesceStep \in Loops(Rounds, Records)
    /\ \A a \in Rounds, m \in Records : CoalesceStep[<<a, m>>] = Coalesce(a, m)
    /\ NoRound \in Rounds
<1>1. ASSUME NEW p \in Rounds \X Records PROVE Coalesce(p[1], p[2]) \in Rounds
  BY CoalesceType
<1>2. <<>> \in Seq(Records)
  BY EmptySeq
<1> QED
  BY <1>1, <1>2 DEF CoalesceStep, Loops, NoRound, Rounds

LEMMA CoalescedFold ==
    ASSUME NEW x \in Seq(Records)
    PROVE  Coalesced(x) = Fold(CoalesceStep, NoRound, x).out
<1> DEFINE Body(a) == [n \in 0 .. Len(x) |-> IF n = 0 THEN NoRound ELSE Coalesce(a[n - 1], x[n])]
           chosen == CHOOSE a : a = Body(a)
<1>1. PICK acc : IsRun(acc, CoalesceStep, NoRound, x, Rounds)
                 /\ Fold(CoalesceStep, NoRound, x) = acc[Len(x)]
  BY CoalesceLoops, FoldRun
<1>2. acc = Body(acc)
  <2>1. ASSUME NEW n \in 0 .. Len(x), n # 0 PROVE acc[n] = Coalesce(acc[n - 1], x[n])
    <3> DEFINE k == n - 1
    <3>1. k \in 0 .. Len(x) - 1 /\ k + 1 = n
      BY <2>1, LenProperties
    <3> HIDE DEF k
    <3>2. acc[k] \in Rounds /\ x[k + 1] \in Records /\ acc[k + 1] = CoalesceStep[<<acc[k], x[k + 1]>>]
      BY <1>1, <3>1, RunStep
    <3>3. acc[k + 1] = Coalesce(acc[k], x[k + 1])
      BY <3>2, CoalesceLoops
    <3> QED
      BY <3>1, <3>3 DEF k
  <2> QED
    BY <1>1, <2>1 DEF IsRun
<1>3. chosen = Body(chosen)
  BY <1>2
<1>4. Folded(Coalesce, [out |-> <<>>, round |-> FALSE], x) = chosen[Len(x)]
  BY DEF Folded, NoRound
<1> HIDE DEF chosen
<1>5. chosen[Len(x)] = acc[Len(x)]
  <2>1. chosen[0] = acc[0]
    BY <1>1, <1>3, RunStart
  <2>2. ASSUME NEW n \in 0 .. Len(x) - 1, chosen[n] = acc[n] PROVE chosen[n + 1] = acc[n + 1]
    <3>1. n + 1 \in 0 .. Len(x) /\ n + 1 # 0 /\ n + 1 - 1 = n
      BY LenProperties
    <3>2. chosen[n + 1] = Coalesce(chosen[n], x[n + 1])
      BY <1>3, <3>1
    <3>3. acc[n] \in Rounds /\ x[n + 1] \in Records /\ acc[n + 1] = CoalesceStep[<<acc[n], x[n + 1]>>]
      BY <1>1, RunStep
    <3>4. acc[n + 1] = Coalesce(acc[n], x[n + 1])
      BY <3>3, CoalesceLoops
    <3> QED
      BY <2>2, <3>2, <3>4
  <2> QED
    BY <2>1, <2>2, LenProperties, Agree
<1> QED
  BY <1>1, <1>4, <1>5 DEF Coalesced

ExtractPiece == [m \in Messages |-> Extracted(m)]
ExtractStep == [p \in Seq(Records) \X Messages |-> p[1] \o Extracted(p[2])]
Extracts(transcript) == Fold(ExtractStep, <<>>, transcript)

LEMMA ExtractGathers == Gathers(ExtractStep, ExtractPiece, Records, Messages)
<1>1. ExtractPiece \in [Messages -> Seq(Records)]
  BY ExtractedType DEF ExtractPiece
<1>2. \A p \in Seq(Records), m \in Messages : ExtractStep[<<p, m>>] = p \o ExtractPiece[m]
  BY DEF ExtractStep, ExtractPiece
<1>3. ASSUME NEW p \in Seq(Records) \X Messages PROVE p[1] \o Extracted(p[2]) \in Seq(Records)
  <2>1. p[1] \in Seq(Records) /\ Extracted(p[2]) \in Seq(Records)
    BY ExtractedType
  <2> QED
    BY <2>1, ConcatProperties
<1> QED
  BY <1>1, <1>2, <1>3 DEF Gathers, Loops, ExtractStep

LEMMA StoredFold ==
    ASSUME NEW s \in Seq(Messages)
    PROVE  /\ Extracts(s) \in Seq(Records)
           /\ Stored(s) = Fold(CoalesceStep, NoRound, Extracts(s)).out
<1> DEFINE Body(a) == [n \in 0 .. Len(s) |-> IF n = 0 THEN <<>> ELSE a[n - 1] \o Extracted(s[n])]
           chosen == CHOOSE a : a = Body(a)
<1> DEFINE e == <<>>
<1>e. e \in Seq(Records)
  BY EmptySeq
<1> HIDE DEF e
<1>1. PICK acc : IsRun(acc, ExtractStep, e, s, Seq(Records))
                 /\ Fold(ExtractStep, e, s) = acc[Len(s)]
  BY <1>e, ExtractGathers, FoldRun DEF Gathers
<1>s. \A p \in Seq(Records), m \in Messages : ExtractStep[<<p, m>>] = p \o Extracted(m)
  BY DEF ExtractStep
<1>2. acc = Body(acc)
  <2>1. ASSUME NEW n \in 0 .. Len(s), n # 0 PROVE acc[n] = acc[n - 1] \o Extracted(s[n])
    <3> DEFINE k == n - 1
    <3>1. k \in 0 .. Len(s) - 1 /\ k + 1 = n
      BY <2>1, LenProperties
    <3> HIDE DEF k
    <3>2. acc[k] \in Seq(Records) /\ s[k + 1] \in Messages /\ acc[k + 1] = ExtractStep[<<acc[k], s[k + 1]>>]
      BY <1>1, <3>1, RunStep
    <3>3. acc[k + 1] = acc[k] \o Extracted(s[k + 1])
      BY <1>s, <3>2
    <3> QED
      BY <3>1, <3>3 DEF k
  <2> QED
    BY <1>1, <2>1 DEF IsRun, e
<1>3. chosen = Body(chosen)
  BY <1>2
<1>4. Gathered(Extracted, s) = chosen[Len(s)]
  BY DEF Folded, Gathered
<1> HIDE DEF chosen
<1>5. chosen[Len(s)] = acc[Len(s)]
  <2>1. chosen[0] = acc[0]
    BY <1>1, <1>3, RunStart DEF e
  <2>2. ASSUME NEW n \in 0 .. Len(s) - 1, chosen[n] = acc[n] PROVE chosen[n + 1] = acc[n + 1]
    <3>1. n + 1 \in 0 .. Len(s) /\ n + 1 # 0 /\ n + 1 - 1 = n
      BY LenProperties
    <3>2. chosen[n + 1] = chosen[n] \o Extracted(s[n + 1])
      BY <1>3, <3>1
    <3>3. acc[n] \in Seq(Records) /\ s[n + 1] \in Messages /\ acc[n + 1] = ExtractStep[<<acc[n], s[n + 1]>>]
      BY <1>1, RunStep
    <3>4. acc[n + 1] = acc[n] \o Extracted(s[n + 1])
      BY <1>s, <3>3
    <3> QED
      BY <2>2, <3>2, <3>4
  <2> QED
    BY <2>1, <2>2, LenProperties, Agree
<1>6. Gathered(Extracted, s) = Extracts(s)
  BY <1>1, <1>4, <1>5 DEF e, Extracts
<1>7. Extracts(s) \in Seq(Records)
  BY <1>1, RunStart DEF Extracts, e
<1> QED
  BY <1>6, <1>7, CoalescedFold DEF Stored

LEMMA ExtractsConcat ==
    ASSUME NEW s \in Seq(Messages), NEW t \in Seq(Messages)
    PROVE  Extracts(s \o t) = Extracts(s) \o Extracts(t)
<1> DEFINE e == <<>>
<1>e. e \in Seq(Records)
  BY EmptySeq
<1> HIDE DEF e
<1>1. Fold(ExtractStep, e, s \o t) = Fold(ExtractStep, Fold(ExtractStep, e, s), t)
  BY <1>e, ExtractGathers, FoldConcat DEF Gathers
<1>2. Fold(ExtractStep, e, s) \in Seq(Records)
  BY StoredFold DEF Extracts, e
<1>3. Fold(ExtractStep, Fold(ExtractStep, e, s), t) = Fold(ExtractStep, e, s) \o Fold(ExtractStep, e, t)
  BY <1>2, ExtractGathers, GatherFrom DEF e
<1> QED
  BY <1>1, <1>3 DEF Extracts, e

LEMMA ExtractsOne ==
    ASSUME NEW m \in Messages
    PROVE  Extracts(<<m>>) = Extracted(m)
<1> DEFINE e == <<>>
<1>e. e \in Seq(Records) /\ Append(<<>>, m) = <<m>>
  BY EmptySeq
<1>1. e \in Seq(Messages)
  BY EmptySeq
<1>2. Fold(ExtractStep, e, e) = e
  BY <1>e, ExtractGathers, FoldEmpty DEF Gathers
<1>3. e \o Extracted(m) = Extracted(m)
  BY ExtractedType, ConcatEmptySeq
<1> HIDE DEF e
<1>4. Fold(ExtractStep, e, Append(e, m)) = ExtractStep[<<Fold(ExtractStep, e, e), m>>]
  BY <1>e, <1>1, ExtractGathers, FoldAppend DEF Gathers
<1>5. ExtractStep[<<e, m>>] = e \o Extracted(m)
  BY <1>e DEF ExtractStep
<1> QED
  BY <1>e, <1>2, <1>3, <1>4, <1>5 DEF Extracts, e

LEMMA CoalesceFrom ==
    ASSUME NEW y \in Seq(Records), y # <<>>, ~IsToolOnly(y[1]), NEW a \in Rounds
    PROVE  Fold(CoalesceStep, a, y).out = a.out \o Fold(CoalesceStep, NoRound, y).out
<1>1. PICK x : IsRun(x, CoalesceStep, a, y, Rounds) /\ Fold(CoalesceStep, a, y) = x[Len(y)]
  BY CoalesceLoops, FoldRun
<1>2. PICK z : IsRun(z, CoalesceStep, NoRound, y, Rounds) /\ Fold(CoalesceStep, NoRound, y) = z[Len(y)]
  BY CoalesceLoops, FoldRun
<1>3. Len(y) \in Nat /\ Len(y) # 0
  BY EmptySeq, LenProperties
<1> DEFINE T == {n \in 0 .. Len(y) : n # 0 => /\ x[n].out = a.out \o z[n].out
                                              /\ x[n].round = z[n].round}
<1>4. 0 \in T
  BY <1>3
<1>5. ASSUME NEW n \in 0 .. Len(y) - 1, n \in T PROVE n + 1 \in T
  <2> DEFINE m == y[n + 1]
             p == x[n]
             q == z[n]
  <2>1. /\ p \in Rounds /\ m \in Records /\ q \in Rounds /\ n + 1 \in 0 .. Len(y)
        /\ x[n + 1] = CoalesceStep[<<p, m>>] /\ z[n + 1] = CoalesceStep[<<q, m>>]
    <3>1. /\ x[n] \in Rounds /\ y[n + 1] \in Records /\ n + 1 \in 0 .. Len(y)
          /\ x[n + 1] = CoalesceStep[<<x[n], y[n + 1]>>]
      BY <1>1, RunStep
    <3>2. z[n] \in Rounds /\ z[n + 1] = CoalesceStep[<<z[n], y[n + 1]>>]
      BY <1>2, RunStep
    <3> QED
      BY <3>1, <3>2
  <2>3. n # 0 => p.out = a.out \o q.out /\ p.round = q.round
    BY <1>5
  <2>4. n = 0 => p = a /\ q = NoRound /\ ~IsToolOnly(m)
    BY <1>1, <1>2 DEF IsRun
  <2> HIDE DEF m, p, q
  <2>5. x[n + 1] = Coalesce(p, m) /\ z[n + 1] = Coalesce(q, m)
    BY <2>1, CoalesceLoops
  <2>6. p.out = a.out \o q.out
    <3> DEFINE o == a.out
    <3>1. o \in Seq(Records)
      BY DEF Rounds
    <3> HIDE DEF o
    <3>2. o \o <<>> = o
      BY <3>1, ConcatEmptySeq
    <3>3. CASE n = 0
      <4>1. p.out = o /\ q.out = <<>>
        BY <2>4, <3>3 DEF NoRound, o
      <4> QED
        BY <3>2, <4>1 DEF o
    <3> QED
      BY <2>3, <3>3
  <2>t. /\ p \in [out : Seq(Records), round : BOOLEAN]
        /\ q \in [out : Seq(Records), round : BOOLEAN] /\ (q.round => q.out # <<>>)
        /\ a.out \in Seq(Records)
    BY <2>1 DEF Rounds
  <2> DEFINE o == a.out
             po == p.out
             qo == q.out
  <2>o. o \in Seq(Records) /\ po \in Seq(Records) /\ qo \in Seq(Records) /\ po = o \o qo
    BY <2>t, <2>6
  <2> HIDE DEF o, po, qo
  <2>7. CASE IsToolOnly(m) /\ p.round
    <3>1. q.round /\ p.round = q.round
      BY <2>3, <2>4, <2>7
    <3>2. qo # <<>> /\ Len(qo) \in 1 .. Len(qo) /\ Len(qo) \in Nat /\ Len(o) \in Nat
      <4>1. qo # <<>>
        BY <2>t, <3>1 DEF qo
      <4>2. Len(qo) \in Nat /\ Len(qo) # 0
        BY <2>o, <4>1, EmptySeq, LenProperties
      <4> QED
        BY <2>o, <4>1, <4>2, LenProperties
    <3> DEFINE last == qo[Len(qo)]
               v == [last EXCEPT !.tools = @ \o m.tools]
    <3>3. po[Len(po)] = last /\ last \in Records
      <4>1. /\ Len(po) = Len(o) + Len(qo)
            /\ \A i \in 1 .. Len(o) + Len(qo) : po[i] = IF i <= Len(o) THEN o[i] ELSE qo[i - Len(o)]
        BY <2>o, ConcatProperties
      <4>2. Len(po) \in 1 .. Len(o) + Len(qo) /\ ~(Len(po) <= Len(o)) /\ Len(po) - Len(o) = Len(qo)
        BY <3>2, <4>1
      <4>3. last \in Records
        BY <2>o, <3>2, ElementOfSeq
      <4> QED
        BY <4>1, <4>2, <4>3
    <3>4. v \in Records
      <4>1. last.tools \o m.tools \in Seq(Ids)
        BY <2>1, <3>3, ConcatProperties DEF Records
      <4> QED
        BY <3>3, <4>1 DEF Records
    <3>5. [po EXCEPT ![Len(po)] = v] = o \o [qo EXCEPT ![Len(qo)] = v]
      <4> HIDE DEF v
      <4>1. o \in Seq(Records) /\ qo \in Seq(Records) /\ qo # <<>> /\ v \in Records /\ po = o \o qo
        BY <2>o, <3>2, <3>4
      <4>2. [o \o qo EXCEPT ![Len(o \o qo)] = v] = o \o [qo EXCEPT ![Len(qo)] = v]
        BY <4>1, LastOfConcat
      <4> QED
        BY <4>1, <4>2
    <3>6. Coalesce(p, m) = [p EXCEPT !.out = [po EXCEPT ![Len(po)] = v]]
      BY <2>t, <2>7, <3>3 DEF Coalesce, po
    <3>7. Coalesce(q, m) = [q EXCEPT !.out = [qo EXCEPT ![Len(qo)] = v]]
      BY <2>t, <2>7, <3>1 DEF Coalesce, qo
    <3> HIDE DEF v
    <3>8. Coalesce(p, m).out = o \o Coalesce(q, m).out /\ Coalesce(p, m).round = Coalesce(q, m).round
      BY <2>t, <3>1, <3>5, <3>6, <3>7
    <3> QED
      BY <2>1, <2>5, <3>8 DEF p, q, o
  <2>8. CASE ~(IsToolOnly(m) /\ p.round)
    <3>1. ~(IsToolOnly(m) /\ q.round)
      BY <2>3, <2>4, <2>8
    <3>2. Coalesce(p, m) = [out |-> IF IsBoundary(m) THEN p.out ELSE Append(p.out, m), round |-> IsToolOnly(m)]
      BY <2>8 DEF Coalesce
    <3>3. Coalesce(q, m) = [out |-> IF IsBoundary(m) THEN q.out ELSE Append(q.out, m), round |-> IsToolOnly(m)]
      BY <3>1 DEF Coalesce
    <3>4. Append(po, m) = o \o Append(qo, m)
      <4> DEFINE one == <<m>>
      <4>1. one \in Seq(Records)
        BY <2>1, One
      <4>2. Append(po, m) = po \o one /\ Append(qo, m) = qo \o one
        BY <2>1, <2>o, AppendIsConcat
      <4> HIDE DEF one
      <4>4. o \in Seq(Records) /\ qo \in Seq(Records)
        BY <2>o
      <4>3. (o \o qo) \o one = o \o (qo \o one)
        BY <4>1, <4>4, ConcatAssociative, SMTT(30)
      <4> QED
        BY <2>o, <4>2, <4>3
    <3>5. Coalesce(p, m).out = o \o Coalesce(q, m).out /\ Coalesce(p, m).round = Coalesce(q, m).round
      <4>r. Coalesce(p, m).round = Coalesce(q, m).round
        BY <3>2, <3>3
      <4>1. CASE IsBoundary(m)
        <5>1. Coalesce(p, m).out = po /\ Coalesce(q, m).out = qo
          BY <3>2, <3>3, <4>1 DEF po, qo
        <5> QED
          BY <2>o, <4>r, <5>1
      <4>2. CASE ~IsBoundary(m)
        <5>1. Coalesce(p, m).out = Append(po, m) /\ Coalesce(q, m).out = Append(qo, m)
          BY <3>2, <3>3, <4>2 DEF po, qo
        <5> QED
          BY <3>4, <4>r, <5>1
      <4> QED
        BY <4>1, <4>2
    <3> QED
      BY <2>1, <2>5, <3>5 DEF p, q, o
  <2> QED
    BY <2>7, <2>8
<1>6. \A n \in 0 .. Len(y) : n \in T
  <2> HIDE DEF T
  <2> QED
    BY <1>3, <1>4, <1>5, Climb
<1>7. x[Len(y)].out = a.out \o z[Len(y)].out
  <2>1. Len(y) \in 0 .. Len(y)
    BY <1>3
  <2>2. Len(y) \in T
    BY <1>6, <2>1
  <2> QED
    BY <1>3, <2>2
<1> QED
  BY <1>1, <1>2, <1>7

LEMMA StoredInParts ==
    ASSUME NEW s \in Seq(Messages), NEW m \in Messages, NEW t \in Seq(Messages),
           m.role = "assistant", m.text \in {"none", "text"}, m.text = "none" => m.calls # <<>>
    PROVE  Stored(s \o (<<m>> \o t)) = Stored(s) \o Stored(<<m>> \o t)
<1> DEFINE one == <<m>>
           u == one \o t
<1>1. one \in Seq(Messages) /\ u \in Seq(Messages) /\ s \o u \in Seq(Messages)
  BY One, ConcatProperties
<1>2. PICK r : r \in Records /\ Extracted(m) = <<r>> /\ ~IsToolOnly(r)
  <2>1. <<>> \in Seq(Ids)
    BY EmptySeq
  <2>2. CASE m.text = "none"
    <3>1. Extracted(m) = <<Recorded("assistant", FALSE, <<>>)>>
      BY <2>2 DEF Extracted
    <3>2. Recorded("assistant", FALSE, <<>>) \in Records /\ ~IsToolOnly(Recorded("assistant", FALSE, <<>>))
      BY <2>1 DEF Recorded, Records, IsToolOnly
    <3> QED
      BY <3>1, <3>2
  <2>3. CASE m.text = "text"
    <3>1. Extracted(m) = <<Recorded("assistant", TRUE, <<>>)>>
      BY <2>3 DEF Extracted
    <3>2. Recorded("assistant", TRUE, <<>>) \in Records /\ ~IsToolOnly(Recorded("assistant", TRUE, <<>>))
      BY <2>1 DEF Recorded, Records, IsToolOnly
    <3> QED
      BY <3>1, <3>2
  <2> QED
    BY <2>2, <2>3
<1> HIDE DEF one
<1>3. Extracts(u) = <<r>> \o Extracts(t)
  <2>1. Extracts(one) = <<r>>
    BY <1>2, ExtractsOne DEF one
  <2> QED
    BY <1>1, <2>1, ExtractsConcat
<1> HIDE DEF u
<1> DEFINE y == Extracts(u)
           x == Extracts(s)
<1>4. x \in Seq(Records) /\ y \in Seq(Records) /\ Extracts(t) \in Seq(Records)
  BY <1>1, StoredFold
<1>5. y # <<>> /\ y[1] = r
  <2> DEFINE first == <<r>>
  <2>1. first \in Seq(Records) /\ Len(first) = 1 /\ first[1] = r
    BY <1>2, One
  <2>2. y = first \o Extracts(t)
    BY <1>3
  <2> HIDE DEF first, y
  <2>3. Len(y) = 1 + Len(Extracts(t)) /\ y[1] = first[1]
    <3> DEFINE rest == Extracts(t)
    <3>1. rest \in Seq(Records) /\ y = first \o rest /\ Len(rest) \in Nat
      BY <1>4, <2>2, LenProperties
    <3> HIDE DEF rest
    <3>2. /\ Len(y) = Len(first) + Len(rest)
          /\ \A i \in 1 .. Len(first) + Len(rest) :
                y[i] = IF i <= Len(first) THEN first[i] ELSE rest[i - Len(first)]
      BY <2>1, <3>1, ConcatProperties
    <3> QED
      BY <2>1, <3>1, <3>2 DEF rest
  <2>4. Len(y) # 0
    BY <1>4, <2>3, LenProperties
  <2> QED
    BY <2>1, <2>3, <2>4, EmptySeq
<1>6. Extracts(s \o u) = x \o y
  BY <1>1, ExtractsConcat
<1> HIDE DEF x, y
<1> DEFINE a == Fold(CoalesceStep, NoRound, x)
<1>7. a \in Rounds
  BY <1>4, CoalesceLoops, FoldType
<1>8. Fold(CoalesceStep, NoRound, x \o y) = Fold(CoalesceStep, a, y)
  BY <1>4, CoalesceLoops, FoldConcat
<1> HIDE DEF a
<1>9. Fold(CoalesceStep, a, y).out = a.out \o Fold(CoalesceStep, NoRound, y).out
  BY <1>2, <1>4, <1>5, <1>7, CoalesceFrom
<1>10. /\ Stored(s \o u) = Fold(CoalesceStep, NoRound, x \o y).out
       /\ Stored(s) = a.out /\ Stored(u) = Fold(CoalesceStep, NoRound, y).out
  BY <1>1, <1>6, StoredFold DEF a, x, y
<1> QED
  BY <1>8, <1>9, <1>10 DEF u, one

---------------------------------------------------------------------------
(* The transcript heard                                                    *)

\* Everything heard says or calls something; a result is said somewhere.
TranscriptInv ==
    /\ kind \in {"server", "live"}
    /\ messages \in Seq(Messages)
    /\ \A i \in DOMAIN messages :
          /\ messages[i].role = "assistant" =>
                messages[i].text \in Texts /\ (messages[i].text = "none" => messages[i].calls # <<>>)
          /\ messages[i].role = "toolResult" => messages[i].said # <<>>

LEMMA HeardKeeps ==
    ASSUME TranscriptInv, NEW m \in Messages, Heard(m), UNCHANGED kind,
           m.role = "assistant" => m.text \in Texts /\ (m.text = "none" => m.calls # <<>>),
           m.role = "toolResult" => m.said # <<>>
    PROVE  TranscriptInv'
<1>1. messages \in Seq(Messages) /\ messages' = Append(messages, m) /\ Len(messages) \in Nat
  BY LenProperties DEF TranscriptInv, Heard
<1>2. /\ messages' \in Seq(Messages) /\ Len(messages') = Len(messages) + 1
      /\ \A i \in 1 .. Len(messages) : messages'[i] = messages[i]
      /\ messages'[Len(messages) + 1] = m
  BY <1>1, AppendProperties
<1>3. ASSUME NEW i \in DOMAIN messages'
      PROVE  /\ messages'[i].role = "assistant" =>
                    messages'[i].text \in Texts /\ (messages'[i].text = "none" => messages'[i].calls # <<>>)
             /\ messages'[i].role = "toolResult" => messages'[i].said # <<>>
  <2>1. i \in 1 .. Len(messages) + 1 /\ DOMAIN messages = 1 .. Len(messages)
    BY <1>1, <1>2, LenProperties
  <2>2. CASE i \in 1 .. Len(messages)
    BY <1>2, <2>1, <2>2 DEF TranscriptInv
  <2>3. CASE i = Len(messages) + 1
    BY <1>2, <2>3
  <2> QED
    BY <1>1, <2>1, <2>2, <2>3
<1> QED
  BY <1>2, <1>3 DEF TranscriptInv

LEMMA HeardMessages ==
    ASSUME NEW n \in Nat
    PROVE  /\ User(<<n>>) \in Messages
           /\ \A id \in Ids, text \in {"none", "text"} : Result(id, text, <<n>>) \in Messages
           /\ \A text \in Texts, calls \in Calls, errored \in Errored :
                 Assistant(text, calls, errored, <<n>>) \in Messages
<1>1. <<n>> \in Seq(Nat) /\ <<>> \in Seq(Ids)
  BY EmptySeq, One
<1> DEFINE places == <<n>>
<1> HIDE DEF places
<1>2. User(places) \in Messages
  BY <1>1 DEF places, User, Messages, Shapes, Roles
<1>3. ASSUME NEW id \in Ids, NEW text \in {"none", "text"} PROVE Result(id, text, places) \in Messages
  BY <1>1 DEF places, Result, Messages, Shapes, Roles
<1>4. ASSUME NEW text \in Texts, NEW calls \in Calls, NEW errored \in Errored
      PROVE  Assistant(text, calls, errored, places) \in Messages
  <2>1. text \in {"none", "text", "tag"} /\ calls \in Seq(Ids) /\ errored \in BOOLEAN
    BY TranscriptConstants
  <2> QED
    BY <1>1, <2>1 DEF places, Assistant, Messages, Shapes, Roles
<1> QED
  BY <1>2, <1>3, <1>4 DEF places

\* Everything the host may say is a message as the conversions take them.
THEOREM TranscriptInvariant == TranscriptSpec => []TranscriptInv
<1>1. TranscriptInit => TranscriptInv
  BY EmptySeq DEF TranscriptInit, TranscriptInv
<1>2. TranscriptInv /\ [TranscriptNext]_transcriptVars => TranscriptInv'
  <2>1. SUFFICES ASSUME TranscriptInv, [TranscriptNext]_transcriptVars PROVE TranscriptInv'
    OBVIOUS
  <2>2. CASE UNCHANGED transcriptVars
    BY <2>1, <2>2 DEF transcriptVars, TranscriptInv
  <2>3. CASE TranscriptNext
    <3> DEFINE n == Len(messages) + 1
    <3>1. n \in Nat
      BY <2>1, LenProperties DEF TranscriptInv
    <3>2. UNCHANGED kind
      BY <2>3 DEF TranscriptNext
    <3> HIDE DEF n
    <3>3. CASE Heard(User(<<n>>))
      <4>1. User(<<n>>).role = "user"
        BY DEF User
      <4> QED
        BY <2>1, <3>1, <3>2, <3>3, <4>1, HeardMessages, HeardKeeps
    <3>4. ASSUME NEW text \in Texts, NEW calls \in Calls, NEW errored \in Errored,
                 text # "none" \/ calls # <<>>, Heard(Assistant(text, calls, errored, <<n>>))
          PROVE  TranscriptInv'
      <4> DEFINE m == Assistant(text, calls, errored, <<n>>)
      <4>1. m.role = "assistant" /\ m.text = text /\ m.calls = calls
        BY DEF Assistant
      <4>2. m \in Messages
        BY <3>1, HeardMessages
      <4> HIDE DEF m
      <4>3. Heard(m)
        BY <3>4 DEF m
      <4> QED
        BY <2>1, <3>2, <3>4, <4>1, <4>2, <4>3, HeardKeeps
    <3>5. ASSUME NEW id \in Ids, NEW text \in {"none", "text"}, Heard(Result(id, text, <<n>>))
          PROVE  TranscriptInv'
      <4> DEFINE m == Result(id, text, <<n>>)
      <4>1. m.role = "toolResult" /\ m.said # <<>>
        BY DEF Result
      <4>2. m \in Messages
        BY <3>1, HeardMessages
      <4> HIDE DEF m
      <4>3. Heard(m)
        BY <3>5 DEF m
      <4> QED
        BY <2>1, <3>2, <4>1, <4>2, <4>3, HeardKeeps
    <3> QED
      BY <2>3, <3>3, <3>4, <3>5 DEF TranscriptNext, n
  <2> QED
    BY <2>1, <2>2, <2>3
<1> QED
  BY <1>1, <1>2, PTL DEF TranscriptSpec

LEMMA CutApart ==
    ASSUME TranscriptInv, "tag" \notin Texts
    PROVE  BothPathsRecordTheSame
<1>1. SUFFICES ASSUME NEW cut \in 2 .. Len(messages), messages[cut].role = "assistant"
      PROVE  Stored(messages) = Stored(SubSeq(messages, 1, cut - 1))
                                    \o Stored(SubSeq(messages, cut, Len(messages)))
  BY DEF BothPathsRecordTheSame
<1> DEFINE N == Len(messages)
           s == SubSeq(messages, 1, cut - 1)
           m == messages[cut]
           t == SubSeq(messages, cut + 1, N)
<1>2. messages \in Seq(Messages) /\ N \in Nat /\ cut \in 1 .. N /\ DOMAIN messages = 1 .. N
  BY LenProperties DEF TranscriptInv
<1>3. s \in Seq(Messages) /\ t \in Seq(Messages) /\ m \in Messages
  BY <1>2, SubSeqProperties, ElementOfSeq
<1>4. m.text \in {"none", "text"} /\ (m.text = "none" => m.calls # <<>>)
  BY <1>1, <1>2, TranscriptConstants DEF TranscriptInv
<1>5. SubSeq(messages, cut, N) = <<m>> \o t
  BY <1>2, SubSeqRecursiveFirst
<1>6. messages = s \o SubSeq(messages, cut, N)
  <2>1. SubSeq(messages, 1, N) = messages
    BY <1>2, SubSeqFull
  <2>2. SubSeq(messages, 1, cut - 1) \o SubSeq(messages, cut - 1 + 1, N) = SubSeq(messages, 1, N)
    BY <1>2, ConcatAdjacentSubSeq
  <2> QED
    BY <1>2, <2>1, <2>2
<1> HIDE DEF s, t, m
<1>7. Stored(s \o (<<m>> \o t)) = Stored(s) \o Stored(<<m>> \o t)
  <2>1. m.role = "assistant"
    BY <1>1 DEF m
  <2> QED
    BY <1>3, <1>4, <2>1, StoredInParts
<1> QED
  BY <1>5, <1>6, <1>7 DEF s

\* Whichever of the model's messages a turn is cut before, and whatever was heard: the
\* hook's parts and the queue's whole turn record the same messages (text-utils.ts,
\* context-lifecycle-service.ts), if no answer is nothing but a directive.
THEOREM BothPathsAgree ==
    ASSUME "tag" \notin Texts
    PROVE  TranscriptSpec => []BothPathsRecordTheSame
<1>1. TranscriptInv => BothPathsRecordTheSame
  BY CutApart
<1> QED
  BY <1>1, TranscriptInvariant, PTL

---------------------------------------------------------------------------
(* Windows: what the conversions make                                      *)

\* The messages of a window before its repair: a result was said somewhere.
SaidMessages == {m \in Messages : m.role = "toolResult" => m.said # <<>>}

Joined(u, m) == [u EXCEPT !.calls = @ \o m.calls, !.said = @ \o m.said]

LEMMA MessageFields ==
    ASSUME NEW m \in Messages
    PROVE  /\ m \in Shapes
           /\ m.role \in Roles /\ m.text \in {"none", "text", "tag"} /\ m.calls \in Seq(Ids)
           /\ m.errored \in BOOLEAN /\ m.of \in Ids \cup {""} /\ m.said \in Seq(Nat)
           /\ m.role = "toolResult" => m.of \in Ids
           /\ m.role # "assistant" => m.calls = <<>>
<1>1. m \in Shapes /\ (m.role = "toolResult" => m.of \in Ids) /\ (m.role # "assistant" => m.calls = <<>>)
  BY DEF Messages
<1> QED
  BY <1>1 DEF Shapes

LEMMA LastSplit ==
    ASSUME NEW R, NEW s \in Seq(R), s # <<>>
    PROVE  /\ Len(s) \in Nat /\ Len(s) \in 1 .. Len(s) /\ s[Len(s)] \in R
           /\ \E f \in Seq(R) : /\ s = Append(f, s[Len(s)])
                                /\ \A v \in R : [s EXCEPT ![Len(s)] = v] = Append(f, v)
<1> DEFINE n == Len(s)
           f == SubSeq(s, 1, n - 1)
<1>1. n \in Nat /\ n # 0
  BY EmptySeq, LenProperties
<1>2. n \in 1 .. n /\ n - 1 \in Nat
  BY <1>1
<1>3. /\ f \in Seq(R) /\ Len(f) = n - 1
      /\ \A i \in 1 .. n - 1 : f[i] = s[i]
  <2>1. 1 \in 1 .. n + 1 /\ n - 1 \in 0 .. n
    BY <1>1
  <2>2. /\ SubSeq(s, 1, n - 1) \in Seq(R)
        /\ Len(SubSeq(s, 1, n - 1)) = IF 1 <= n - 1 THEN n - 1 - 1 + 1 ELSE 0
        /\ \A i \in 1 .. n - 1 - 1 + 1 : SubSeq(s, 1, n - 1)[i] = s[1 + i - 1]
    BY <2>1, SubSeqProperties
  <2>3. \A i \in 1 .. n - 1 : i \in 1 .. n - 1 - 1 + 1 /\ 1 + i - 1 = i
    BY <1>1
  <2> QED
    <3>1. Len(f) = n - 1
      <4>1. CASE 1 <= n - 1
        <5>1. n - 1 - 1 + 1 = n - 1
          BY <1>1
        <5> QED
          BY <2>2, <4>1, <5>1
      <4>2. CASE ~(1 <= n - 1)
        <5>0. n - 1 \in Nat /\ \A k \in Nat : ~(1 <= k) => k = 0
          BY <1>2
        <5>1. n - 1 = 0
          BY <5>0, <4>2
        <5> QED
          BY <2>2, <4>2, <5>1
      <4> QED
        BY <4>1, <4>2
    <3>2. ASSUME NEW i \in 1 .. n - 1 PROVE f[i] = s[i]
      BY <2>2, <2>3
    <3> QED
      BY <2>2, <3>1, <3>2
<1>4. s[n] \in R
  BY <1>2, ElementOfSeq
<1> HIDE DEF f
<1>5. ASSUME NEW v \in R PROVE [s EXCEPT ![n] = v] = Append(f, v)
  <2> DEFINE left == [s EXCEPT ![n] = v]
             right == Append(f, v)
  <2>1. left \in Seq(R) /\ Len(left) = n /\ \A i \in 1 .. n : left[i] = IF i = n THEN v ELSE s[i]
    BY <1>1, <1>2, ExceptSeq
  <2>2. /\ right \in Seq(R) /\ Len(right) = n - 1 + 1
        /\ \A i \in 1 .. n - 1 : right[i] = f[i]
        /\ right[n - 1 + 1] = v
    BY <1>1, <1>3, AppendProperties
  <2> HIDE DEF left, right
  <2>3. \A i \in 1 .. n : left[i] = right[i]
    BY <1>1, <1>2, <1>3, <2>1, <2>2
  <2>4. left = right
    <3>1. Len(left) = Len(right)
      BY <1>1, <2>1, <2>2
    <3>2. \A i \in 1 .. Len(left) : left[i] = right[i]
      BY <2>1, <2>3
    <3> QED
      BY <2>1, <2>2, <3>1, <3>2, SeqEqual
  <2> QED
    BY <2>4 DEF left, right
<1>6. [s EXCEPT ![n] = s[n]] = s
  <2>1. s = [i \in 1 .. n |-> s[i]]
    BY <1>1, IsASeq, LenProperties
  <2> QED
    BY <1>2, <2>1
<1>7. s = Append(f, s[n])
  BY <1>4, <1>5, <1>6
<1> QED
  BY <1>1, <1>2, <1>3, <1>4, <1>5, <1>7

LEMMA JoinedType ==
    ASSUME NEW R \in {Messages, SaidMessages}, NEW u \in R, NEW m \in R,
           NEW role \in {"user", "assistant"}, u.role = role, m.role = role
    PROVE  /\ Joined(u, m) \in R /\ Joined(u, m).role = role
           /\ Joined(u, m).said = u.said \o m.said /\ Joined(u, m).errored = u.errored
           /\ Joined(u, m).calls = u.calls \o m.calls /\ Joined(u, m).of = u.of
<1>1. u \in Messages /\ m \in Messages
  BY DEF SaidMessages
<1>2. /\ u \in Shapes /\ m.calls \in Seq(Ids) /\ m.said \in Seq(Nat)
      /\ u.calls \in Seq(Ids) /\ u.said \in Seq(Nat)
      /\ (role # "assistant" => u.calls = <<>> /\ m.calls = <<>>)
  BY <1>1, MessageFields
<1> DEFINE calls == u.calls \o m.calls
           said == u.said \o m.said
<1>3. calls \in Seq(Ids) /\ said \in Seq(Nat)
  BY <1>2, ConcatProperties
<1>4. role # "assistant" => calls = <<>>
  BY <1>2
<1>5. Joined(u, m) = [u EXCEPT !.calls = calls, !.said = said]
  BY DEF Joined
<1> HIDE DEF calls, said
<1>6. /\ Joined(u, m) \in Shapes
      /\ Joined(u, m).role = role /\ Joined(u, m).calls = calls /\ Joined(u, m).said = said
      /\ Joined(u, m).errored = u.errored /\ Joined(u, m).of = u.of
  BY <1>2, <1>3, <1>5 DEF Shapes
<1>7. Joined(u, m) \in Messages /\ Joined(u, m) \in SaidMessages
  BY <1>4, <1>6 DEF Messages, SaidMessages
<1> QED
  BY <1>6, <1>7 DEF calls, said

\* The message is joined with the last.
JoinsTheLast(role, out, m, R) ==
    \E f \in Seq(R), u \in R :
       /\ out = Append(f, u) /\ u.role = role /\ m.role = role
       /\ Merge(role, out, m) = Append(f, Joined(u, m))

LEMMA MergeCases ==
    ASSUME NEW R \in {Messages, SaidMessages}, NEW role \in {"user", "assistant"},
           NEW out \in Seq(R), NEW m \in R
    PROVE  \/ Merge(role, out, m) = Append(out, m)
              /\ (out # <<>> /\ m.role = role => out[Len(out)].role # role)
           \/ JoinsTheLast(role, out, m, R)
<1>1. CASE ~(out # <<>> /\ m.role = role /\ out[Len(out)].role = role)
  BY <1>1 DEF Merge
<1>2. CASE out # <<>> /\ m.role = role /\ out[Len(out)].role = role
  <2> DEFINE u == out[Len(out)]
             v == Joined(u, m)
  <2>1. Len(out) \in 1 .. Len(out) /\ u \in R
    BY <1>2, LastSplit
  <2>2. PICK f \in Seq(R) : out = Append(f, u) /\ \A w \in R : [out EXCEPT ![Len(out)] = w] = Append(f, w)
    BY <1>2, LastSplit
  <2>3. v \in R
    BY <1>2, <2>1, JoinedType
  <2>4. Merge(role, out, m) = [out EXCEPT ![Len(out)] = v]
    <3>1. DOMAIN out = 1 .. Len(out)
      BY LenProperties
    <3>2. u \in Shapes
      <4>1. u \in Messages
        BY <2>1 DEF SaidMessages
      <4> QED
        BY <4>1, MessageFields
    <3> HIDE DEF u
    <3>3. [u EXCEPT !.calls = u.calls \o m.calls] \in [role : Roles, text : {"none", "text", "tag"}, calls : {u.calls \o m.calls},
           errored : BOOLEAN, of : Ids \cup {""}, said : Seq(Nat)]
      BY <3>2 DEF Shapes
    <3> QED
      BY <1>2, <2>1, <3>1, <3>2, <3>3 DEF Merge, Joined, u
  <2> HIDE DEF u, v
  <2>5. Merge(role, out, m) = Append(f, v)
    BY <2>2, <2>3, <2>4
  <2> QED
    BY <1>2, <2>1, <2>2, <2>5 DEF u, v, JoinsTheLast
<1> QED
  BY <1>1, <1>2

LEMMA RunBody ==
    ASSUME NEW acc, NEW F, NEW b, NEW S, NEW M, NEW s \in Seq(M), IsRun(acc, F, b, s, S),
           NEW n \in 0 .. Len(s), n # 0
    PROVE  /\ acc[n - 1] \in S /\ s[n] \in M /\ acc[n] = F[<<acc[n - 1], s[n]>>]
<1> DEFINE k == n - 1
<1>1. k \in 0 .. Len(s) - 1 /\ k + 1 = n
  BY LenProperties
<1> HIDE DEF k
<1>2. acc[k] \in S /\ s[k + 1] \in M /\ acc[k + 1] = F[<<acc[k], s[k + 1]>>]
  BY <1>1, RunStep
<1> QED
  BY <1>1, <1>2 DEF k

\* A loop as TLA+ defines it, its step a function on what it meets.
LEMMA LoopIs ==
    ASSUME NEW S, NEW M, NEW F \in Loops(S, M), NEW b \in S, NEW s \in Seq(M),
           NEW chosen,
           \A n \in 0 .. Len(s) : n # 0 => (chosen[n - 1] \in S => chosen[n] = F[<<chosen[n - 1], s[n]>>]),
           chosen[0] = b
    PROVE  chosen[Len(s)] = Fold(F, b, s)
<1>1. ASSUME NEW n \in 0 .. Len(s) - 1, chosen[n] \in S PROVE chosen[n + 1] = F[<<chosen[n], s[n + 1]>>]
  <2> DEFINE k == n + 1
  <2>1. k \in 0 .. Len(s) /\ k # 0 /\ k - 1 = n
    BY LenProperties
  <2> HIDE DEF k
  <2>2. chosen[k] = F[<<chosen[k - 1], s[k]>>]
    BY <1>1, <2>1
  <2> QED
    BY <2>1, <2>2 DEF k
<1> QED
  BY <1>1, FoldIs

MergeStep(role, R) == [p \in Seq(R) \X R |-> Merge(role, p[1], p[2])]

LEMMA MergeLoops ==
    ASSUME NEW R \in {Messages, SaidMessages}, NEW role \in {"user", "assistant"}
    PROVE  /\ MergeStep(role, R) \in Loops(Seq(R), R)
           /\ \A out \in Seq(R), m \in R : MergeStep(role, R)[<<out, m>>] = Merge(role, out, m)
<1>1. ASSUME NEW out \in Seq(R), NEW m \in R PROVE Merge(role, out, m) \in Seq(R)
  <2>1. CASE Merge(role, out, m) = Append(out, m)
    BY <2>1, AppendProperties
  <2>2. CASE JoinsTheLast(role, out, m, R)
    <3>1. PICK f \in Seq(R), u \in R :
                 /\ out = Append(f, u) /\ u.role = role /\ m.role = role
                 /\ Merge(role, out, m) = Append(f, Joined(u, m))
      BY <2>2 DEF JoinsTheLast
    <3>2. Joined(u, m) \in R
      BY <3>1, JoinedType
    <3> QED
      BY <3>1, <3>2, AppendProperties
  <2> QED
    BY <2>1, <2>2, MergeCases
<1>2. ASSUME NEW p \in Seq(R) \X R PROVE Merge(role, p[1], p[2]) \in Seq(R)
  <2>1. p[1] \in Seq(R) /\ p[2] \in R
    OBVIOUS
  <2> QED
    BY <1>1, <2>1
<1> QED
  BY <1>2 DEF MergeStep, Loops

LEMMA MergedFold ==
    ASSUME NEW R \in {Messages, SaidMessages}, NEW role \in {"user", "assistant"}, NEW w \in Seq(R)
    PROVE  Merged(w, role) = Fold(MergeStep(role, R), <<>>, w) /\ Merged(w, role) \in Seq(R)
<1> DEFINE F == MergeStep(role, R)
           Body(a) == [n \in 0 .. Len(w) |-> IF n = 0 THEN <<>> ELSE Merge(role, a[n - 1], w[n])]
           chosen == CHOOSE a : a = Body(a)
           e == <<>>
<1>1. F \in Loops(Seq(R), R) /\ \A out \in Seq(R), m \in R : F[<<out, m>>] = Merge(role, out, m)
  BY MergeLoops
<1>2. e \in Seq(R)
  BY EmptySeq
<1> HIDE DEF F, e
<1>3. PICK acc : IsRun(acc, F, e, w, Seq(R)) /\ Fold(F, e, w) = acc[Len(w)]
  BY <1>1, <1>2, FoldRun
<1>4. acc = Body(acc)
  <2>1. ASSUME NEW n \in 0 .. Len(w), n # 0 PROVE acc[n] = Merge(role, acc[n - 1], w[n])
    <3>1. acc[n - 1] \in Seq(R) /\ w[n] \in R /\ acc[n] = F[<<acc[n - 1], w[n]>>]
      BY <1>3, <2>1, RunBody
    <3> QED
      BY <1>1, <3>1
  <2> QED
    BY <1>3, <2>1 DEF IsRun, e
<1>5. chosen = Body(chosen)
  BY <1>4
<1>6. Merged(w, role) = chosen[Len(w)]
  BY DEF Merged, Folded
<1> HIDE DEF chosen
<1>7. chosen[0] = e
  BY <1>3, <1>5, RunStart DEF e
<1>8. ASSUME NEW n \in 0 .. Len(w), n # 0, chosen[n - 1] \in Seq(R)
      PROVE  chosen[n] = F[<<chosen[n - 1], w[n]>>]
  <2>1. w[n] \in R
    BY <1>3, <1>8, RunBody
  <2>2. chosen[n] = Merge(role, chosen[n - 1], w[n])
    BY <1>5, <1>8
  <2> QED
    BY <1>1, <1>8, <2>1, <2>2
<1>9. chosen[Len(w)] = Fold(F, e, w)
  BY <1>1, <1>2, <1>7, <1>8, LoopIs
<1> QED
  BY <1>3, <1>6, <1>9, RunStart DEF F, e

AlternateStep == [p \in Seq(Messages) \X Messages |-> Alternate(p[1], p[2])]

LEMMA EmptyUser == User(<<>>) \in Messages /\ User(<<>>).role = "user" /\ User(<<>>).said = <<>>
<1>1. <<>> \in Seq(Nat) /\ <<>> \in Seq(Ids)
  BY EmptySeq
<1> QED
  BY <1>1 DEF User, Messages, Shapes, Roles

\* A placeholder before the message, or the message alone.
LEMMA AlternateCases ==
    ASSUME NEW out \in Seq(Messages), NEW m \in Messages
    PROVE  \/ /\ Alternate(out, m) = Append(Append(out, User(<<>>)), m)
              /\ out # <<>> /\ m.role = "assistant" /\ out[Len(out)].role = "assistant"
           \/ /\ Alternate(out, m) = Append(out, m)
              /\ ~(out # <<>> /\ m.role = "assistant" /\ out[Len(out)].role = "assistant")
<1>1. CASE out # <<>> /\ m.role = "assistant" /\ out[Len(out)].role = "assistant"
  <2> DEFINE u == User(<<>>)
  <2>1. u \in Messages
    BY EmptyUser
  <2> HIDE DEF u
  <2>2. out \o <<u, m>> = Append(Append(out, u), m)
    <3> DEFINE x == out \o <<u, m>>
               y == Append(Append(out, u), m)
               two == <<u, m>>
               one == Append(out, u)
    <3>1. two \in Seq(Messages) /\ Len(two) = 2 /\ two[1] = u /\ two[2] = m /\ Len(out) \in Nat
      BY <2>1, LenProperties
    <3>2. /\ one \in Seq(Messages) /\ Len(one) = Len(out) + 1
          /\ \A i \in 1 .. Len(out) : one[i] = out[i]
          /\ one[Len(out) + 1] = u
      BY <2>1, AppendProperties
    <3> HIDE DEF two, one
    <3>3. /\ y \in Seq(Messages) /\ Len(y) = Len(one) + 1
          /\ \A i \in 1 .. Len(one) : y[i] = one[i]
          /\ y[Len(one) + 1] = m
      BY <3>2, AppendProperties DEF one
    <3>4. /\ x \in Seq(Messages) /\ Len(x) = Len(out) + Len(two)
          /\ \A i \in 1 .. Len(out) + Len(two) : x[i] = IF i <= Len(out) THEN out[i] ELSE two[i - Len(out)]
      BY <3>1, ConcatProperties DEF two
    <3> HIDE DEF x, y
    <3>5. ASSUME NEW i \in 1 .. Len(out) + 2 PROVE x[i] = y[i]
      <4>1. CASE i \in 1 .. Len(out)
        BY <3>1, <3>2, <3>3, <3>4, <4>1
      <4>2. CASE i = Len(out) + 1
        <5>1. i \in 1 .. Len(out) + Len(two) /\ ~(i <= Len(out)) /\ i - Len(out) = 1
              /\ i \in 1 .. Len(one)
          BY <3>1, <3>2, <4>2
        <5>2. x[i] = u
          BY <3>1, <3>4, <5>1
        <5>3. y[i] = one[i] /\ one[i] = u
          BY <3>2, <3>3, <4>2, <5>1
        <5> QED
          BY <5>2, <5>3
      <4>3. CASE i = Len(out) + 2
        <5>1. i \in 1 .. Len(out) + Len(two) /\ ~(i <= Len(out)) /\ i - Len(out) = 2
          BY <3>1, <4>3
        <5>2. x[i] = m
          BY <3>1, <3>4, <5>1
        <5>3. y[i] = m
          BY <3>1, <3>2, <3>3, <4>3
        <5> QED
          BY <5>2, <5>3
      <4> QED
        BY <3>1, <4>1, <4>2, <4>3
    <3>6. Len(x) = Len(out) + 2 /\ Len(y) = Len(out) + 2
      BY <3>1, <3>2, <3>3, <3>4
    <3> QED
      BY <3>3, <3>4, <3>5, <3>6, SeqEqual DEF x, y
  <2> QED
    BY <1>1, <2>2 DEF Alternate, u
<1>2. CASE ~(out # <<>> /\ m.role = "assistant" /\ out[Len(out)].role = "assistant")
  BY <1>2 DEF Alternate
<1> QED
  BY <1>1, <1>2

LEMMA AlternateLoops ==
    /\ AlternateStep \in Loops(Seq(Messages), Messages)
    /\ \A out \in Seq(Messages), m \in Messages : AlternateStep[<<out, m>>] = Alternate(out, m)
<1>1. ASSUME NEW out \in Seq(Messages), NEW m \in Messages PROVE Alternate(out, m) \in Seq(Messages)
  <2>1. Append(out, m) \in Seq(Messages)
    BY AppendProperties
  <2> DEFINE one == Append(out, User(<<>>))
  <2>2. one \in Seq(Messages)
    BY EmptyUser, AppendProperties
  <2> HIDE DEF one
  <2>3. Append(one, m) \in Seq(Messages)
    BY <2>2, AppendProperties
  <2> QED
    BY <2>1, <2>3, AlternateCases DEF one
<1>2. ASSUME NEW p \in Seq(Messages) \X Messages PROVE Alternate(p[1], p[2]) \in Seq(Messages)
  <2>1. p[1] \in Seq(Messages) /\ p[2] \in Messages
    OBVIOUS
  <2> QED
    BY <1>1, <2>1
<1> QED
  BY <1>2 DEF AlternateStep, Loops

LEMMA AlternatedFold ==
    ASSUME NEW w \in Seq(Messages)
    PROVE  Alternated(w) = Fold(AlternateStep, <<>>, w) /\ Alternated(w) \in Seq(Messages)
<1> DEFINE F == AlternateStep
           Body(a) == [n \in 0 .. Len(w) |-> IF n = 0 THEN <<>> ELSE Alternate(a[n - 1], w[n])]
           chosen == CHOOSE a : a = Body(a)
           e == <<>>
<1>1. F \in Loops(Seq(Messages), Messages)
      /\ \A out \in Seq(Messages), m \in Messages : F[<<out, m>>] = Alternate(out, m)
  BY AlternateLoops
<1>2. e \in Seq(Messages)
  BY EmptySeq
<1> HIDE DEF F, e
<1>3. PICK acc : IsRun(acc, F, e, w, Seq(Messages)) /\ Fold(F, e, w) = acc[Len(w)]
  BY <1>1, <1>2, FoldRun
<1>4. acc = Body(acc)
  <2>1. ASSUME NEW n \in 0 .. Len(w), n # 0 PROVE acc[n] = Alternate(acc[n - 1], w[n])
    <3>1. acc[n - 1] \in Seq(Messages) /\ w[n] \in Messages /\ acc[n] = F[<<acc[n - 1], w[n]>>]
      BY <1>3, <2>1, RunBody
    <3> QED
      BY <1>1, <3>1
  <2> QED
    BY <1>3, <2>1 DEF IsRun, e
<1>5. chosen = Body(chosen)
  BY <1>4
<1>6. Alternated(w) = chosen[Len(w)]
  BY DEF Alternated, Folded
<1> HIDE DEF chosen
<1>7. chosen[0] = e
  BY <1>3, <1>5, RunStart DEF e
<1>8. ASSUME NEW n \in 0 .. Len(w), n # 0, chosen[n - 1] \in Seq(Messages)
      PROVE  chosen[n] = F[<<chosen[n - 1], w[n]>>]
  <2>1. w[n] \in Messages
    BY <1>3, <1>8, RunBody
  <2>2. chosen[n] = Alternate(chosen[n - 1], w[n])
    BY <1>5, <1>8
  <2> QED
    BY <1>1, <1>8, <2>1, <2>2
<1>9. chosen[Len(w)] = Fold(F, e, w)
  BY <1>1, <1>2, <1>7, <1>8, LoopIs
<1> QED
  BY <1>3, <1>6, <1>9, RunStart DEF F, e

---------------------------------------------------------------------------
(* A reader of a window: what was said, which calls the next result may    *)
(* answer, which were answered and which with something said, and whether  *)
(* every result so far answered an open call, once.                        *)

Readings == [said : Seq(Nat), open : SUBSET Ids, answered : SUBSET Ids,
             told : SUBSET Ids, good : BOOLEAN]
Unread == [said |-> <<>>, open |-> {}, answered |-> {}, told |-> {}, good |-> TRUE]

CallsOf(m) == {id \in Ids : Has(id, m.calls)}

Read(a, m) ==
    IF m.role = "toolResult"
    THEN [said |-> a.said, open |-> a.open, answered |-> a.answered \cup {m.of},
          told |-> IF m.said # <<>> THEN a.told \cup {m.of} ELSE a.told,
          good |-> (a.good /\ m.of \in a.open /\ m.of \notin a.answered)]
    ELSE [said |-> a.said \o m.said,
          open |-> IF m.role = "assistant" /\ ~m.errored THEN CallsOf(m) ELSE {},
          answered |-> a.answered, told |-> a.told, good |-> a.good]

ReadStep == [p \in Readings \X Messages |-> Read(p[1], p[2])]
Reading(w) == Fold(ReadStep, Unread, w)

LEMMA ReadType == ASSUME NEW a \in Readings, NEW m \in Messages PROVE Read(a, m) \in Readings
<1>1. /\ a.said \in Seq(Nat) /\ a.open \subseteq Ids /\ a.answered \subseteq Ids /\ a.told \subseteq Ids
      /\ a.good \in BOOLEAN
  BY DEF Readings
<1>2. m.said \in Seq(Nat) /\ (m.role = "toolResult" => m.of \in Ids)
  BY MessageFields
<1>3. CASE m.role = "toolResult"
  <2>1. a.answered \cup {m.of} \subseteq Ids /\ a.told \cup {m.of} \subseteq Ids
    BY <1>1, <1>2, <1>3
  <2>2. (a.good /\ m.of \in a.open /\ m.of \notin a.answered) \in BOOLEAN
    BY <1>1
  <2>3. (IF m.said # <<>> THEN a.told \cup {m.of} ELSE a.told) \subseteq Ids
    BY <1>1, <2>1
  <2> QED
    BY <1>1, <1>3, <2>1, <2>2, <2>3 DEF Read, Readings
<1>4. CASE m.role # "toolResult"
  <2>1. a.said \o m.said \in Seq(Nat)
    BY <1>1, <1>2, ConcatProperties
  <2>2. (IF m.role = "assistant" /\ ~m.errored THEN CallsOf(m) ELSE {}) \subseteq Ids
    BY DEF CallsOf
  <2> QED
    BY <1>1, <1>4, <2>1, <2>2 DEF Read, Readings
<1> QED
  BY <1>3, <1>4

LEMMA ReadLoops ==
    /\ ReadStep \in Loops(Readings, Messages)
    /\ \A a \in Readings, m \in Messages : ReadStep[<<a, m>>] = Read(a, m)
    /\ Unread \in Readings
<1>1. ASSUME NEW p \in Readings \X Messages PROVE Read(p[1], p[2]) \in Readings
  <2>1. p[1] \in Readings /\ p[2] \in Messages
    OBVIOUS
  <2> QED
    BY <2>1, ReadType
<1>2. <<>> \in Seq(Nat)
  BY EmptySeq
<1>3. Unread \in Readings
  BY <1>2 DEF Unread, Readings
<1> QED
  BY <1>1, <1>3 DEF ReadStep, Loops

LEMMA ReadingStep ==
    ASSUME NEW w, w \in Seq(Messages), NEW r, IsRun(r, ReadStep, Unread, w, Readings),
           NEW n \in 0 .. Len(w) - 1
    PROVE  r[n] \in Readings /\ w[n + 1] \in Messages /\ r[n + 1] = ReadStep[<<r[n], w[n + 1]>>]
  BY RunStep

LEMMA ReadingEmpty == Reading(<<>>) = Unread
  BY ReadLoops, FoldEmpty DEF Reading

LEMMA ReadingAppend ==
    ASSUME NEW w \in Seq(Messages), NEW m \in Messages
    PROVE  Reading(w) \in Readings /\ Reading(Append(w, m)) = Read(Reading(w), m)
<1>1. Reading(w) \in Readings
  BY ReadLoops, FoldType DEF Reading
<1>2. Reading(Append(w, m)) = ReadStep[<<Reading(w), m>>]
  BY ReadLoops, FoldAppend DEF Reading
<1> QED
  BY <1>1, <1>2, ReadLoops

LEMMA PlacesAssociate ==
    ASSUME NEW x \in Seq(Nat), NEW y \in Seq(Nat), NEW z \in Seq(Nat)
    PROVE  (x \o y) \o z = x \o (y \o z)
<1> DEFINE R == Nat
<1>1. x \in Seq(R) /\ y \in Seq(R) /\ z \in Seq(R)
  OBVIOUS
<1> HIDE DEF R
<1> QED
  BY <1>1, ConcatAssociative, SMTT(30)

LEMMA MergeRead ==
    ASSUME NEW out \in Seq(Messages), NEW m \in Messages
    PROVE  Reading(Merge("user", out, m)) = Read(Reading(out), m)
<1>1. CASE Merge("user", out, m) = Append(out, m)
  BY <1>1, ReadingAppend
<1>2. CASE JoinsTheLast("user", out, m, Messages)
  <2>1. PICK f \in Seq(Messages), u \in Messages :
           /\ out = Append(f, u) /\ u.role = "user" /\ m.role = "user"
           /\ Merge("user", out, m) = Append(f, Joined(u, m))
    BY <1>2 DEF JoinsTheLast
  <2> DEFINE v == Joined(u, m)
             a == Reading(f)
             b == Read(a, u)
  <2>2. v \in Messages /\ v.role = "user" /\ v.said = u.said \o m.said
    BY <2>1, JoinedType
  <2> HIDE DEF v
  <2>3. a \in Readings /\ Reading(out) = b /\ Reading(Merge("user", out, m)) = Read(a, v)
    <3>1. Reading(Append(f, u)) = b /\ a \in Readings
      BY ReadingAppend
    <3>2. Reading(Append(f, v)) = Read(a, v)
      BY <2>2, ReadingAppend
    <3> QED
      BY <2>1, <3>1, <3>2 DEF v
  <2> HIDE DEF a
  <2>4. (a.said \o u.said) \o m.said = a.said \o (u.said \o m.said)
    <3> DEFINE x == a.said
               y == u.said
               z == m.said
    <3>1. x \in Seq(Nat) /\ y \in Seq(Nat) /\ z \in Seq(Nat)
      BY <2>3, MessageFields DEF Readings
    <3> HIDE DEF x, y, z
    <3>2. (x \o y) \o z = x \o (y \o z)
      BY <3>1, PlacesAssociate
    <3> QED
      BY <3>2 DEF x, y, z
  <2>5. Read(a, v) = [said |-> a.said \o (u.said \o m.said), open |-> {},
                      answered |-> a.answered, told |-> a.told, good |-> a.good]
    BY <2>2 DEF Read
  <2>6. b = [said |-> a.said \o u.said, open |-> {},
             answered |-> a.answered, told |-> a.told, good |-> a.good]
    BY <2>1 DEF Read
  <2>7. Read(b, m) = [said |-> (a.said \o u.said) \o m.said, open |-> {},
                      answered |-> a.answered, told |-> a.told, good |-> a.good]
    <3> HIDE DEF b
    <3>1. Read(b, m) = [said |-> b.said \o m.said, open |-> {},
                        answered |-> b.answered, told |-> b.told, good |-> b.good]
      BY <2>1 DEF Read
    <3> QED
      BY <2>6, <3>1
  <2> QED
    BY <2>3, <2>4, <2>5, <2>7
<1> QED
  BY <1>1, <1>2, MergeCases

LEMMA AlternateRead ==
    ASSUME NEW out \in Seq(Messages), NEW m \in Messages
    PROVE  Reading(Alternate(out, m)) = Read(Reading(out), m)
<1>1. CASE Alternate(out, m) = Append(out, m)
  BY <1>1, ReadingAppend
<1>2. CASE Alternate(out, m) = Append(Append(out, User(<<>>)), m) /\ m.role = "assistant"
  <2> DEFINE u == User(<<>>)
             a == Reading(out)
             b == Read(a, u)
             one == Append(out, u)
  <2>1. u \in Messages /\ u.role = "user" /\ u.said = <<>>
    BY EmptyUser
  <2> HIDE DEF u
  <2>2. a \in Readings /\ Reading(one) = b /\ one \in Seq(Messages)
    BY <2>1, ReadingAppend, AppendProperties
  <2> HIDE DEF one
  <2>3. Reading(Append(one, m)) = Read(b, m)
    BY <2>2, ReadingAppend
  <2> HIDE DEF a
  <2>4. b = [said |-> a.said \o <<>>, open |-> {},
             answered |-> a.answered, told |-> a.told, good |-> a.good]
    BY <2>1 DEF Read
  <2>5. a.said \o <<>> = a.said
    <3>1. a.said \in Seq(Nat)
      BY <2>2 DEF Readings
    <3> QED
      BY <3>1, ConcatEmptySeq
  <2>6. Read(b, m) = Read(a, m)
    <3> HIDE DEF b
    <3>1. Read(b, m) = [said |-> b.said \o m.said, open |-> IF ~m.errored THEN CallsOf(m) ELSE {},
                        answered |-> b.answered, told |-> b.told, good |-> b.good]
      BY <1>2 DEF Read
    <3>2. Read(a, m) = [said |-> a.said \o m.said, open |-> IF ~m.errored THEN CallsOf(m) ELSE {},
                        answered |-> a.answered, told |-> a.told, good |-> a.good]
      BY <1>2 DEF Read
    <3>3. b.said = a.said /\ b.answered = a.answered /\ b.told = a.told /\ b.good = a.good
      BY <2>4, <2>5
    <3> QED
      BY <3>1, <3>2, <3>3
  <2>7. Alternate(out, m) = Append(one, m)
    BY <1>2 DEF one, u
  <2> QED
    BY <2>3, <2>6, <2>7 DEF a
<1> QED
  BY <1>1, <1>2, AlternateCases

\* A loop that keeps what is read of every message keeps what is read.
LEMMA LoopRead ==
    ASSUME NEW F \in Loops(Seq(Messages), Messages), NEW w \in Seq(Messages),
           \A out \in Seq(Messages), m \in Messages : Reading(F[<<out, m>>]) = Read(Reading(out), m)
    PROVE  Reading(Fold(F, <<>>, w)) = Reading(w)
<1> DEFINE e == <<>>
<1>1. e \in Seq(Messages)
  BY EmptySeq
<1>2. Reading(e) = Unread
  BY ReadingEmpty
<1> HIDE DEF e
<1>3. PICK x : IsRun(x, F, e, w, Seq(Messages)) /\ Fold(F, e, w) = x[Len(w)]
  BY <1>1, FoldRun
<1>4. PICK r : IsRun(r, ReadStep, Unread, w, Readings) /\ Fold(ReadStep, Unread, w) = r[Len(w)]
  BY ReadLoops, FoldRun
<1> DEFINE c == [n \in 0 .. Len(w) |-> Reading(x[n])]
<1>5. Len(w) \in Nat
  BY LenProperties
<1>6. c[0] = r[0]
  BY <1>2, <1>3, <1>4, <1>5 DEF IsRun
<1>7. ASSUME NEW n \in 0 .. Len(w) - 1, c[n] = r[n] PROVE c[n + 1] = r[n + 1]
  <2>1. /\ n \in 0 .. Len(w) /\ n + 1 \in 0 .. Len(w)
        /\ x[n] \in Seq(Messages) /\ w[n + 1] \in Messages /\ x[n + 1] = F[<<x[n], w[n + 1]>>]
    BY <1>3, RunStep
  <2>2. r[n] \in Readings /\ w[n + 1] \in Messages /\ r[n + 1] = ReadStep[<<r[n], w[n + 1]>>]
    BY <1>4, ReadingStep
  <2>3. Reading(x[n + 1]) = Read(Reading(x[n]), w[n + 1])
    BY <2>1
  <2>4. r[n + 1] = Read(r[n], w[n + 1])
    BY <2>1, <2>2, ReadLoops
  <2> QED
    BY <1>7, <2>1, <2>3, <2>4
<1>8. c[Len(w)] = r[Len(w)]
  <2> HIDE DEF c
  <2> QED
    BY <1>5, <1>6, <1>7, Agree
<1> QED
  BY <1>3, <1>4, <1>5, <1>8 DEF Reading, e

LEMMA SanitizedRead ==
    ASSUME NEW w \in Seq(Messages)
    PROVE  /\ Reading(Alternated(Merged(w, "user"))) = Reading(w)
           /\ Merged(w, "user") \in Seq(Messages)
           /\ Alternated(Merged(w, "user")) \in Seq(Messages)
<1> DEFINE F == MergeStep("user", Messages)
           merged == Merged(w, "user")
<1>1. /\ F \in Loops(Seq(Messages), Messages)
      /\ \A out \in Seq(Messages), m \in Messages : F[<<out, m>>] = Merge("user", out, m)
  BY MergeLoops
<1>2. merged = Fold(F, <<>>, w) /\ merged \in Seq(Messages)
  BY MergedFold
<1> HIDE DEF F, merged
<1>3. Reading(merged) = Reading(w)
  <2>1. \A out \in Seq(Messages), m \in Messages : Reading(F[<<out, m>>]) = Read(Reading(out), m)
    BY <1>1, MergeRead
  <2> QED
    BY <1>1, <1>2, <2>1, LoopRead
<1>4. Alternated(merged) = Fold(AlternateStep, <<>>, merged) /\ Alternated(merged) \in Seq(Messages)
  BY <1>2, AlternatedFold
<1>5. Reading(Alternated(merged)) = Reading(merged)
  <2>1. \A out \in Seq(Messages), m \in Messages : Reading(AlternateStep[<<out, m>>]) = Read(Reading(out), m)
    BY AlternateLoops, AlternateRead
  <2> QED
    BY <1>2, <1>4, <2>1, AlternateLoops, LoopRead
<1> QED
  BY <1>2, <1>3, <1>4, <1>5 DEF merged

---------------------------------------------------------------------------
(* What the repair makes of a window                                       *)

Repairs == [out : Seq(Messages), seen : SUBSET Ids]
NoRepair == [out |-> <<>>, seen |-> {}]

LEMMA AnswerType ==
    ASSUME NEW w \in Seq(SaidMessages), NEW i \in 1 .. Len(w), NEW id \in Ids
    PROVE  LET m == Answer(w, i, id)
           IN  /\ m \in Messages /\ m.role = "toolResult" /\ m.of = id
               /\ ResultsOf(id, w, i) # {} => m.said # <<>>
<1> DEFINE found == ResultsOf(id, w, i)
<1>1. CASE found = {}
  <2>1. <<>> \in Seq(Nat) /\ <<>> \in Seq(Ids)
    BY EmptySeq
  <2>2. /\ Missing(id) \in Messages /\ Missing(id).role = "toolResult" /\ Missing(id).of = id
    BY <2>1 DEF Missing, Result, Messages, Shapes, Roles
  <2> QED
    BY <1>1, <2>2 DEF Answer
<1>2. CASE found # {}
  <2>1. found \subseteq 1 .. Len(w) /\ found \subseteq Nat
    BY LenProperties DEF ResultsOf, Span
  <2>2. \E j \in found : \A k \in found : j <= k
    BY <1>2, <2>1, Least
  <2> DEFINE j == CHOOSE j \in found : \A k \in found : j <= k
  <2>3. j \in found
    BY <2>2
  <2>4. Answer(w, i, id) = w[j]
    BY <1>2 DEF Answer
  <2> HIDE DEF j
  <2>5. w[j] \in SaidMessages /\ w[j].role = "toolResult" /\ w[j].of = id
    BY <2>1, <2>3, ElementOfSeq DEF ResultsOf
  <2>6. w[j] \in Messages /\ w[j].said # <<>>
    BY <2>5 DEF SaidMessages
  <2> QED
    BY <2>4, <2>5, <2>6
<1> QED
  BY <1>1, <1>2

PushStep(w, i) == [p \in Repairs \X Ids |-> Push(w, i, p[1], p[2])]

LEMMA PushLoops ==
    ASSUME NEW w \in Seq(SaidMessages), NEW i \in 1 .. Len(w)
    PROVE  /\ PushStep(w, i) \in Loops(Repairs, Ids)
           /\ \A acc \in Repairs, id \in Ids : PushStep(w, i)[<<acc, id>>] = Push(w, i, acc, id)
<1>1. ASSUME NEW acc \in Repairs, NEW id \in Ids PROVE Push(w, i, acc, id) \in Repairs
  <2> DEFINE m == Answer(w, i, id)
  <2>1. m \in Messages
    BY AnswerType
  <2> HIDE DEF m
  <2>2. acc.out \in Seq(Messages) /\ acc.seen \subseteq Ids
    BY DEF Repairs
  <2>3. Append(acc.out, m) \in Seq(Messages) /\ acc.seen \cup {id} \subseteq Ids
    BY <2>1, <2>2, AppendProperties
  <2> QED
    BY <2>3 DEF Push, Repairs, m
<1>2. ASSUME NEW p \in Repairs \X Ids PROVE Push(w, i, p[1], p[2]) \in Repairs
  <2>1. p[1] \in Repairs /\ p[2] \in Ids
    OBVIOUS
  <2> QED
    BY <1>1, <2>1
<1> QED
  BY <1>2 DEF PushStep, Loops

LEMMA PushAllFold ==
    ASSUME NEW w \in Seq(SaidMessages), NEW i \in 1 .. Len(w), NEW acc \in Repairs, NEW calls \in Seq(Ids)
    PROVE  /\ PushAll(w, i, acc, calls) = Fold(PushStep(w, i), acc, calls)
           /\ PushAll(w, i, acc, calls) \in Repairs
<1> DEFINE F == PushStep(w, i)
           Body(a) == [n \in 0 .. Len(calls) |-> IF n = 0 THEN acc ELSE Push(w, i, a[n - 1], calls[n])]
           chosen == CHOOSE a : a = Body(a)
<1>1. F \in Loops(Repairs, Ids) /\ \A before \in Repairs, id \in Ids : F[<<before, id>>] = Push(w, i, before, id)
  BY PushLoops
<1> HIDE DEF F
<1>3. PICK x : IsRun(x, F, acc, calls, Repairs) /\ Fold(F, acc, calls) = x[Len(calls)]
  BY <1>1, FoldRun
<1>4. x = Body(x)
  <2>1. ASSUME NEW n \in 0 .. Len(calls), n # 0 PROVE x[n] = Push(w, i, x[n - 1], calls[n])
    <3>1. x[n - 1] \in Repairs /\ calls[n] \in Ids /\ x[n] = F[<<x[n - 1], calls[n]>>]
      BY <1>3, <2>1, RunBody
    <3> QED
      BY <1>1, <3>1
  <2> QED
    BY <1>3, <2>1 DEF IsRun
<1>5. chosen = Body(chosen)
  BY <1>4
<1>6. PushAll(w, i, acc, calls) = chosen[Len(calls)]
  BY DEF PushAll, Folded
<1> HIDE DEF chosen
<1>7. chosen[0] = acc
  BY <1>3, <1>5, RunStart
<1>8. ASSUME NEW n \in 0 .. Len(calls), n # 0, chosen[n - 1] \in Repairs
      PROVE  chosen[n] = F[<<chosen[n - 1], calls[n]>>]
  <2>1. calls[n] \in Ids
    BY <1>3, <1>8, RunBody
  <2>2. chosen[n] = Push(w, i, chosen[n - 1], calls[n])
    BY <1>5, <1>8
  <2> QED
    BY <1>1, <1>8, <2>1, <2>2
<1>9. chosen[Len(calls)] = Fold(F, acc, calls)
  BY <1>1, <1>7, <1>8, LoopIs
<1> QED
  BY <1>3, <1>6, <1>9, RunStart DEF F

\* After the first k calls of the message at i are answered.
PushedUpTo(w, i, acc, k, x) ==
    LET v == Reading(x.out)
        before == Reading(acc.out)
    IN  /\ v.good /\ v.open = CallsOf(w[i]) /\ v.answered = x.seen
        /\ v.said = before.said \o w[i].said
        /\ x.seen = acc.seen \cup {w[i].calls[j] : j \in 1 .. k}
        /\ before.told \subseteq v.told
        /\ \A j \in 1 .. k : w[i].calls[j] \notin acc.seen /\ ResultsOf(w[i].calls[j], w, i) # {}
                                => w[i].calls[j] \in v.told

LEMMA PushKeeps ==
    ASSUME NEW w \in Seq(SaidMessages), NEW i \in 1 .. Len(w), NEW acc \in Repairs,
           NEW k \in 0 .. Len(w[i].calls) - 1, NEW x \in Repairs, w[i].calls \in Seq(Ids),
           PushedUpTo(w, i, acc, k, x)
    PROVE  PushedUpTo(w, i, acc, k + 1, Push(w, i, x, w[i].calls[k + 1]))
<1> DEFINE calls == w[i].calls
           id == calls[k + 1]
           m == Answer(w, i, id)
           v == Reading(x.out)
           y == Push(w, i, x, id)
           before == Reading(acc.out)
<1>1. /\ k \in Nat /\ k + 1 \in 1 .. Len(calls) /\ id \in Ids
      /\ \A j \in 1 .. k + 1 : j \in 1 .. k \/ j = k + 1
      /\ \A j \in 1 .. k : j \in 1 .. k + 1
  BY LenProperties, ElementOfSeq
<1>2. m \in Messages /\ m.role = "toolResult" /\ m.of = id /\ (ResultsOf(id, w, i) # {} => m.said # <<>>)
  BY <1>1, AnswerType
<1>3. /\ v.good /\ v.open = CallsOf(w[i]) /\ v.answered = x.seen
      /\ v.said = before.said \o w[i].said
      /\ x.seen = acc.seen \cup {calls[j] : j \in 1 .. k}
      /\ before.told \subseteq v.told
      /\ \A j \in 1 .. k : calls[j] \notin acc.seen /\ ResultsOf(calls[j], w, i) # {} => calls[j] \in v.told
  BY DEF PushedUpTo
<1>4. id \in CallsOf(w[i])
  BY <1>1, LenProperties DEF CallsOf, Has
<1>5. {calls[j] : j \in 1 .. k + 1} = {calls[j] : j \in 1 .. k} \cup {id}
  BY <1>1
<1>6. CASE id \in x.seen
  <2>1. y = x
    BY <1>6 DEF Push
  <2>2. x.seen = acc.seen \cup {calls[j] : j \in 1 .. k + 1}
    BY <1>3, <1>5, <1>6
  <2>3. id \notin acc.seen /\ ResultsOf(id, w, i) # {} => id \in v.told
    <3>1. SUFFICES ASSUME id \notin acc.seen, ResultsOf(id, w, i) # {} PROVE id \in v.told
      OBVIOUS
    <3>2. PICK j \in 1 .. k : calls[j] = id
      BY <1>3, <1>6, <3>1
    <3> HIDE DEF v, id
    <3> QED
      BY <1>3, <3>1, <3>2
  <2>4. ASSUME NEW j \in 1 .. k + 1, calls[j] \notin acc.seen, ResultsOf(calls[j], w, i) # {}
        PROVE  calls[j] \in v.told
    BY <1>1, <1>3, <2>3, <2>4
  <2> HIDE DEF v, y, before
  <2>5. PushedUpTo(w, i, acc, k + 1, x)
    BY <1>3, <2>2, <2>4 DEF PushedUpTo, v, before
  <2> QED
    BY <2>1, <2>5 DEF y
<1>7. CASE id \notin x.seen
  <2> DEFINE u == Reading(y.out)
  <2>1. y.out = Append(x.out, m) /\ y.seen = x.seen \cup {id}
    BY <1>7 DEF Push
  <2>2. x.out \in Seq(Messages) /\ v \in Readings
    BY ReadingAppend, <1>2 DEF Repairs
  <2>3. u = Read(v, m)
    BY <1>2, <2>1, <2>2, ReadingAppend
  <2> HIDE DEF m, v, y, u
  <2>4. /\ u.said = v.said /\ u.open = v.open /\ u.answered = v.answered \cup {id}
        /\ u.told = (IF m.said # <<>> THEN v.told \cup {id} ELSE v.told)
        /\ u.good = (v.good /\ id \in v.open /\ id \notin v.answered)
    BY <1>2, <2>3 DEF Read
  <2>5. u.good /\ u.answered = y.seen
    BY <1>3, <1>4, <1>7, <2>1, <2>4
  <2>6. y.seen = acc.seen \cup {calls[j] : j \in 1 .. k + 1}
    BY <1>3, <1>5, <2>1
  <2>7. ASSUME NEW j \in 1 .. k + 1, calls[j] \notin acc.seen, ResultsOf(calls[j], w, i) # {}
        PROVE  calls[j] \in u.told
    <3>1. CASE j \in 1 .. k
      BY <1>3, <2>4, <2>7, <3>1
    <3>2. CASE j = k + 1
      BY <1>2, <2>4, <2>7, <3>2
    <3> QED
      BY <1>1, <3>1, <3>2
  <2>8. before.told \subseteq u.told
    BY <1>3, <2>4
  <2> HIDE DEF before
  <2>9. PushedUpTo(w, i, acc, k + 1, y)
    BY <1>3, <2>4, <2>5, <2>6, <2>7, <2>8 DEF PushedUpTo, u, before
  <2> QED
    BY <2>9 DEF y
<1> QED
  BY <1>6, <1>7

CalledBy(w, n) == {id \in Ids : \E j \in 1 .. n : ~w[j].errored /\ Has(id, w[j].calls)}

\* The first finished message to make the call is the one at i.
CallsFirst(w, i, id) ==
    /\ ~w[i].errored /\ Has(id, w[i].calls)
    /\ \A j \in 1 .. i - 1 : w[j].errored \/ ~Has(id, w[j].calls)

\* After the first n messages of the window are repaired; r is what is read of them.
RepairedUpTo(w, n, x, r) ==
    LET v == Reading(x.out)
    IN  /\ v.good /\ v.answered = x.seen /\ x.seen = CalledBy(w, n)
        /\ v.said = r.said
        /\ \A i \in 1 .. n, id \in Ids :
              CallsFirst(w, i, id) /\ ResultsOf(id, w, i) # {} => id \in v.told

LEMMA PushAllReads ==
    ASSUME NEW w \in Seq(SaidMessages), NEW i \in 1 .. Len(w), NEW acc \in Repairs,
           w[i].role = "assistant", ~w[i].errored,
           Reading(acc.out).good, Reading(acc.out).answered = acc.seen
    PROVE  LET x == PushAll(w, i, [acc EXCEPT !.out = Append(@, w[i])], w[i].calls)
           IN  x \in Repairs /\ PushedUpTo(w, i, acc, Len(w[i].calls), x)
<1> DEFINE m == w[i]
           calls == m.calls
           first == [acc EXCEPT !.out = Append(@, m)]
           v == Reading(acc.out)
           u == Reading(first.out)
<1>1. m \in Messages /\ calls \in Seq(Ids) /\ Len(calls) \in Nat
  <2>1. m \in SaidMessages
    BY ElementOfSeq
  <2>2. m \in Messages
    BY <2>1 DEF SaidMessages
  <2> QED
    BY <2>2, MessageFields, LenProperties
<1>2. acc.out \in Seq(Messages) /\ first.out = Append(acc.out, m) /\ first.seen = acc.seen /\ first \in Repairs
  <2>1. acc.out \in Seq(Messages)
    BY DEF Repairs
  <2>2. Append(acc.out, m) \in Seq(Messages)
    BY <1>1, <2>1, AppendProperties
  <2> HIDE DEF m
  <2> QED
    BY <2>1, <2>2 DEF Repairs
<1>3. u = Read(v, m) /\ v \in Readings
  BY <1>1, <1>2, ReadingAppend
<1>4. PushedUpTo(w, i, acc, 0, first)
  <2> HIDE DEF v, u
  <2>1. /\ u.said = v.said \o m.said /\ u.open = CallsOf(m) /\ u.answered = v.answered
        /\ u.told = v.told /\ u.good = v.good
    BY <1>3 DEF Read
  <2>2. {calls[j] : j \in 1 .. 0} = {}
    OBVIOUS
  <2>3. v.good /\ v.answered = acc.seen
    BY DEF v
  <2>4. first.seen = acc.seen \cup {calls[j] : j \in 1 .. 0}
    BY <1>2, <2>2
  <2>5. \A j \in 1 .. 0 : calls[j] \notin acc.seen /\ ResultsOf(calls[j], w, i) # {} => calls[j] \in u.told
    OBVIOUS
  <2> HIDE DEF first
  <2> QED
    BY <1>2, <2>1, <2>3, <2>4, <2>5 DEF PushedUpTo, u, v
<1> HIDE DEF first
<1>5. PICK x : IsRun(x, PushStep(w, i), first, calls, Repairs)
               /\ Fold(PushStep(w, i), first, calls) = x[Len(calls)]
  <2>1. PushStep(w, i) \in Loops(Repairs, Ids)
    BY PushLoops
  <2> HIDE DEF calls
  <2> QED
    BY <1>1, <1>2, <2>1, FoldRun
<1> DEFINE T == {k \in 0 .. Len(calls) : PushedUpTo(w, i, acc, k, x[k])}
<1>6. 0 \in T
  BY <1>1, <1>4, <1>5 DEF IsRun
<1>7. ASSUME NEW k \in 0 .. Len(calls) - 1, k \in T PROVE k + 1 \in T
  <2>1. x[k] \in Repairs /\ calls[k + 1] \in Ids /\ x[k + 1] = PushStep(w, i)[<<x[k], calls[k + 1]>>]
    BY <1>1, <1>5, RunStep
  <2>2. x[k + 1] = Push(w, i, x[k], calls[k + 1])
    BY <2>1, PushLoops
  <2>3. PushedUpTo(w, i, acc, k, x[k])
    BY <1>7
  <2>4. PushedUpTo(w, i, acc, k + 1, Push(w, i, x[k], calls[k + 1]))
    BY <1>1, <2>1, <2>3, PushKeeps
  <2> QED
    BY <1>1, <2>2, <2>4
<1>8. \A k \in 0 .. Len(calls) : k \in T
  <2> HIDE DEF T
  <2> QED
    BY <1>1, <1>6, <1>7, Climb
<1>9. PushedUpTo(w, i, acc, Len(calls), x[Len(calls)])
  BY <1>1, <1>8
<1>10. PushAll(w, i, first, calls) = x[Len(calls)] /\ PushAll(w, i, first, calls) \in Repairs
  BY <1>1, <1>2, <1>5, PushAllFold
<1> QED
  BY <1>9, <1>10 DEF first

RepairStep(w) == [p \in Repairs \X (1 .. Len(w)) |-> Repair(w, p[1], p[2])]

LEMMA RepairLoops ==
    ASSUME NEW w \in Seq(SaidMessages)
    PROVE  /\ RepairStep(w) \in Loops(Repairs, 1 .. Len(w))
           /\ \A acc \in Repairs, i \in 1 .. Len(w) : RepairStep(w)[<<acc, i>>] = Repair(w, acc, i)
           /\ NoRepair \in Repairs
<1>1. ASSUME NEW acc \in Repairs, NEW i \in 1 .. Len(w) PROVE Repair(w, acc, i) \in Repairs
  <2> DEFINE m == w[i]
             first == [acc EXCEPT !.out = Append(@, m)]
  <2>1. m \in Messages /\ m.calls \in Seq(Ids)
    <3>1. m \in SaidMessages
      BY ElementOfSeq
    <3>2. m \in Messages
      BY <3>1 DEF SaidMessages
    <3> QED
      BY <3>2, MessageFields
  <2>2. first \in Repairs
    <3>1. acc.out \in Seq(Messages)
      BY DEF Repairs
    <3>2. Append(acc.out, m) \in Seq(Messages)
      BY <2>1, <3>1, AppendProperties
    <3> HIDE DEF m
    <3> QED
      BY <3>1, <3>2 DEF Repairs
  <2> HIDE DEF first
  <2>3. PushAll(w, i, first, m.calls) \in Repairs
    BY <2>1, <2>2, PushAllFold
  <2> QED
    BY <2>2, <2>3 DEF Repair, first
<1>2. ASSUME NEW p \in Repairs \X (1 .. Len(w)) PROVE Repair(w, p[1], p[2]) \in Repairs
  <2>1. p[1] \in Repairs /\ p[2] \in 1 .. Len(w)
    OBVIOUS
  <2> QED
    BY <1>1, <2>1
<1>3. <<>> \in Seq(Messages)
  BY EmptySeq
<1> QED
  BY <1>2, <1>3 DEF RepairStep, Loops, NoRepair, Repairs

Positions(w) == [i \in 1 .. Len(w) |-> i]

LEMMA PositionsAre ==
    ASSUME NEW R, NEW w \in Seq(R)
    PROVE  /\ Positions(w) \in Seq(1 .. Len(w)) /\ Len(Positions(w)) = Len(w)
           /\ \A i \in 1 .. Len(w) : Positions(w)[i] = i
<1>1. Len(w) \in Nat
  BY LenProperties
<1>2. Positions(w) \in [1 .. Len(w) -> 1 .. Len(w)]
  BY DEF Positions
<1>3. Positions(w) \in Seq(1 .. Len(w))
  BY <1>1, <1>2, SeqDef
<1>4. Len(Positions(w)) = Len(w)
  BY <1>1, <1>2, <1>3, LenProperties
<1> QED
  BY <1>3, <1>4 DEF Positions

LEMMA RepairedFold ==
    ASSUME NEW w \in Seq(SaidMessages)
    PROVE  Repaired(w) = Fold(RepairStep(w), NoRepair, Positions(w)).out
<1> DEFINE F == RepairStep(w)
           s == Positions(w)
           N == 1 .. Len(w)
           Body(a) == [n \in 0 .. Len(s) |-> IF n = 0 THEN NoRepair ELSE Repair(w, a[n - 1], s[n])]
           chosen == CHOOSE a : a = Body(a)
<1>1. /\ F \in Loops(Repairs, N) /\ NoRepair \in Repairs
      /\ \A acc \in Repairs, i \in N : F[<<acc, i>>] = Repair(w, acc, i)
  BY RepairLoops
<1>2. s \in Seq(N)
  BY PositionsAre
<1>6. Repaired(w) = chosen[Len(s)].out
  BY DEF Repaired, Folded, NoRepair, Positions
<1> HIDE DEF F, s, N
<1>3. PICK x : IsRun(x, F, NoRepair, s, Repairs) /\ Fold(F, NoRepair, s) = x[Len(s)]
  BY <1>1, <1>2, FoldRun
<1>4. x = Body(x)
  <2>1. ASSUME NEW n \in 0 .. Len(s), n # 0 PROVE x[n] = Repair(w, x[n - 1], s[n])
    <3>1. x[n - 1] \in Repairs /\ s[n] \in N /\ x[n] = F[<<x[n - 1], s[n]>>]
      BY <1>2, <1>3, <2>1, RunBody
    <3> QED
      BY <1>1, <3>1
  <2> QED
    BY <1>3, <2>1 DEF IsRun
<1>5. chosen = Body(chosen)
  BY <1>4
<1> HIDE DEF chosen
<1>7. chosen[0] = NoRepair
  BY <1>2, <1>3, <1>5, RunStart
<1>8. ASSUME NEW n \in 0 .. Len(s), n # 0, chosen[n - 1] \in Repairs
      PROVE  chosen[n] = F[<<chosen[n - 1], s[n]>>]
  <2>1. s[n] \in N
    BY <1>2, <1>3, <1>8, RunBody
  <2>2. chosen[n] = Repair(w, chosen[n - 1], s[n])
    BY <1>5, <1>8
  <2> QED
    BY <1>1, <1>8, <2>1, <2>2
<1>9. chosen[Len(s)] = Fold(F, NoRepair, s)
  BY <1>1, <1>2, <1>7, <1>8, LoopIs
<1> QED
  BY <1>6, <1>9 DEF F, s

LEMMA RepairKeeps ==
    ASSUME NEW w \in Seq(SaidMessages), NEW n \in 0 .. Len(w) - 1, NEW x \in Repairs,
           NEW r \in Readings, RepairedUpTo(w, n, x, r)
    PROVE  RepairedUpTo(w, n + 1, Repair(w, x, n + 1), Read(r, w[n + 1]))
<1> DEFINE i == n + 1
           m == w[i]
           v == Reading(x.out)
           y == Repair(w, x, i)
           u == Reading(y.out)
           after == Read(r, m)
<1>1. n \in Nat /\ i \in 1 .. Len(w) /\ (\A j \in 1 .. i : j \in 1 .. n \/ j = i) /\ 1 .. n = 1 .. i - 1
  BY LenProperties
<1>2. m \in Messages /\ x.out \in Seq(Messages) /\ x.seen \subseteq Ids
  <2>1. m \in SaidMessages
    BY <1>1, ElementOfSeq
  <2> QED
    BY <2>1 DEF SaidMessages, Repairs
<1>3. m.role \in Roles /\ m.calls \in Seq(Ids) /\ (m.role # "assistant" => m.calls = <<>>)
  BY <1>2, MessageFields
<1>4. /\ v.good /\ v.answered = x.seen /\ x.seen = CalledBy(w, n) /\ v.said = r.said
      /\ \A j \in 1 .. n, id \in Ids : CallsFirst(w, j, id) /\ ResultsOf(id, w, j) # {} => id \in v.told
  BY DEF RepairedUpTo
<1>5. CalledBy(w, i) = CalledBy(w, n) \cup (IF m.errored THEN {} ELSE CallsOf(m))
  <2>1. ASSUME NEW id \in Ids
        PROVE  (\E j \in 1 .. i : ~w[j].errored /\ Has(id, w[j].calls))
                   <=> (\E j \in 1 .. n : ~w[j].errored /\ Has(id, w[j].calls)) \/ (~m.errored /\ Has(id, m.calls))
    BY <1>1
  <2> QED
    BY <2>1 DEF CalledBy, CallsOf
<1>6. m.role # "assistant" => CallsOf(m) = {} /\ \A id \in Ids : ~CallsFirst(w, i, id)
  <2>1. \A id : ~Has(id, <<>>)
    BY DEF Has
  <2> QED
    BY <1>3, <2>1 DEF CallsOf, CallsFirst
<1>7. after.said = IF m.role = "toolResult" THEN r.said ELSE r.said \o m.said
  BY DEF Read
<1>8. CASE m.role = "toolResult"
  <2>1. y = x
    BY <1>8 DEF Repair
  <2>2. x.seen = CalledBy(w, i)
    BY <1>4, <1>5, <1>6, <1>8
  <2>3. ASSUME NEW j \in 1 .. i, NEW id \in Ids, CallsFirst(w, j, id), ResultsOf(id, w, j) # {}
        PROVE  id \in v.told
    BY <1>1, <1>4, <1>6, <1>8, <2>3
  <2> HIDE DEF v, y, m, after
  <2>4. RepairedUpTo(w, i, x, after)
    BY <1>4, <1>7, <1>8, <2>2, <2>3 DEF RepairedUpTo, v
  <2> QED
    BY <2>1, <2>4 DEF y, after, m
<1>9. CASE m.role = "user" \/ (m.role = "assistant" /\ m.errored)
  <2>1. y.out = Append(x.out, m) /\ y.seen = x.seen
    BY <1>9 DEF Repair, Repairs
  <2>2. u = Read(v, m)
    BY <1>2, <2>1, ReadingAppend
  <2> HIDE DEF v, y, u, m, after
  <2>3. /\ u.said = v.said \o m.said /\ u.answered = v.answered
        /\ u.told = v.told /\ u.good = v.good
    BY <1>9, <2>2 DEF Read
  <2>4. y.seen = CalledBy(w, i)
    BY <1>4, <1>5, <1>6, <1>9, <2>1
  <2>5. m.errored => \A id \in Ids : ~CallsFirst(w, i, id)
    BY DEF CallsFirst, m
  <2>6. ASSUME NEW j \in 1 .. i, NEW id \in Ids, CallsFirst(w, j, id), ResultsOf(id, w, j) # {}
        PROVE  id \in u.told
    BY <1>1, <1>4, <1>6, <1>9, <2>3, <2>5, <2>6
  <2>7. u.said = after.said
    BY <1>4, <1>7, <1>9, <2>3
  <2>8. RepairedUpTo(w, i, y, after)
    BY <1>4, <2>1, <2>3, <2>4, <2>6, <2>7 DEF RepairedUpTo, u
  <2> QED
    BY <2>8 DEF y, after, m
<1>10. CASE m.role = "assistant" /\ ~m.errored
  <2> DEFINE first == [x EXCEPT !.out = Append(@, m)]
             z == PushAll(w, i, first, m.calls)
  <2>1. y = z
    BY <1>10 DEF Repair
  <2>2. PushedUpTo(w, i, x, Len(m.calls), z)
    BY <1>1, <1>4, <1>10, PushAllReads
  <2>3. CallsOf(m) = {m.calls[j] : j \in 1 .. Len(m.calls)}
    <3>1. DOMAIN m.calls = 1 .. Len(m.calls) /\ \A j \in 1 .. Len(m.calls) : m.calls[j] \in Ids
      BY <1>3, LenProperties, ElementOfSeq
    <3> QED
      BY <3>1 DEF CallsOf, Has
  <2> HIDE DEF z
  <2>4. /\ u.good /\ u.answered = y.seen /\ u.said = v.said \o m.said
        /\ y.seen = x.seen \cup CallsOf(m) /\ v.told \subseteq u.told
        /\ \A j \in 1 .. Len(m.calls) : m.calls[j] \notin x.seen /\ ResultsOf(m.calls[j], w, i) # {}
                                              => m.calls[j] \in u.told
    BY <2>1, <2>2, <2>3 DEF PushedUpTo
  <2> HIDE DEF v, y, u, m, after
  <2>5. y.seen = CalledBy(w, i)
    BY <1>4, <1>5, <1>10, <2>4
  <2>6. ASSUME NEW j \in 1 .. i, NEW id \in Ids, CallsFirst(w, j, id), ResultsOf(id, w, j) # {}
        PROVE  id \in u.told
    <3>1. CASE j \in 1 .. n
      BY <1>4, <2>4, <2>6, <3>1
    <3>2. CASE j = i
      <4>1. id \in CallsOf(m)
        BY <2>6, <3>2 DEF CallsFirst, CallsOf, m
      <4>2. PICK k \in 1 .. Len(m.calls) : m.calls[k] = id
        BY <2>3, <4>1
      <4>3. id \notin x.seen
        BY <1>1, <1>4, <2>6, <3>2 DEF CallsFirst, CalledBy
      <4> QED
        BY <2>4, <2>6, <3>2, <4>2, <4>3
    <3> QED
      BY <1>1, <3>1, <3>2
  <2>7. u.said = after.said
    BY <1>4, <1>7, <1>10, <2>4
  <2>8. RepairedUpTo(w, i, y, after)
    BY <2>4, <2>5, <2>6, <2>7 DEF RepairedUpTo, u
  <2> QED
    BY <2>8 DEF y, after, m
<1> QED
  BY <1>3, <1>8, <1>9, <1>10 DEF Roles

\* What is read of a repaired window, and of what is sent.
LEMMA RepairedReads ==
    ASSUME NEW w \in Seq(SaidMessages)
    PROVE  /\ Repaired(w) \in Seq(Messages)
           /\ Reading(Repaired(w)).good /\ Reading(Repaired(w)).said = Reading(w).said
           /\ Reading(Repaired(w)).answered = CalledBy(w, Len(w))
           /\ \A i \in 1 .. Len(w), id \in Ids :
                 CallsFirst(w, i, id) /\ ResultsOf(id, w, i) # {} => id \in Reading(Repaired(w)).told
<1> DEFINE F == RepairStep(w)
           s == Positions(w)
           N == 1 .. Len(w)
<1>1. /\ F \in Loops(Repairs, N) /\ NoRepair \in Repairs
      /\ \A acc \in Repairs, i \in N : F[<<acc, i>>] = Repair(w, acc, i)
  BY RepairLoops
<1>2. /\ s \in Seq(N) /\ Len(s) = Len(w) /\ Len(w) \in Nat
      /\ \A i \in 1 .. Len(w) : s[i] = i
  BY PositionsAre, LenProperties
<1>3. Repaired(w) = Fold(F, NoRepair, s).out
  BY RepairedFold
<1> HIDE DEF F, s, N
<1>4. PICK x : IsRun(x, F, NoRepair, s, Repairs) /\ Fold(F, NoRepair, s) = x[Len(s)]
  BY <1>1, <1>2, FoldRun
<1>5. w \in Seq(Messages)
  BY SeqMonotonic DEF SaidMessages
<1>6. PICK r : IsRun(r, ReadStep, Unread, w, Readings) /\ Fold(ReadStep, Unread, w) = r[Len(w)]
  BY <1>5, ReadLoops, FoldRun
<1> DEFINE T == {n \in 0 .. Len(w) : RepairedUpTo(w, n, x[n], r[n])}
<1>7. 0 \in T
  <2>1. x[0] = NoRepair /\ r[0] = Unread
    BY <1>4, <1>6 DEF IsRun
  <2>2. Reading(NoRepair.out) = Unread
    BY ReadingEmpty DEF NoRepair
  <2>3. CalledBy(w, 0) = {}
    BY DEF CalledBy
  <2>4. RepairedUpTo(w, 0, NoRepair, Unread)
    BY <2>2, <2>3 DEF RepairedUpTo, NoRepair, Unread
  <2> QED
    BY <1>2, <2>1, <2>4
<1>8. ASSUME NEW n \in 0 .. Len(w) - 1, n \in T PROVE n + 1 \in T
  <2>1. n + 1 \in 1 .. Len(w) /\ n \in 0 .. Len(s) - 1 /\ n + 1 \in 0 .. Len(w)
    BY <1>2
  <2>2. x[n] \in Repairs /\ s[n + 1] \in N /\ x[n + 1] = F[<<x[n], s[n + 1]>>]
    BY <1>2, <1>4, <2>1, RunStep
  <2>3. r[n] \in Readings /\ w[n + 1] \in Messages /\ r[n + 1] = ReadStep[<<r[n], w[n + 1]>>]
    BY <1>5, <1>6, ReadingStep
  <2>4. x[n + 1] = Repair(w, x[n], n + 1)
    <3>1. s[n + 1] = n + 1
      BY <1>2, <2>1
    <3> QED
      BY <1>1, <2>2, <3>1
  <2>5. r[n + 1] = Read(r[n], w[n + 1])
    BY <2>3, ReadLoops
  <2>6. RepairedUpTo(w, n, x[n], r[n])
    BY <1>8
  <2>7. RepairedUpTo(w, n + 1, Repair(w, x[n], n + 1), Read(r[n], w[n + 1]))
    BY <2>2, <2>3, <2>6, RepairKeeps
  <2> QED
    BY <2>1, <2>4, <2>5, <2>7
<1>9. \A n \in 0 .. Len(w) : n \in T
  <2> HIDE DEF T
  <2> QED
    BY <1>2, <1>7, <1>8, Climb
<1>10. RepairedUpTo(w, Len(w), x[Len(w)], r[Len(w)]) /\ x[Len(w)] \in Repairs
  BY <1>2, <1>4, <1>9 DEF IsRun
<1>11. Repaired(w) = x[Len(w)].out /\ Reading(w) = r[Len(w)]
  BY <1>2, <1>3, <1>4, <1>6 DEF Reading
<1>12. x[Len(w)].out \in Seq(Messages)
  BY <1>10 DEF Repairs
<1> QED
  BY <1>10, <1>11, <1>12 DEF RepairedUpTo

---------------------------------------------------------------------------
(* What a reading tells of the window read                                 *)

\* The assistant's message at j makes the call, and only results follow it up to i.
OpenSince(w, j, i, id) ==
    /\ w[j].role = "assistant" /\ ~w[j].errored /\ Has(id, w[j].calls)
    /\ \A k \in j + 1 .. i : IsResult(w[k])

ReadUpTo(w, n, r) ==
    /\ \A id \in r.open : \E j \in 1 .. n : OpenSince(w, j, n, id)
    /\ \A id \in Ids : id \in r.answered <=> \E j \in 1 .. n : IsResult(w[j]) /\ w[j].of = id
    /\ \A id \in r.told : \E j \in 1 .. n : IsResult(w[j]) /\ w[j].of = id /\ w[j].said # <<>>
    /\ r.good => \A i \in 1 .. n :
          IsResult(w[i]) => /\ \E j \in 1 .. i - 1 : OpenSince(w, j, i, w[i].of)
                            /\ \A j \in 1 .. i - 1 : ~(IsResult(w[j]) /\ w[j].of = w[i].of)

LEMMA ReadKeeps ==
    ASSUME NEW w \in Seq(Messages), NEW n \in 0 .. Len(w) - 1, NEW r \in Readings, ReadUpTo(w, n, r)
    PROVE  ReadUpTo(w, n + 1, Read(r, w[n + 1]))
<1> DEFINE i == n + 1
           m == w[i]
           u == Read(r, m)
<1>1. /\ n \in Nat /\ i \in 1 .. Len(w) /\ (\A j \in 1 .. i : j \in 1 .. n \/ j = i)
      /\ 1 .. n = 1 .. i - 1 /\ (\A j \in 1 .. n : j \in 1 .. i) /\ i \in 1 .. i
  BY LenProperties
<1>2. m \in Messages /\ m.said \in Seq(Nat) /\ m.calls \in Seq(Ids) /\ (m.role = "toolResult" => m.of \in Ids)
  <2>1. m \in Messages
    BY <1>1, ElementOfSeq
  <2> QED
    BY <2>1, MessageFields
<1>3. /\ \A id \in r.open : \E j \in 1 .. n : OpenSince(w, j, n, id)
      /\ \A id \in Ids : id \in r.answered <=> \E j \in 1 .. n : IsResult(w[j]) /\ w[j].of = id
      /\ \A id \in r.told : \E j \in 1 .. n : IsResult(w[j]) /\ w[j].of = id /\ w[j].said # <<>>
      /\ r.good => \A k \in 1 .. n :
            IsResult(w[k]) => /\ \E j \in 1 .. k - 1 : OpenSince(w, j, k, w[k].of)
                              /\ \A j \in 1 .. k - 1 : ~(IsResult(w[j]) /\ w[j].of = w[k].of)
  BY DEF ReadUpTo
<1>4. CASE IsResult(m)
  <2> HIDE DEF u
  <2>1. /\ u.open = r.open /\ u.answered = r.answered \cup {m.of}
        /\ u.told = (IF m.said # <<>> THEN r.told \cup {m.of} ELSE r.told)
        /\ u.good = (r.good /\ m.of \in r.open /\ m.of \notin r.answered)
    BY <1>4 DEF Read, IsResult, u
  <2>2. ASSUME NEW id, NEW j \in 1 .. n, OpenSince(w, j, n, id) PROVE OpenSince(w, j, i, id)
    <3>1. \A k \in j + 1 .. i : k \in j + 1 .. n \/ k = i
      BY <1>1
    <3> QED
      BY <1>4, <2>2, <3>1 DEF OpenSince
  <2>3. ASSUME NEW id \in u.open PROVE \E j \in 1 .. i : OpenSince(w, j, i, id)
    <3>1. PICK j \in 1 .. n : OpenSince(w, j, n, id)
      BY <1>3, <2>1
    <3> QED
      BY <1>1, <2>2, <3>1
  <2>4. ASSUME NEW id \in Ids PROVE id \in u.answered <=> \E j \in 1 .. i : IsResult(w[j]) /\ w[j].of = id
    <3>1. CASE id = m.of
      BY <1>1, <1>4, <2>1, <3>1
    <3>2. CASE id # m.of
      BY <1>1, <1>3, <2>1, <3>2
    <3> QED
      BY <3>1, <3>2
  <2>5. ASSUME NEW id \in u.told PROVE \E j \in 1 .. i : IsResult(w[j]) /\ w[j].of = id /\ w[j].said # <<>>
    <3>1. CASE id \in r.told
      BY <1>1, <1>3, <3>1
    <3>2. CASE id = m.of /\ m.said # <<>>
      BY <1>1, <1>4, <3>2
    <3> QED
      BY <2>1, <2>5, <3>1, <3>2
  <2>6. ASSUME u.good, NEW k \in 1 .. i, IsResult(w[k])
        PROVE  /\ \E j \in 1 .. k - 1 : OpenSince(w, j, k, w[k].of)
               /\ \A j \in 1 .. k - 1 : ~(IsResult(w[j]) /\ w[j].of = w[k].of)
    <3>1. CASE k \in 1 .. n
      BY <1>3, <2>1, <2>6, <3>1
    <3>2. CASE k = i
      <4>1. m.of \in Ids
        BY <1>2, <1>4 DEF IsResult
      <4>2. PICK j \in 1 .. n : OpenSince(w, j, n, m.of)
        BY <1>3, <2>1, <2>6
      <4>3. OpenSince(w, j, i, m.of) /\ j \in 1 .. i - 1
        BY <1>1, <2>2, <4>2
      <4>4. \A l \in 1 .. n : ~(IsResult(w[l]) /\ w[l].of = m.of)
        BY <1>3, <2>1, <2>6, <4>1
      <4> QED
        BY <1>1, <3>2, <4>3, <4>4
    <3> QED
      BY <1>1, <3>1, <3>2
  <2> QED
    BY <2>3, <2>4, <2>5, <2>6 DEF ReadUpTo, u
<1>5. CASE ~IsResult(m)
  <2> HIDE DEF u
  <2>1. /\ u.open = (IF m.role = "assistant" /\ ~m.errored THEN CallsOf(m) ELSE {})
        /\ u.answered = r.answered /\ u.told = r.told /\ u.good = r.good
    BY <1>5 DEF Read, IsResult, u
  <2>3. ASSUME NEW id \in u.open PROVE \E j \in 1 .. i : OpenSince(w, j, i, id)
    <3>1. m.role = "assistant" /\ ~m.errored /\ Has(id, m.calls)
      BY <2>1, <2>3 DEF CallsOf
    <3>2. i + 1 .. i = {}
      BY <1>1
    <3>3. OpenSince(w, i, i, id)
      BY <3>1, <3>2 DEF OpenSince
    <3> QED
      BY <1>1, <3>3
  <2>4. ASSUME NEW id \in Ids PROVE id \in u.answered <=> \E j \in 1 .. i : IsResult(w[j]) /\ w[j].of = id
    BY <1>1, <1>3, <1>5, <2>1
  <2>5. ASSUME NEW id \in u.told PROVE \E j \in 1 .. i : IsResult(w[j]) /\ w[j].of = id /\ w[j].said # <<>>
    BY <1>1, <1>3, <2>1
  <2>6. ASSUME u.good, NEW k \in 1 .. i, IsResult(w[k])
        PROVE  /\ \E j \in 1 .. k - 1 : OpenSince(w, j, k, w[k].of)
               /\ \A j \in 1 .. k - 1 : ~(IsResult(w[j]) /\ w[j].of = w[k].of)
    BY <1>1, <1>3, <1>5, <2>1, <2>6
  <2> QED
    BY <2>3, <2>4, <2>5, <2>6 DEF ReadUpTo, u
<1> QED
  BY <1>4, <1>5

LEMMA ReadingTells ==
    ASSUME NEW w \in Seq(Messages)
    PROVE  ReadUpTo(w, Len(w), Reading(w))
<1>1. PICK r : IsRun(r, ReadStep, Unread, w, Readings) /\ Fold(ReadStep, Unread, w) = r[Len(w)]
  BY ReadLoops, FoldRun
<1>2. Len(w) \in Nat
  BY LenProperties
<1> DEFINE T == {n \in 0 .. Len(w) : ReadUpTo(w, n, r[n])}
<1>3. 0 \in T
  <2>1. r[0] = Unread
    BY <1>1 DEF IsRun
  <2>2. 1 .. 0 = {}
    OBVIOUS
  <2>3. ReadUpTo(w, 0, Unread)
    BY <2>2 DEF ReadUpTo, Unread
  <2> QED
    BY <1>2, <2>1, <2>3
<1>4. ASSUME NEW n \in 0 .. Len(w) - 1, n \in T PROVE n + 1 \in T
  <2>1. r[n] \in Readings /\ w[n + 1] \in Messages /\ r[n + 1] = ReadStep[<<r[n], w[n + 1]>>]
    BY <1>1, ReadingStep
  <2>2. r[n + 1] = Read(r[n], w[n + 1])
    BY <2>1, ReadLoops
  <2>3. ReadUpTo(w, n + 1, Read(r[n], w[n + 1]))
    BY <1>4, <2>1, ReadKeeps
  <2> QED
    BY <1>2, <2>2, <2>3
<1>5. \A n \in 0 .. Len(w) : n \in T
  <2> HIDE DEF T
  <2> QED
    BY <1>2, <1>3, <1>4, Climb
<1>6. ReadUpTo(w, Len(w), r[Len(w)])
  BY <1>2, <1>5
<1> QED
  BY <1>1, <1>6 DEF Reading

LEMMA SaidIsRead ==
    ASSUME NEW w \in Seq(Messages)
    PROVE  Said(w) = Reading(w).said
<1> DEFINE Places(m) == IF IsResult(m) THEN <<>> ELSE m.said
           Body(a) == [n \in 0 .. Len(w) |-> IF n = 0 THEN <<>> ELSE a[n - 1] \o Places(w[n])]
           chosen == CHOOSE a : a = Body(a)
<1>1. PICK r : IsRun(r, ReadStep, Unread, w, Readings) /\ Fold(ReadStep, Unread, w) = r[Len(w)]
  BY ReadLoops, FoldRun
<1>2. Len(w) \in Nat
  BY LenProperties
<1>3. Said(w) = chosen[Len(w)]
  BY DEF Said, Gathered, Folded
<1> DEFINE x == [n \in 0 .. Len(w) |-> r[n].said]
<1>4. ASSUME NEW a \in Readings, NEW m \in Messages PROVE Read(a, m).said = a.said \o Places(m)
  <2>1. CASE IsResult(m)
    <3> DEFINE o == a.said
    <3>1. o \in Seq(Nat)
      BY DEF Readings
    <3> HIDE DEF o
    <3>2. o \o <<>> = o
      BY <3>1, ConcatEmptySeq
    <3>3. Read(a, m).said = o
      BY <2>1 DEF Read, IsResult, o
    <3> QED
      BY <2>1, <3>2, <3>3 DEF o
  <2>2. CASE ~IsResult(m)
    BY <2>2 DEF Read, IsResult
  <2> QED
    BY <2>1, <2>2
<1> HIDE DEF Places
<1>5. ASSUME NEW n \in 0 .. Len(w), n # 0 PROVE x[n] = x[n - 1] \o Places(w[n])
  <2>1. r[n - 1] \in Readings /\ w[n] \in Messages /\ r[n] = ReadStep[<<r[n - 1], w[n]>>]
    BY <1>1, <1>5, RunBody
  <2>2. r[n] = Read(r[n - 1], w[n]) /\ n - 1 \in 0 .. Len(w)
    BY <1>2, <1>5, <2>1, ReadLoops
  <2> QED
    BY <1>4, <2>1, <2>2
<1>6. x[0] = <<>>
  BY <1>1, <1>2 DEF IsRun, Unread
<1>7. x = Body(x)
  <2>1. x = [n \in 0 .. Len(w) |-> x[n]]
    OBVIOUS
  <2> HIDE DEF x
  <2> QED
    BY <1>5, <1>6, <2>1
<1> HIDE DEF x
<1>8. chosen = Body(chosen)
  BY <1>7
<1> HIDE DEF chosen
<1>9. chosen[0] = x[0]
  BY <1>2, <1>6, <1>8
<1>10. ASSUME NEW n \in 0 .. Len(w) - 1, chosen[n] = x[n] PROVE chosen[n + 1] = x[n + 1]
  <2> DEFINE k == n + 1
  <2>1. k \in 0 .. Len(w) /\ k # 0 /\ k - 1 = n
    BY <1>2
  <2> HIDE DEF k
  <2>2. chosen[k] = chosen[k - 1] \o Places(w[k])
    BY <1>8, <2>1
  <2>3. x[k] = x[k - 1] \o Places(w[k])
    BY <1>5, <2>1
  <2> QED
    BY <1>10, <2>1, <2>2, <2>3 DEF k
<1>11. chosen[Len(w)] = x[Len(w)]
  BY <1>2, <1>9, <1>10, Agree
<1> QED
  BY <1>1, <1>2, <1>3, <1>11 DEF x, Reading

---------------------------------------------------------------------------
(* Users and assistants take turns                                         *)

NoTwo(role, w) == \A i \in 1 .. Len(w) - 1 : ~(w[i].role = role /\ w[i + 1].role = role)

LEMMA AppendTurns ==
    ASSUME NEW role, NEW w \in Seq(Messages), NEW m \in Messages, NoTwo(role, w),
           w # <<>> => ~(w[Len(w)].role = role /\ m.role = role)
    PROVE  NoTwo(role, Append(w, m))
<1> DEFINE x == Append(w, m)
<1>1. /\ x \in Seq(Messages) /\ Len(x) = Len(w) + 1 /\ Len(w) \in Nat
      /\ \A i \in 1 .. Len(w) : x[i] = w[i]
      /\ x[Len(w) + 1] = m
  BY AppendProperties, LenProperties
<1>2. Len(w) # 0 => w # <<>>
  BY EmptySeq
<1> HIDE DEF x
<1>3. ASSUME NEW i \in 1 .. Len(x) - 1 PROVE ~(x[i].role = role /\ x[i + 1].role = role)
  <2>1. CASE i = Len(w)
    BY <1>1, <1>2, <1>3, <2>1
  <2>2. CASE i # Len(w)
    <3>1. i \in 1 .. Len(w) - 1 /\ i \in 1 .. Len(w) /\ i + 1 \in 1 .. Len(w)
      BY <1>1, <1>3, <2>2
    <3> QED
      BY <1>1, <3>1 DEF NoTwo
  <2> QED
    BY <2>1, <2>2
<1> QED
  BY <1>3 DEF NoTwo, x

LEMMA FewerTurns ==
    ASSUME NEW role, NEW w \in Seq(Messages), NEW m \in Messages, NEW v \in Messages,
           NoTwo(role, Append(w, m)), v.role = m.role
    PROVE  NoTwo(role, Append(w, v))
<1> DEFINE x == Append(w, m)
           y == Append(w, v)
<1>1. /\ Len(x) = Len(w) + 1 /\ Len(w) \in Nat
      /\ \A i \in 1 .. Len(w) : x[i] = w[i]
      /\ x[Len(w) + 1] = m
  BY AppendProperties, LenProperties
<1>2. /\ Len(y) = Len(w) + 1
      /\ \A i \in 1 .. Len(w) : y[i] = w[i]
      /\ y[Len(w) + 1] = v
  BY AppendProperties
<1> HIDE DEF x, y
<1>3. ASSUME NEW i \in 1 .. Len(w) + 1 PROVE x[i].role = y[i].role
  BY <1>1, <1>2
<1>4. NoTwo(role, x)
  BY DEF x
<1>5. NoTwo(role, y)
  BY <1>1, <1>2, <1>3, <1>4 DEF NoTwo
<1> QED
  BY <1>5 DEF y

LEMMA MergedTurns ==
    ASSUME NEW w \in Seq(Messages)
    PROVE  NoTwo("user", Merged(w, "user"))
<1> DEFINE F == MergeStep("user", Messages)
           e == <<>>
<1>1. /\ F \in Loops(Seq(Messages), Messages)
      /\ \A out \in Seq(Messages), m \in Messages : F[<<out, m>>] = Merge("user", out, m)
  BY MergeLoops
<1>2. Merged(w, "user") = Fold(F, e, w) /\ e \in Seq(Messages) /\ Len(e) = 0
  BY MergedFold, EmptySeq
<1> HIDE DEF F, e
<1>8. F \in Loops(Seq(Messages), Messages)
  BY <1>1
<1>9. e \in Seq(Messages)
  BY <1>2
<1>3. PICK x : IsRun(x, F, e, w, Seq(Messages)) /\ Fold(F, e, w) = x[Len(w)]
  BY <1>8, <1>9, FoldRun
<1>4. Len(w) \in Nat
  BY LenProperties
<1> DEFINE T == {n \in 0 .. Len(w) : NoTwo("user", x[n])}
<1>5. 0 \in T
  <2>1. NoTwo("user", e)
    BY <1>2 DEF NoTwo
  <2> QED
    BY <1>3, <1>4, <2>1 DEF IsRun
<1>6. ASSUME NEW n \in 0 .. Len(w) - 1, n \in T PROVE n + 1 \in T
  <2> DEFINE out == x[n]
             m == w[n + 1]
  <2>1. out \in Seq(Messages) /\ m \in Messages /\ x[n + 1] = F[<<out, m>>]
    BY <1>3, RunStep
  <2>2. x[n + 1] = Merge("user", out, m) /\ NoTwo("user", out)
    BY <1>1, <1>6, <2>1
  <2> HIDE DEF out, m
  <2>3. ASSUME Merge("user", out, m) = Append(out, m),
               out # <<>> /\ m.role = "user" => out[Len(out)].role # "user"
        PROVE  NoTwo("user", Merge("user", out, m))
    <3>1. out # <<>> => ~(out[Len(out)].role = "user" /\ m.role = "user")
      BY <2>3
    <3>2. NoTwo("user", out)
      BY <2>2
    <3>3. NoTwo("user", Append(out, m))
      BY <2>1, <3>1, <3>2, AppendTurns
    <3> QED
      BY <2>3, <3>3
  <2>4. ASSUME JoinsTheLast("user", out, m, Messages)
        PROVE  NoTwo("user", Merge("user", out, m))
    <3>1. PICK f \in Seq(Messages), u \in Messages :
             /\ out = Append(f, u) /\ u.role = "user" /\ m.role = "user"
             /\ Merge("user", out, m) = Append(f, Joined(u, m))
      BY <2>4 DEF JoinsTheLast
    <3> DEFINE v == Joined(u, m)
    <3>2. v \in Messages /\ v.role = u.role
      BY <2>1, <3>1, JoinedType
    <3> HIDE DEF v
    <3>3. NoTwo("user", Append(f, u))
      BY <2>2, <3>1
    <3>4. NoTwo("user", Append(f, v))
      BY <3>2, <3>3, FewerTurns
    <3> QED
      BY <3>1, <3>4 DEF v
  <2>5. NoTwo("user", Merge("user", out, m))
    BY <2>1, <2>2, <2>3, <2>4, MergeCases
  <2> QED
    BY <1>4, <2>2, <2>5
<1>7. \A n \in 0 .. Len(w) : n \in T
  <2> HIDE DEF T
  <2> QED
    BY <1>4, <1>5, <1>6, Climb
<1> QED
  BY <1>2, <1>3, <1>4, <1>7

LEMMA AlternatedTurns ==
    ASSUME NEW w \in Seq(Messages), NoTwo("user", w)
    PROVE  NoTwo("user", Alternated(w)) /\ NoTwo("assistant", Alternated(w))
<1> DEFINE F == AlternateStep
           e == <<>>
<1>1. /\ F \in Loops(Seq(Messages), Messages)
      /\ \A out \in Seq(Messages), m \in Messages : F[<<out, m>>] = Alternate(out, m)
  BY AlternateLoops
<1>2. Alternated(w) = Fold(F, e, w) /\ e \in Seq(Messages) /\ Len(e) = 0
  BY AlternatedFold, EmptySeq
<1> HIDE DEF F, e
<1>8. F \in Loops(Seq(Messages), Messages)
  BY <1>1
<1>9. e \in Seq(Messages) /\ e = <<>>
  BY <1>2 DEF e
<1>10. e \in Seq(Messages)
  BY <1>9
<1>3. PICK x : IsRun(x, F, e, w, Seq(Messages)) /\ Fold(F, e, w) = x[Len(w)]
  BY <1>8, <1>10, FoldRun
<1>4. Len(w) \in Nat
  BY LenProperties
<1> DEFINE Good(n, out) == /\ NoTwo("user", out) /\ NoTwo("assistant", out)
                           /\ out # <<>> => n # 0 /\ out[Len(out)].role = w[n].role
           T == {n \in 0 .. Len(w) : Good(n, x[n])}
<1>5. 0 \in T
  <2>1. NoTwo("user", e) /\ NoTwo("assistant", e)
    BY <1>2 DEF NoTwo
  <2>2. x[0] = e
    BY <1>3 DEF IsRun
  <2> QED
    BY <1>4, <1>9, <2>1, <2>2
<1>6. ASSUME NEW n \in 0 .. Len(w) - 1, n \in T PROVE n + 1 \in T
  <2> DEFINE out == x[n]
             m == w[n + 1]
  <2>1. /\ out \in Seq(Messages) /\ m \in Messages /\ x[n + 1] = F[<<out, m>>]
        /\ n + 1 \in 0 .. Len(w) /\ n + 1 # 0
    BY <1>3, <1>4, RunStep
  <2>2. x[n + 1] = Alternate(out, m) /\ Good(n, out)
    BY <1>1, <1>6, <2>1
  <2>3. out # <<>> => ~(out[Len(out)].role = "user" /\ m.role = "user")
    <3>1. n # 0 => ~(w[n].role = "user" /\ w[n + 1].role = "user")
      <4>1. n # 0 => n \in 1 .. Len(w) - 1
        BY <1>4
      <4> QED
        BY <4>1 DEF NoTwo
    <3> QED
      BY <2>2, <3>1
  <2>4. Good(n, out)
    BY <2>2
  <2> HIDE DEF out
  <2>5. CASE Alternate(out, m) = Append(out, m)
             /\ ~(out # <<>> /\ m.role = "assistant" /\ out[Len(out)].role = "assistant")
    <3> DEFINE y == Append(out, m)
    <3>1. NoTwo("user", y)
      BY <2>1, <2>3, <2>4, AppendTurns
    <3>2. NoTwo("assistant", y)
      BY <2>1, <2>4, <2>5, AppendTurns
    <3>3. y[Len(y)] = m
      BY <2>1, AppendProperties
    <3> HIDE DEF y
    <3>4. Good(n + 1, y)
      BY <2>1, <3>1, <3>2, <3>3
    <3> QED
      BY <2>1, <2>2, <2>5, <3>4 DEF y
  <2>6. CASE Alternate(out, m) = Append(Append(out, User(<<>>)), m)
             /\ out # <<>> /\ m.role = "assistant" /\ out[Len(out)].role = "assistant"
    <3> DEFINE u == User(<<>>)
               one == Append(out, u)
               y == Append(one, m)
    <3>1. u \in Messages /\ u.role = "user"
      BY EmptyUser
    <3> HIDE DEF u
    <3>2. NoTwo("user", one)
      BY <2>1, <2>4, <2>6, <3>1, AppendTurns
    <3>3. NoTwo("assistant", one)
      BY <2>1, <2>4, <3>1, AppendTurns
    <3>4. one \in Seq(Messages) /\ one[Len(one)] = u
      BY <2>1, <3>1, AppendProperties
    <3> HIDE DEF one
    <3>5. NoTwo("user", y)
      BY <2>1, <2>6, <3>2, <3>4, AppendTurns
    <3>6. NoTwo("assistant", y)
      BY <2>1, <3>1, <3>3, <3>4, AppendTurns
    <3>7. y[Len(y)] = m
      BY <2>1, <3>4, AppendProperties
    <3> HIDE DEF y
    <3>8. Good(n + 1, y)
      BY <2>1, <3>5, <3>6, <3>7
    <3> QED
      BY <2>1, <2>2, <2>6, <3>8 DEF y, one, u
  <2> QED
    BY <2>1, <2>5, <2>6, AlternateCases
<1>7. \A n \in 0 .. Len(w) : n \in T
  <2> HIDE DEF T
  <2> QED
    BY <1>4, <1>5, <1>6, Climb
<1> QED
  BY <1>2, <1>3, <1>4, <1>7

---------------------------------------------------------------------------
(* What is sent, for every window                                          *)

LEMMA SaidInTurnsOf ==
    ASSUME NEW w \in Seq(SaidMessages)
    PROVE  /\ Sanitized(w) \in Seq(Messages)
           /\ \A i \in 1 .. Len(Sanitized(w)) - 1 :
                 Sanitized(w)[i].role = Sanitized(w)[i + 1].role => IsResult(Sanitized(w)[i])
           /\ Said(Sanitized(w)) = Said(w)
<1> DEFINE rep == Repaired(w)
           sent == Alternated(Merged(rep, "user"))
<1>1. rep \in Seq(Messages) /\ Reading(rep).said = Reading(w).said
  BY RepairedReads
<1> HIDE DEF rep
<1>2. sent \in Seq(Messages) /\ Reading(sent) = Reading(rep)
  BY <1>1, SanitizedRead
<1>3. NoTwo("user", sent) /\ NoTwo("assistant", sent)
  <2>1. Merged(rep, "user") \in Seq(Messages) /\ NoTwo("user", Merged(rep, "user"))
    BY <1>1, SanitizedRead, MergedTurns
  <2> QED
    BY <2>1, AlternatedTurns
<1>4. Sanitized(w) = sent
  BY DEF Sanitized, rep
<1> HIDE DEF sent
<1>5. w \in Seq(Messages)
  BY SeqMonotonic DEF SaidMessages
<1>6. Said(sent) = Said(w)
  <2>1. Said(sent) = Reading(sent).said
    BY <1>2, SaidIsRead
  <2>2. Said(w) = Reading(w).said
    BY <1>5, SaidIsRead
  <2> QED
    BY <1>1, <1>2, <2>1, <2>2
<1>7. ASSUME NEW i \in 1 .. Len(sent) - 1, sent[i].role = sent[i + 1].role PROVE IsResult(sent[i])
  <2>1. i \in 1 .. Len(sent)
    BY <1>2, LenProperties
  <2>2. sent[i] \in Messages
    BY <1>2, <2>1, ElementOfSeq
  <2>3. sent[i].role \in Roles
    BY <2>2, MessageFields
  <2> QED
    BY <1>3, <1>7, <2>3 DEF NoTwo, Roles, IsResult
<1> QED
  BY <1>2, <1>4, <1>6, <1>7

LEMMA SentReads ==
    ASSUME NEW w \in Seq(SaidMessages)
    PROVE  /\ Sanitized(w) \in Seq(Messages)
           /\ ReadUpTo(Sanitized(w), Len(Sanitized(w)), Reading(Sanitized(w)))
           /\ Reading(Sanitized(w)).good
           /\ Reading(Sanitized(w)).answered = CalledBy(w, Len(w))
           /\ \A i \in 1 .. Len(w), id \in Ids :
                 CallsFirst(w, i, id) /\ ResultsOf(id, w, i) # {} => id \in Reading(Sanitized(w)).told
<1> DEFINE rep == Repaired(w)
           sent == Alternated(Merged(rep, "user"))
<1>1. rep \in Seq(Messages)
  BY RepairedReads
<1>2. /\ Reading(rep).good /\ Reading(rep).answered = CalledBy(w, Len(w))
      /\ \A i \in 1 .. Len(w), id \in Ids :
            CallsFirst(w, i, id) /\ ResultsOf(id, w, i) # {} => id \in Reading(rep).told
  BY RepairedReads
<1> HIDE DEF rep
<1>3. sent \in Seq(Messages) /\ Reading(sent) = Reading(rep)
  BY <1>1, SanitizedRead
<1>4. Sanitized(w) = sent
  BY DEF Sanitized, rep
<1> HIDE DEF sent
<1>5. ReadUpTo(sent, Len(sent), Reading(sent))
  BY <1>3, ReadingTells
<1> QED
  BY <1>2, <1>3, <1>4, <1>5

\* Where a call is made first, of the messages that were not cut short.
LEMMA ResultsStandOf ==
    ASSUME NEW w \in Seq(SaidMessages), NEW sent, sent = Sanitized(w)
    PROVE  /\ \A i \in 1 .. Len(sent) : IsResult(sent[i]) =>
                 \E j \in 1 .. i - 1 : OpenSince(sent, j, i, sent[i].of)
           /\ \A i, j \in 1 .. Len(sent) :
                 IsResult(sent[i]) /\ IsResult(sent[j]) /\ sent[i].of = sent[j].of => i = j
           /\ \A i \in 1 .. Len(w), id \in Ids : CallsFirst(w, i, id) =>
                 \E j \in 1 .. Len(sent) :
                    /\ IsResult(sent[j]) /\ sent[j].of = id
                    /\ ResultsOf(id, w, i) # {} => sent[j].said # <<>>
<1> DEFINE r == Reading(sent)
<1>1. /\ sent \in Seq(Messages) /\ ReadUpTo(sent, Len(sent), r) /\ r.good
      /\ r.answered = CalledBy(w, Len(w))
      /\ \A i \in 1 .. Len(w), id \in Ids :
            CallsFirst(w, i, id) /\ ResultsOf(id, w, i) # {} => id \in r.told
  BY SentReads
<1> HIDE DEF r
<1>2. Len(sent) \in Nat /\ Len(w) \in Nat
  BY <1>1, LenProperties
<1>3. \A i \in 1 .. Len(sent) :
          IsResult(sent[i]) => /\ \E j \in 1 .. i - 1 : OpenSince(sent, j, i, sent[i].of)
                               /\ \A j \in 1 .. i - 1 : ~(IsResult(sent[j]) /\ sent[j].of = sent[i].of)
  BY <1>1 DEF ReadUpTo
<1>4. ASSUME NEW i \in 1 .. Len(sent), NEW j \in 1 .. Len(sent), IsResult(sent[i]), IsResult(sent[j]),
             sent[i].of = sent[j].of
      PROVE  i = j
  <2>1. CASE i < j
    <3>1. i \in 1 .. j - 1
      BY <1>2, <2>1
    <3> QED
      BY <1>3, <1>4, <3>1
  <2>2. CASE j < i
    <3>1. j \in 1 .. i - 1
      BY <1>2, <2>2
    <3> QED
      BY <1>3, <1>4, <3>1
  <2> QED
    BY <1>2, <2>1, <2>2
<1>5. ASSUME NEW i \in 1 .. Len(w), NEW id \in Ids, CallsFirst(w, i, id)
      PROVE  \E j \in 1 .. Len(sent) :
                /\ IsResult(sent[j]) /\ sent[j].of = id
                /\ ResultsOf(id, w, i) # {} => sent[j].said # <<>>
  <2>1. CASE ResultsOf(id, w, i) = {}
    <3>1. id \in r.answered
      BY <1>1, <1>5 DEF CallsFirst, CalledBy
    <3>2. \E j \in 1 .. Len(sent) : IsResult(sent[j]) /\ sent[j].of = id
      BY <1>1, <3>1 DEF ReadUpTo
    <3> QED
      BY <2>1, <3>2
  <2>2. CASE ResultsOf(id, w, i) # {}
    <3>1. id \in r.told
      BY <1>1, <1>5, <2>2
    <3>2. \E j \in 1 .. Len(sent) : IsResult(sent[j]) /\ sent[j].of = id /\ sent[j].said # <<>>
      BY <1>1, <3>1 DEF ReadUpTo
    <3> QED
      BY <3>2
  <2> QED
    BY <2>1, <2>2
<1> QED
  BY <1>3, <1>4, <1>5

---------------------------------------------------------------------------
(* A window read from the server                                           *)

LEMMA ResultsType ==
    ASSUME NEW tools \in Seq(Ids), NEW place \in Nat
    PROVE  [i \in DOMAIN tools |-> Result(tools[i], "text", <<place>>)] \in Seq(SaidMessages)
<1> DEFINE one == <<place>>
           none == <<>>
<1>1. one \in Seq(Nat) /\ one # <<>> /\ none \in Seq(Ids)
  BY One, EmptySeq
<1>2. DOMAIN tools = 1 .. Len(tools) /\ Len(tools) \in Nat
  BY LenProperties
<1>3. ASSUME NEW i \in 1 .. Len(tools) PROVE Result(tools[i], "text", one) \in SaidMessages
  <2> DEFINE id == tools[i]
             r == Result(id, "text", one)
  <2>1. id \in Ids
    BY <1>3, ElementOfSeq
  <2> HIDE DEF one, id
  <2>2. r = [role |-> "toolResult", text |-> "text", calls |-> none,
             errored |-> FALSE, of |-> id, said |-> one]
    BY DEF Result
  <2>3. none = <<>>
    OBVIOUS
  <2> HIDE DEF none, r
  <2>4. r \in Shapes
    BY <1>1, <2>1, <2>2 DEF Shapes, Roles
  <2>5. r \in Messages
    BY <2>1, <2>2, <2>3, <2>4 DEF Messages
  <2> QED
    BY <1>1, <2>2, <2>5 DEF SaidMessages, r, id
<1> QED
  BY <1>2, <1>3, IsASeq DEF one

LEMMA ConvertedType ==
    ASSUME NEW m \in Records, NEW place \in Nat
    PROVE  Converted(m, place) \in Seq(SaidMessages)
<1> DEFINE results == [i \in DOMAIN m.tools |-> Result(m.tools[i], "text", <<place>>)]
           one == <<place>>
           none == <<>>
           spoken == Assistant("text", m.tools, FALSE, one)
           silent == Assistant("none", m.tools, FALSE, none)
           asked == User(one)
<1>1. m.tools \in Seq(Ids)
  BY DEF Records
<1>2. results \in Seq(SaidMessages)
  BY <1>1, ResultsType
<1>3. one \in Seq(Nat) /\ none \in Seq(Nat) /\ none \in Seq(Ids)
  BY One, EmptySeq
<1> HIDE DEF results, one
<1>4. spoken \in SaidMessages
  BY <1>1, <1>3 DEF Assistant, Messages, Shapes, Roles, SaidMessages
<1>5. silent \in SaidMessages
  <2> HIDE DEF none
  <2> QED
    BY <1>1, <1>3 DEF Assistant, Messages, Shapes, Roles, SaidMessages
<1>6. asked \in SaidMessages
  <2>1. asked = [role |-> "user", text |-> "text", calls |-> none, errored |-> FALSE, of |-> "", said |-> one]
    BY DEF User
  <2>3. none = <<>>
    OBVIOUS
  <2> HIDE DEF none, asked
  <2>2. asked \in Messages
    BY <1>3, <2>1, <2>3 DEF Messages, Shapes, Roles
  <2> QED
    BY <2>1, <2>2 DEF SaidMessages
<1> HIDE DEF spoken, silent, asked
<1>7. <<spoken>> \o results \in Seq(SaidMessages) /\ <<silent>> \o results \in Seq(SaidMessages)
  <2>1. <<spoken>> \in Seq(SaidMessages) /\ <<silent>> \in Seq(SaidMessages)
    BY <1>4, <1>5, One
  <2> QED
    BY <1>2, <2>1, ConcatProperties
<1>8. CASE m.role = "assistant"
  BY <1>7, <1>8 DEF Converted, results, one, spoken
<1>9. CASE m.role # "assistant"
  <2> DEFINE a == IF IsToolOnly(m) THEN <<>> ELSE <<asked>>
             b == IF m.tools = <<>> THEN <<>> ELSE <<silent>> \o results
  <2>1. a \in Seq(SaidMessages)
    BY <1>6, One, EmptySeq
  <2>2. b \in Seq(SaidMessages)
    BY <1>7, EmptySeq
  <2>3. Converted(m, place) = a \o b
    BY <1>9 DEF Converted, results, one, none, asked, silent
  <2> HIDE DEF a, b
  <2> QED
    BY <2>1, <2>2, <2>3, ConcatProperties
<1> QED
  BY <1>8, <1>9

ConvertStep == [p \in Seq(SaidMessages) \X Records |-> Convert(p[1], p[2])]

LEMMA ConvertLoops ==
    /\ ConvertStep \in Loops(Seq(SaidMessages), Records)
    /\ \A out \in Seq(SaidMessages), m \in Records : ConvertStep[<<out, m>>] = Convert(out, m)
<1>1. ASSUME NEW out \in Seq(SaidMessages), NEW m \in Records PROVE Convert(out, m) \in Seq(SaidMessages)
  <2> DEFINE place == Len(out) + 1
             more == Converted(m, place)
  <2>1. place \in Nat
    BY LenProperties
  <2> HIDE DEF place
  <2>2. more \in Seq(SaidMessages)
    BY <2>1, ConvertedType
  <2>3. Convert(out, m) = out \o more
    BY DEF Convert, place
  <2> HIDE DEF more
  <2> QED
    BY <2>2, <2>3, ConcatProperties
<1>2. ASSUME NEW p \in Seq(SaidMessages) \X Records PROVE Convert(p[1], p[2]) \in Seq(SaidMessages)
  <2>1. p[1] \in Seq(SaidMessages) /\ p[2] \in Records
    OBVIOUS
  <2> QED
    BY <1>1, <2>1
<1> QED
  BY <1>2 DEF ConvertStep, Loops

LEMMA ConvertedFold ==
    ASSUME NEW w \in Seq(Records)
    PROVE  /\ Folded(Convert, <<>>, w) = Fold(ConvertStep, <<>>, w)
           /\ Folded(Convert, <<>>, w) \in Seq(SaidMessages)
<1> DEFINE F == ConvertStep
           Body(a) == [n \in 0 .. Len(w) |-> IF n = 0 THEN <<>> ELSE Convert(a[n - 1], w[n])]
           chosen == CHOOSE a : a = Body(a)
           e == <<>>
<1>1. F \in Loops(Seq(SaidMessages), Records)
      /\ \A out \in Seq(SaidMessages), m \in Records : F[<<out, m>>] = Convert(out, m)
  BY ConvertLoops
<1>2. e \in Seq(SaidMessages)
  BY EmptySeq
<1> HIDE DEF F, e
<1>3. PICK acc : IsRun(acc, F, e, w, Seq(SaidMessages)) /\ Fold(F, e, w) = acc[Len(w)]
  BY <1>1, <1>2, FoldRun
<1>4. acc = Body(acc)
  <2>1. ASSUME NEW n \in 0 .. Len(w), n # 0 PROVE acc[n] = Convert(acc[n - 1], w[n])
    <3>1. acc[n - 1] \in Seq(SaidMessages) /\ w[n] \in Records /\ acc[n] = F[<<acc[n - 1], w[n]>>]
      BY <1>3, <2>1, RunBody
    <3> QED
      BY <1>1, <3>1
  <2> QED
    BY <1>3, <2>1 DEF IsRun, e
<1>5. chosen = Body(chosen)
  BY <1>4
<1>6. Folded(Convert, <<>>, w) = chosen[Len(w)]
  BY DEF Folded
<1> HIDE DEF chosen
<1>7. chosen[0] = e
  BY <1>3, <1>5, RunStart DEF e
<1>8. ASSUME NEW n \in 0 .. Len(w), n # 0, chosen[n - 1] \in Seq(SaidMessages)
      PROVE  chosen[n] = F[<<chosen[n - 1], w[n]>>]
  <2>1. w[n] \in Records
    BY <1>3, <1>8, RunBody
  <2>2. chosen[n] = Convert(chosen[n - 1], w[n])
    BY <1>5, <1>8
  <2> QED
    BY <1>1, <1>8, <2>1, <2>2
<1>9. chosen[Len(w)] = Fold(F, e, w)
  BY <1>1, <1>2, <1>7, <1>8, LoopIs
<1> QED
  BY <1>3, <1>6, <1>9, RunStart DEF F, e

LEMMA StoredType == ASSUME NEW s \in Seq(Messages) PROVE Stored(s) \in Seq(Records)
<1> DEFINE x == Extracts(s)
           r == Fold(CoalesceStep, NoRound, x)
<1>1. x \in Seq(Records) /\ Stored(s) = r.out
  BY StoredFold
<1> HIDE DEF x
<1>2. r \in Rounds
  BY <1>1, CoalesceLoops, FoldType
<1> HIDE DEF r
<1> QED
  BY <1>1, <1>2 DEF Rounds

LEMMA ContextType == ASSUME NEW s \in Seq(Records) PROVE SessionContext(s) \in Seq(SaidMessages)
<1> DEFINE w == Folded(Convert, <<>>, s)
<1>1. w \in Seq(SaidMessages)
  BY ConvertedFold
<1>2. SessionContext(s) = Merged(w, "assistant")
  BY DEF SessionContext
<1> HIDE DEF w
<1> QED
  BY <1>1, <1>2, MergedFold

LEMMA WindowType == ASSUME TranscriptInv PROVE Window \in Seq(SaidMessages)
<1>1. messages \in Seq(Messages) /\ DOMAIN messages = 1 .. Len(messages)
  BY LenProperties DEF TranscriptInv
<1>2. CASE kind = "server"
  BY <1>1, <1>2, StoredType, ContextType DEF Window
<1>3. CASE kind = "live"
  <2>1. \A i \in 1 .. Len(messages) : messages[i] \in SaidMessages
    BY <1>1, ElementOfSeq DEF SaidMessages, TranscriptInv
  <2>2. messages \in Seq(SaidMessages)
    BY <1>1, <2>1, SeqDef, LenProperties
  <2> QED
    BY <1>3, <2>2 DEF Window
<1> QED
  BY <1>2, <1>3 DEF TranscriptInv

\* Users and assistants take turns in whatever is sent, and all they said is sent.
LEMMA TurnsTaken == ASSUME TranscriptInv PROVE SaidInTurns
<1> DEFINE w == Window
<1>1. w \in Seq(SaidMessages)
  BY WindowType
<1> HIDE DEF w
<1>2. /\ \A i \in 1 .. Len(Sanitized(w)) - 1 :
             Sanitized(w)[i].role = Sanitized(w)[i + 1].role => IsResult(Sanitized(w)[i])
      /\ Said(Sanitized(w)) = Said(w)
  BY <1>1, SaidInTurnsOf
<1> QED
  BY <1>2 DEF SaidInTurns, Sent, w

\* Whatever the conversation, and whether its window comes from the server or from the
\* host: users and assistants alternate in what the model is sent, and nothing they said
\* is lost or out of order (context-message-adapter.ts, session-transcript-repair.ts).
THEOREM TurnsAlternate == TranscriptSpec => []SaidInTurns
<1>1. TranscriptInv => SaidInTurns
  BY TurnsTaken
<1> QED
  BY <1>1, TranscriptInvariant, PTL

LEMMA ResultsPaired == ASSUME TranscriptInv PROVE ResultsStandWithTheirCalls
<1> DEFINE w == Window
           sent == Sanitized(w)
<1>1. w \in Seq(SaidMessages)
  BY WindowType
<1>2. DOMAIN w = 1 .. Len(w)
  BY <1>1, LenProperties
<1> HIDE DEF w
<1>3. sent \in Seq(Messages) /\ DOMAIN sent = 1 .. Len(sent)
  BY <1>1, SaidInTurnsOf, LenProperties
<1> HIDE DEF sent
<1>4. sent = Sanitized(w) /\ Sent = sent /\ Window = w
  BY DEF sent, w, Sent
<1>5. /\ \A i \in 1 .. Len(sent) : IsResult(sent[i]) =>
             \E j \in 1 .. i - 1 : OpenSince(sent, j, i, sent[i].of)
      /\ \A i, j \in 1 .. Len(sent) :
             IsResult(sent[i]) /\ IsResult(sent[j]) /\ sent[i].of = sent[j].of => i = j
      /\ \A i \in 1 .. Len(w), id \in Ids : CallsFirst(w, i, id) =>
             \E j \in 1 .. Len(sent) :
                /\ IsResult(sent[j]) /\ sent[j].of = id
                /\ ResultsOf(id, w, i) # {} => sent[j].said # <<>>
  BY <1>1, <1>4, ResultsStandOf
<1> QED
  BY <1>2, <1>3, <1>4, <1>5 DEF ResultsStandWithTheirCalls, OpenSince, CallsFirst

\* Whatever the conversation - results late, twice, or of no call, turns cut short - a
\* result is sent only directly after the message that made the call, once to an id, and
\* the real one is sent where there is one (session-transcript-repair.ts).
THEOREM ResultsStand == TranscriptSpec => []ResultsStandWithTheirCalls
<1>1. TranscriptInv => ResultsStandWithTheirCalls
  BY ResultsPaired
<1> QED
  BY <1>1, TranscriptInvariant, PTL

---------------------------------------------------------------------------
(* A window read from the server pairs every call with its result          *)

\* A reader of a window: the calls last made, how many of them have their results, and
\* whether everything so far stood where it should.
Pairings == [calls : Seq(Ids), done : Nat, good : BOOLEAN]
Unpaired == [calls |-> <<>>, done |-> 0, good |-> TRUE]

Pair(a, m) ==
    IF m.role = "toolResult"
    THEN [calls |-> a.calls, done |-> a.done + 1,
          good |-> (a.good /\ a.done < Len(a.calls) /\ m.of = a.calls[a.done + 1])]
    ELSE [calls |-> m.calls, done |-> 0, good |-> (a.good /\ a.done = Len(a.calls))]

PairStep == [p \in Pairings \X Messages |-> Pair(p[1], p[2])]
Pairing(w) == Fold(PairStep, Unpaired, w)
Closed(a) == a.good /\ a.done = Len(a.calls)

LEMMA PairType == ASSUME NEW a \in Pairings, NEW m \in Messages PROVE Pair(a, m) \in Pairings
<1>1. m.calls \in Seq(Ids) /\ a.calls \in Seq(Ids) /\ a.done \in Nat /\ a.good \in BOOLEAN
  BY MessageFields DEF Pairings
<1> QED
  BY <1>1 DEF Pair, Pairings

LEMMA PairLoops ==
    /\ PairStep \in Loops(Pairings, Messages)
    /\ \A a \in Pairings, m \in Messages : PairStep[<<a, m>>] = Pair(a, m)
    /\ Unpaired \in Pairings
<1>1. ASSUME NEW p \in Pairings \X Messages PROVE Pair(p[1], p[2]) \in Pairings
  <2>1. p[1] \in Pairings /\ p[2] \in Messages
    OBVIOUS
  <2> QED
    BY <2>1, PairType
<1>2. <<>> \in Seq(Ids)
  BY EmptySeq
<1> QED
  BY <1>1, <1>2 DEF PairStep, Loops, Pairings, Unpaired

LEMMA PairingStep ==
    ASSUME NEW w \in Seq(Messages), NEW b, NEW r, IsRun(r, PairStep, b, w, Pairings),
           NEW n \in 0 .. Len(w) - 1
    PROVE  r[n] \in Pairings /\ w[n + 1] \in Messages /\ r[n + 1] = Pair(r[n], w[n + 1])
<1>1. r[n] \in Pairings /\ w[n + 1] \in Messages /\ r[n + 1] = PairStep[<<r[n], w[n + 1]>>]
  BY RunStep
<1> QED
  BY <1>1, PairLoops

LEMMA PairingEmpty == Pairing(<<>>) = Unpaired
  BY PairLoops, FoldEmpty DEF Pairing

LEMMA PairingAppend ==
    ASSUME NEW w \in Seq(Messages), NEW m \in Messages
    PROVE  Pairing(w) \in Pairings /\ Pairing(Append(w, m)) = Pair(Pairing(w), m)
<1>1. Pairing(w) \in Pairings
  BY PairLoops, FoldType DEF Pairing
<1>2. Pairing(Append(w, m)) = PairStep[<<Pairing(w), m>>]
  BY PairLoops, FoldAppend DEF Pairing
<1> QED
  BY <1>1, <1>2, PairLoops

LEMMA PairingConcat ==
    ASSUME NEW w \in Seq(Messages), NEW v \in Seq(Messages)
    PROVE  Pairing(w) \in Pairings /\ Pairing(w \o v) = Fold(PairStep, Pairing(w), v)
  BY PairLoops, FoldType, FoldConcat DEF Pairing

\* The results of a message's calls, in the order of the calls.
LEMMA ResultsPair ==
    ASSUME NEW a \in Pairings, a.good, a.done = 0, NEW v \in Seq(Messages), Len(v) = Len(a.calls),
           \A k \in 1 .. Len(v) : v[k].role = "toolResult" /\ v[k].of = a.calls[k]
    PROVE  Closed(Fold(PairStep, a, v)) /\ Fold(PairStep, a, v) \in Pairings
<1>1. PICK r : IsRun(r, PairStep, a, v, Pairings) /\ Fold(PairStep, a, v) = r[Len(v)]
  BY PairLoops, FoldRun
<1>2. Len(v) \in Nat
  BY LenProperties
<1> DEFINE T == {n \in 0 .. Len(v) : r[n].good /\ r[n].calls = a.calls /\ r[n].done = n}
<1>3. 0 \in T
  BY <1>1, <1>2 DEF IsRun
<1>4. ASSUME NEW n \in 0 .. Len(v) - 1, n \in T PROVE n + 1 \in T
  <2>1. IsRun(r, PairStep, a, v, Pairings)
    BY <1>1
  <2>2. r[n + 1] = Pair(r[n], v[n + 1])
    BY <2>1, PairingStep
  <2>3. n + 1 \in 1 .. Len(v) /\ n < Len(v)
    BY <1>2
  <2>4. v[n + 1].role = "toolResult" /\ v[n + 1].of = a.calls[n + 1]
    BY <2>3
  <2>5. r[n].good /\ r[n].calls = a.calls /\ r[n].done = n
    BY <1>4
  <2>6. r[n + 1].good /\ r[n + 1].calls = a.calls /\ r[n + 1].done = n + 1
    <3> DEFINE p == r[n]
               q == v[n + 1]
               k == n + 1
    <3>1. /\ p.good /\ p.calls = a.calls /\ p.done = n /\ n < Len(p.calls)
          /\ k = p.done + 1 /\ q.role = "toolResult" /\ q.of = a.calls[k]
      BY <2>3, <2>4, <2>5
    <3> HIDE DEF p, q, k
    <3>2. Pair(p, q) = [calls |-> p.calls, done |-> k, good |-> (p.good /\ p.done < Len(p.calls) /\ q.of = p.calls[k])]
      BY <3>1 DEF Pair
    <3>4. p.good /\ p.done < Len(p.calls) /\ q.of = p.calls[k]
      BY <3>1
    <3>5. Pair(p, q) = [calls |-> p.calls, done |-> k, good |-> TRUE]
      BY <3>2, <3>4
    <3>3. Pair(p, q).good /\ Pair(p, q).calls = a.calls /\ Pair(p, q).done = k
      BY <3>1, <3>5
    <3> QED
      BY <2>2, <3>3 DEF p, q, k
  <2> QED
    BY <1>2, <2>3, <2>6
<1>5. \A n \in 0 .. Len(v) : n \in T
  <2> HIDE DEF T
  <2> QED
    BY <1>2, <1>3, <1>4, Climb
<1>6. Len(v) \in T /\ r[Len(v)] \in Pairings
  BY <1>1, <1>2, <1>5 DEF IsRun
<1> QED
  BY <1>1, <1>6 DEF Closed

\* An assistant's message with the results of its calls.
LEMMA RoundPairs ==
    ASSUME NEW a \in Pairings, Closed(a), NEW m \in Messages, m.role = "assistant",
           NEW v \in Seq(Messages), Len(v) = Len(m.calls),
           \A k \in 1 .. Len(v) : v[k].role = "toolResult" /\ v[k].of = m.calls[k]
    PROVE  /\ Closed(Fold(PairStep, a, <<m>> \o v))
           /\ Fold(PairStep, a, <<m>> \o v) \in Pairings
<1> DEFINE one == <<m>>
           b == Fold(PairStep, a, one)
<1>1. one \in Seq(Messages)
  BY One
<1> HIDE DEF one, b
<1>2. Fold(PairStep, a, one \o v) = Fold(PairStep, b, v)
  BY <1>1, PairLoops, FoldConcat DEF b
<1>3. b = Pair(a, m)
  <2>1. one = Append(<<>>, m)
    BY DEF one
  <2>2. <<>> \in Seq(Messages)
    BY EmptySeq
  <2> DEFINE e == <<>>
  <2>3. Fold(PairStep, a, e) = a
    BY PairLoops, FoldEmpty
  <2>4. e \in Seq(Messages) /\ one = Append(e, m)
    BY <2>1, <2>2
  <2> HIDE DEF e
  <2>5. Fold(PairStep, a, Append(e, m)) = PairStep[<<Fold(PairStep, a, e), m>>]
    BY <2>4, PairLoops, FoldAppend
  <2>6. b = PairStep[<<a, m>>]
    BY <2>3, <2>4, <2>5 DEF b
  <2> QED
    BY <2>6, PairLoops
<1>4. b \in Pairings /\ b.good /\ b.done = 0 /\ b.calls = m.calls
  BY <1>3, PairType DEF Pair, Closed
<1>5. Closed(Fold(PairStep, b, v)) /\ Fold(PairStep, b, v) \in Pairings
  BY <1>4, ResultsPair
<1> QED
  BY <1>2, <1>5 DEF one

\* What is converted of one of the server's messages.
LEMMA ConvertedPairs ==
    ASSUME NEW a \in Pairings, Closed(a), NEW m \in Records, NEW place \in Nat
    PROVE  /\ Closed(Fold(PairStep, a, Converted(m, place)))
           /\ Fold(PairStep, a, Converted(m, place)) \in Pairings
<1> DEFINE results == [i \in DOMAIN m.tools |-> Result(m.tools[i], "text", <<place>>)]
           one == <<place>>
           none == <<>>
           spoken == Assistant("text", m.tools, FALSE, one)
           silent == Assistant("none", m.tools, FALSE, none)
           asked == User(one)
<1>1. m.tools \in Seq(Ids) /\ DOMAIN m.tools = 1 .. Len(m.tools) /\ Len(m.tools) \in Nat
  BY LenProperties DEF Records
<1>2. results \in Seq(Messages)
  <2>1. results \in Seq(SaidMessages)
    BY <1>1, ResultsType
  <2> HIDE DEF results
  <2> QED
    BY <2>1, SeqMonotonic DEF SaidMessages
<1>3. /\ Len(results) = Len(m.tools)
      /\ \A k \in 1 .. Len(results) : results[k].role = "toolResult" /\ results[k].of = m.tools[k]
  BY <1>1 DEF Result
<1>4. one \in Seq(Nat) /\ none \in Seq(Nat) /\ none \in Seq(Ids)
  BY One, EmptySeq
<1> HIDE DEF results, one
<1>5. spoken \in Messages /\ spoken.role = "assistant" /\ spoken.calls = m.tools
  BY <1>1, <1>4 DEF Assistant, Messages, Shapes, Roles
<1>6. silent \in Messages /\ silent.role = "assistant" /\ silent.calls = m.tools
  <2> HIDE DEF none
  <2> QED
    BY <1>1, <1>4 DEF Assistant, Messages, Shapes, Roles
<1>7. asked \in Messages /\ asked.role = "user" /\ Len(asked.calls) = 0
  <2>1. asked = [role |-> "user", text |-> "text", calls |-> none, errored |-> FALSE, of |-> "", said |-> one]
    BY DEF User
  <2>2. none = <<>> /\ Len(none) = 0
    OBVIOUS
  <2> HIDE DEF none, asked
  <2>3. asked \in Messages
    BY <1>4, <2>1, <2>2 DEF Messages, Shapes, Roles
  <2> QED
    BY <2>1, <2>2, <2>3
<1> HIDE DEF spoken, silent, asked
<1>8. CASE m.role = "assistant"
  <2>1. Converted(m, place) = <<spoken>> \o results
    BY <1>8 DEF Converted, results, one, spoken
  <2> QED
    BY <1>2, <1>3, <1>5, <2>1, RoundPairs
<1>9. CASE m.role # "assistant"
  <2> DEFINE x == IF IsToolOnly(m) THEN <<>> ELSE <<asked>>
             y == IF m.tools = <<>> THEN <<>> ELSE <<silent>> \o results
             b == Fold(PairStep, a, x)
  <2>1. Converted(m, place) = x \o y
    BY <1>9 DEF Converted, results, one, none, asked, silent
  <2>2. x \in Seq(Messages)
    BY <1>7, One, EmptySeq
  <2>3. y \in Seq(Messages)
    <3>1. <<silent>> \o results \in Seq(Messages)
      BY <1>2, <1>6, One, ConcatProperties
    <3> QED
      BY <3>1, EmptySeq
  <2>4. Closed(b) /\ b \in Pairings
    <3>1. CASE IsToolOnly(m)
      BY <3>1, PairLoops, FoldEmpty
    <3>2. CASE ~IsToolOnly(m)
      <4> DEFINE e == <<>>
      <4>1. e \in Seq(Messages) /\ x = Append(e, asked)
        BY <3>2, EmptySeq
      <4>2. Fold(PairStep, a, e) = a
        BY PairLoops, FoldEmpty
      <4> HIDE DEF e, x
      <4>3. Fold(PairStep, a, Append(e, asked)) = PairStep[<<Fold(PairStep, a, e), asked>>]
        BY <1>7, <4>1, PairLoops, FoldAppend
      <4>4. b = Pair(a, asked)
        BY <1>7, <4>1, <4>2, <4>3, PairLoops
      <4> HIDE DEF b
      <4> QED
        BY <1>7, <4>4, PairType DEF Pair, Closed
    <3> QED
      BY <3>1, <3>2
  <2> HIDE DEF b
  <2>5. Fold(PairStep, a, x \o y) = Fold(PairStep, b, y)
    <3> HIDE DEF x, y
    <3> QED
      BY <2>2, <2>3, PairLoops, FoldConcat DEF b
  <2>6. Closed(Fold(PairStep, b, y)) /\ Fold(PairStep, b, y) \in Pairings
    <3>1. CASE m.tools = <<>>
      BY <2>4, <3>1, PairLoops, FoldEmpty
    <3>2. CASE m.tools # <<>>
      <4>1. y = <<silent>> \o results
        BY <3>2
      <4> HIDE DEF y
      <4> QED
        BY <1>2, <1>3, <1>6, <2>4, <4>1, RoundPairs
    <3> QED
      BY <3>1, <3>2
  <2> HIDE DEF x, y
  <2> QED
    BY <2>1, <2>5, <2>6
<1> QED
  BY <1>8, <1>9

LEMMA AssistantsJoined ==
    ASSUME NEW u \in Messages, NEW m \in Messages, u.role = "assistant", m.role = "assistant"
    PROVE  /\ Joined(u, m) \in Messages /\ Joined(u, m).role = "assistant"
           /\ Joined(u, m).calls = u.calls \o m.calls
  BY JoinedType

\* A message merged onto the last one had nothing waiting before it.
LEMMA MergePairs ==
    ASSUME NEW out \in Seq(Messages), NEW m \in Messages, Pair(Pairing(out), m).good
    PROVE  Pairing(Merge("assistant", out, m)) = Pair(Pairing(out), m)
<1>1. CASE Merge("assistant", out, m) = Append(out, m)
  BY <1>1, PairingAppend
<1>2. CASE JoinsTheLast("assistant", out, m, Messages)
  <2>1. PICK f \in Seq(Messages), u \in Messages :
           /\ out = Append(f, u) /\ u.role = "assistant" /\ m.role = "assistant"
           /\ Merge("assistant", out, m) = Append(f, Joined(u, m))
    BY <1>2 DEF JoinsTheLast
  <2> DEFINE v == Joined(u, m)
             p == Pairing(f)
  <2>2. /\ v \in Messages /\ v.role = "assistant" /\ v.calls = u.calls \o m.calls
        /\ u.calls \in Seq(Ids) /\ m.calls \in Seq(Ids)
    <3>2. v \in Messages /\ v.role = "assistant" /\ v.calls = u.calls \o m.calls
      BY <2>1, AssistantsJoined
    <3>3. u.calls \in Seq(Ids) /\ m.calls \in Seq(Ids)
      BY MessageFields
    <3> QED
      BY <3>2, <3>3
  <2> HIDE DEF v
  <2>3. /\ p \in Pairings /\ Pairing(out) = Pair(p, u)
        /\ Pairing(Append(f, v)) = Pair(p, v)
    BY <2>1, <2>2, PairingAppend
  <2> HIDE DEF p
  <2>4. Pair(Pair(p, u), m).good
    BY <2>3
  <2>5. /\ Pair(p, u).calls = u.calls /\ Pair(p, u).done = 0
        /\ Pair(p, u).good = (p.good /\ p.done = Len(p.calls))
    BY <2>1 DEF Pair
  <2>6. /\ Pair(Pair(p, u), m) = [calls |-> m.calls, done |-> 0, good |-> TRUE]
        /\ Pair(p, u).good /\ Pair(p, u).done = Len(Pair(p, u).calls)
    BY <2>1, <2>4 DEF Pair
  <2>7. p.good /\ p.done = Len(p.calls) /\ Len(u.calls) = 0
    BY <2>5, <2>6
  <2>8. v.calls = m.calls
    <3> DEFINE x == u.calls
               y == m.calls
    <3>1. x \in Seq(Ids) /\ y \in Seq(Ids) /\ Len(x) = 0 /\ v.calls = x \o y
      BY <2>2, <2>7
    <3> HIDE DEF x, y
    <3>2. x = <<>>
      BY <3>1, EmptySeq
    <3>3. <<>> \o y = y
      BY <3>1, ConcatEmptySeq
    <3> QED
      BY <3>1, <3>2, <3>3 DEF y
  <2>9. Pair(p, v) = [calls |-> m.calls, done |-> 0, good |-> TRUE]
    BY <2>2, <2>7, <2>8 DEF Pair
  <2> QED
    BY <2>1, <2>3, <2>6, <2>9 DEF v
<1> QED
  BY <1>1, <1>2, MergeCases

LEMMA LoopPairs ==
    ASSUME NEW F \in Loops(Seq(Messages), Messages), NEW w \in Seq(Messages),
           \A out \in Seq(Messages), m \in Messages :
              Pair(Pairing(out), m).good => Pairing(F[<<out, m>>]) = Pair(Pairing(out), m),
           Pairing(w).good
    PROVE  Pairing(Fold(F, <<>>, w)) = Pairing(w)
<1> DEFINE e == <<>>
<1>1. e \in Seq(Messages)
  BY EmptySeq
<1>2. Pairing(e) = Unpaired
  BY PairingEmpty
<1> HIDE DEF e
<1>3. PICK x : IsRun(x, F, e, w, Seq(Messages)) /\ Fold(F, e, w) = x[Len(w)]
  BY <1>1, FoldRun
<1>4. PICK r : IsRun(r, PairStep, Unpaired, w, Pairings) /\ Fold(PairStep, Unpaired, w) = r[Len(w)]
  BY PairLoops, FoldRun
<1> DEFINE T == {n \in 0 .. Len(w) : r[n].good => Pairing(x[n]) = r[n]}
<1>5. Len(w) \in Nat
  BY LenProperties
<1>6. 0 \in T
  BY <1>2, <1>3, <1>4, <1>5 DEF IsRun
<1>7. ASSUME NEW n \in 0 .. Len(w) - 1, n \in T PROVE n + 1 \in T
  <2>1. /\ n + 1 \in 0 .. Len(w)
        /\ x[n] \in Seq(Messages) /\ w[n + 1] \in Messages /\ x[n + 1] = F[<<x[n], w[n + 1]>>]
    BY <1>3, RunStep
  <2>2. r[n] \in Pairings /\ r[n + 1] = Pair(r[n], w[n + 1])
    BY <1>4, PairingStep
  <2>3. ASSUME r[n + 1].good PROVE Pairing(x[n + 1]) = r[n + 1]
    <3> DEFINE p == r[n]
               q == w[n + 1]
    <3>0. Pair(p, q).good /\ p.good \in BOOLEAN
      BY <2>2, <2>3 DEF Pairings
    <3> HIDE DEF p, q
    <3>5. p.good
      <4>1. CASE q.role = "toolResult"
        BY <3>0, <4>1 DEF Pair
      <4>2. CASE q.role # "toolResult"
        BY <3>0, <4>2 DEF Pair
      <4> QED
        BY <4>1, <4>2
    <3>1. r[n].good
      BY <3>5 DEF p
    <3>2. Pairing(x[n]) = r[n]
      BY <1>7, <3>1
    <3>3. Pair(Pairing(x[n]), w[n + 1]).good
      BY <2>2, <2>3, <3>2
    <3>4. Pairing(F[<<x[n], w[n + 1]>>]) = Pair(Pairing(x[n]), w[n + 1])
      BY <2>1, <3>3
    <3> QED
      BY <2>1, <2>2, <3>2, <3>4
  <2> QED
    BY <2>1, <2>3
<1>8. \A n \in 0 .. Len(w) : n \in T
  <2> HIDE DEF T
  <2> QED
    BY <1>5, <1>6, <1>7, Climb
<1> QED
  BY <1>3, <1>4, <1>5, <1>8 DEF Pairing, e

\* In the window read from the server every call is followed by its result.
LEMMA ContextPairs ==
    ASSUME NEW s \in Seq(Records)
    PROVE  SessionContext(s) \in Seq(Messages) /\ Closed(Pairing(SessionContext(s)))
<1> DEFINE F == ConvertStep
           w == Folded(Convert, <<>>, s)
           e == <<>>
<1>1. w = Fold(F, e, s) /\ w \in Seq(SaidMessages)
  BY ConvertedFold
<1>2. \A out \in Seq(SaidMessages), m \in Records : F[<<out, m>>] = Convert(out, m)
  BY ConvertLoops
<1>3. e \in Seq(SaidMessages) /\ Pairing(e) = Unpaired /\ Closed(Unpaired)
  BY EmptySeq, PairingEmpty DEF Closed, Unpaired
<1>4. F \in Loops(Seq(SaidMessages), Records)
  BY ConvertLoops
<1> HIDE DEF F, e, w
<1>5. PICK x : IsRun(x, F, e, s, Seq(SaidMessages)) /\ Fold(F, e, s) = x[Len(s)]
  BY <1>3, <1>4, FoldRun
<1>6. Len(s) \in Nat
  BY LenProperties
<1> DEFINE T == {n \in 0 .. Len(s) : Closed(Pairing(x[n]))}
<1>7. 0 \in T
  BY <1>3, <1>5, <1>6 DEF IsRun
<1>8. ASSUME NEW n \in 0 .. Len(s) - 1, n \in T PROVE n + 1 \in T
  <2> DEFINE out == x[n]
             m == s[n + 1]
             place == Len(out) + 1
             more == Converted(m, place)
  <2>1. /\ n + 1 \in 0 .. Len(s)
        /\ out \in Seq(SaidMessages) /\ m \in Records /\ x[n + 1] = F[<<out, m>>]
    BY <1>5, RunStep
  <2>2. Closed(Pairing(out))
    BY <1>8
  <2> HIDE DEF out, m
  <2>3. out \in Seq(Messages)
    BY <2>1, SeqMonotonic DEF SaidMessages
  <2>4. x[n + 1] = out \o more
    BY <1>2, <2>1 DEF Convert
  <2>5. place \in Nat
    BY <2>1, LenProperties
  <2> HIDE DEF place
  <2>6. more \in Seq(SaidMessages)
    BY <2>1, <2>5, ConvertedType
  <2>7. Pairing(out) \in Pairings
    BY <2>3, PairLoops, FoldType DEF Pairing
  <2>8. Closed(Fold(PairStep, Pairing(out), more))
    BY <2>1, <2>2, <2>5, <2>7, ConvertedPairs
  <2> HIDE DEF more
  <2>9. more \in Seq(Messages)
    BY <2>6, SeqMonotonic DEF SaidMessages
  <2>10. Closed(Pairing(out \o more))
    BY <2>3, <2>8, <2>9, PairingConcat
  <2> QED
    BY <2>1, <2>4, <2>10
<1>9. \A n \in 0 .. Len(s) : n \in T
  <2> HIDE DEF T
  <2> QED
    BY <1>6, <1>7, <1>8, Climb
<1>10. Closed(Pairing(w))
  BY <1>1, <1>5, <1>6, <1>9
<1>11. w \in Seq(Messages)
  BY <1>1, SeqMonotonic DEF SaidMessages
<1> DEFINE G == MergeStep("assistant", Messages)
           merged == Merged(w, "assistant")
<1>12. /\ G \in Loops(Seq(Messages), Messages)
       /\ \A out \in Seq(Messages), m \in Messages : G[<<out, m>>] = Merge("assistant", out, m)
  BY MergeLoops
<1>13. merged = Fold(G, <<>>, w) /\ merged \in Seq(Messages)
  BY <1>11, MergedFold
<1> HIDE DEF G
<1>14. Pairing(merged) = Pairing(w)
  <2>1. \A out \in Seq(Messages), m \in Messages :
           Pair(Pairing(out), m).good => Pairing(G[<<out, m>>]) = Pair(Pairing(out), m)
    BY <1>12, MergePairs
  <2>2. Pairing(w).good
    BY <1>10 DEF Closed
  <2> HIDE DEF merged
  <2> QED
    BY <1>11, <1>12, <1>13, <2>1, <2>2, LoopPairs
<1>15. SessionContext(s) = merged
  BY DEF SessionContext, w
<1> QED
  BY <1>10, <1>13, <1>14, <1>15

---------------------------------------------------------------------------
(* Every call a name of its own, and its result the same                   *)

Pieces == STRING \cup {"hash", "x", "1", "toolresult"}
Names == Seq(Pieces)

\* What the renaming carries.
Accs == {a \in [used : SUBSET Names, calls : [Ids -> Nat], orphans : [Ids -> Nat],
                pending : [Ids -> Seq(Names)], ids : Seq(Names), out : Seq(Seq(Names))] :
           IsFiniteSet(a.used)}

LEMMA TallyType == ASSUME NEW n \in Nat PROVE Tally(n) \in Names /\ Len(Tally(n)) = n
<1> DEFINE t == [k \in 1 .. n |-> "1"]
<1>1. t \in Seq(Pieces)
  <2>1. \A k \in 1 .. n : "1" \in Pieces
    BY DEF Pieces
  <2> HIDE DEF Pieces
  <2> QED
    BY <2>1, IsASeq
<1>2. Len(t) = n
  BY <1>1
<1> QED
  BY <1>1, <1>2 DEF Tally, Names

LEMMA Words ==
    ASSUME NEW id \in STRING
    PROVE  <<"hash", id>> \in Names /\ <<"x">> \in Names
<1>1. ASSUME NEW S, NEW x \in S, NEW y \in S PROVE <<x, y>> \in Seq(S)
  OBVIOUS
<1>2. id \in Pieces /\ "hash" \in Pieces /\ "x" \in Pieces
  BY DEF Pieces
<1> QED
  BY <1>1, <1>2, One DEF Names

\* A number that is not taken is found: there are more to try than ids taken.
LEMMA NumberLeft ==
    ASSUME NEW h \in Names, NEW used \in SUBSET Names, IsFiniteSet(used)
    PROVE  \E i \in 2 .. Cardinality(used) + 2 :
              /\ h \o Tally(i) \notin used
              /\ \A j \in 2 .. i - 1 : h \o Tally(j) \in used
<1> DEFINE C == Cardinality(used)
           S == 2 .. C + 2
           f == [i \in S |-> h \o Tally(i)]
           Free == {i \in S : h \o Tally(i) \notin used}
<1>1. C \in Nat
  BY FS_CardinalityType
<1>2. \A i \in S : Len(f[i]) = Len(h) + i
  <2>1. ASSUME NEW i \in S PROVE Len(h \o Tally(i)) = Len(h) + i
    <3> DEFINE t == Tally(i)
    <3>1. t \in Names /\ Len(t) = i
      BY <1>1, <2>1, TallyType
    <3> HIDE DEF t
    <3>2. Len(h \o t) = Len(h) + Len(t)
      BY <3>1, ConcatProperties DEF Names
    <3> QED
      BY <3>1, <3>2 DEF t
  <2>2. \A i \in S : f[i] = h \o Tally(i)
    OBVIOUS
  <2> HIDE DEF f, S
  <2> QED
    BY <2>1, <2>2
<1>3. IsFiniteSet(S) /\ Cardinality(S) = C + 1
  <2>1. C + 2 \in Int /\ 2 \in Int /\ ~(2 > C + 2) /\ C + 2 - 2 + 1 = C + 1
    BY <1>1
  <2> DEFINE b == C + 2
  <2>2. b \in Int /\ ~(2 > b) /\ b - 2 + 1 = C + 1
    BY <1>1
  <2> HIDE DEF b
  <2>3. IsFiniteSet(2 .. b) /\ Cardinality(2 .. b) = b - 2 + 1
    BY <2>2, FS_Interval
  <2> QED
    BY <2>2, <2>3 DEF b
<1>4. Free # {}
  <2>1. SUFFICES ASSUME Free = {} PROVE FALSE
    OBVIOUS
  <2>2. f \in [S -> used]
    BY <2>1
  <2> HIDE DEF f
  <2>3. C < C + 1
    BY <1>1
  <2> HIDE DEF S
  <2>4. PICK x \in S, y \in S : x # y /\ f[x] = f[y]
    BY <1>3, <2>2, <2>3, FS_PigeonHole DEF C
  <2>5. Len(h) + x = Len(h) + y /\ Len(h) \in Nat
    BY <1>2, <2>4, LenProperties DEF Names
  <2>6. x \in Nat /\ y \in Nat
    BY <1>1, <2>4 DEF S
  <2> QED
    BY <2>4, <2>5, <2>6
<1>5. PICK i \in Free : \A j \in Free : i <= j
  <2>1. Free \subseteq Nat
    BY <1>1
  <2> HIDE DEF Free
  <2> QED
    BY <1>4, <2>1, Least
<1>6. ASSUME NEW j \in 2 .. i - 1 PROVE h \o Tally(j) \in used
  <2>1. j \in S /\ j < i
    BY <1>1, <1>5, <1>6
  <2> QED
    BY <1>1, <1>5, <2>1
<1> QED
  BY <1>5, <1>6

LEMMA UniqueIsNew ==
    ASSUME NEW id \in Ids, NEW suffix \in Names, NEW used \in SUBSET Names, IsFiniteSet(used)
    PROVE  Unique(id, suffix, used) \in Names /\ Unique(id, suffix, used) \notin used
<1> DEFINE base == Strict[id] \o suffix
           mark == <<"hash", id>>
           x == <<"x">>
           hashed == base \o mark \o suffix
           h == hashed \o x
           Fits(i) == /\ h \o Tally(i) \notin used
                      /\ \A j \in 2 .. i - 1 : h \o Tally(j) \in used
           n == CHOOSE i \in 2 .. Cardinality(used) + 2 : Fits(i)
<1>1. Strict[id] \in Names /\ id \in STRING
  <2>1. Strict[id] \in Seq(STRING) /\ id \in STRING /\ STRING \subseteq Pieces
    BY TranscriptConstants DEF Pieces
  <2> HIDE DEF Pieces
  <2> QED
    BY <2>1, SeqMonotonic DEF Names
<1>2. mark \in Names /\ x \in Names
  BY <1>1, Words
<1>3. base \in Names
  BY <1>1, ConcatProperties DEF Names
<1> HIDE DEF base, mark, x
<1>4. hashed \in Names
  BY <1>2, <1>3, ConcatProperties DEF Names
<1> HIDE DEF hashed
<1>5. h \in Names
  BY <1>2, <1>4, ConcatProperties DEF Names
<1>6. Unique(id, suffix, used) = IF base \notin used THEN base
                                 ELSE IF hashed \notin used THEN hashed
                                 ELSE h \o Tally(n)
  BY DEF Unique, base, hashed, mark, x
<1> HIDE DEF h
<1>7. n \in 2 .. Cardinality(used) + 2 /\ Fits(n)
  <2>1. \E i \in 2 .. Cardinality(used) + 2 : Fits(i)
    BY <1>5, NumberLeft
  <2> HIDE DEF Fits
  <2> QED
    BY <2>1
<1> HIDE DEF n
<1>8. h \o Tally(n) \in Names /\ h \o Tally(n) \notin used
  <2> DEFINE t == Tally(n)
  <2>1. n \in Nat
    BY <1>7, FS_CardinalityType
  <2>2. t \in Names
    BY <2>1, TallyType
  <2>3. h \o t \notin used
    BY <1>7
  <2> HIDE DEF t
  <2> QED
    BY <1>5, <2>2, <2>3, ConcatProperties DEF Names, t
<1> QED
  BY <1>3, <1>4, <1>6, <1>8

---------------------------------------------------------------------------
(* The calls still waiting for a result, with their new names              *)

Waits == Ids \X Names
Waited(id) == [p \in Waits |-> IF p[1] = id THEN <<p[2]>> ELSE <<>>]
QueueStep(id) == [q \in Seq(Names) \X Waits |-> q[1] \o Waited(id)[q[2]]]
Queue(id, z) == Fold(QueueStep(id), <<>>, z)

LEMMA QueueGathers ==
    ASSUME NEW id \in Ids
    PROVE  Gathers(QueueStep(id), Waited(id), Names, Waits)
<1> DEFINE G == Waited(id)
           F == QueueStep(id)
<1>1. G \in [Waits -> Seq(Names)]
  <2>1. ASSUME NEW p \in Waits PROVE (IF p[1] = id THEN <<p[2]>> ELSE <<>>) \in Seq(Names)
    <3> DEFINE name == p[2]
    <3>1. name \in Names
      BY DEF Waits
    <3> HIDE DEF name
    <3>2. <<name>> \in Seq(Names) /\ <<>> \in Seq(Names)
      BY <3>1, One, EmptySeq
    <3> QED
      BY <3>2 DEF name
  <2> QED
    BY <2>1 DEF Waited
<1>2. F = [q \in Seq(Names) \X Waits |-> q[1] \o G[q[2]]]
  BY DEF QueueStep
<1> HIDE DEF G, F
<1>3. ASSUME NEW q \in Seq(Names) \X Waits PROVE q[1] \o G[q[2]] \in Seq(Names)
  <2> DEFINE a == q[1]
             b == G[q[2]]
  <2>1. a \in Seq(Names) /\ b \in Seq(Names)
    BY <1>1
  <2> HIDE DEF a, b
  <2> QED
    BY <2>1, ConcatProperties DEF a, b
<1>4. F \in Loops(Seq(Names), Waits)
  BY <1>2, <1>3 DEF Loops
<1>5. \A p \in Seq(Names), m \in Waits : F[<<p, m>>] = p \o G[m]
  BY <1>2
<1> QED
  BY <1>1, <1>4, <1>5 DEF Gathers, F, G

LEMMA QueueType ==
    ASSUME NEW id \in Ids, NEW z \in Seq(Waits)
    PROVE  Queue(id, z) \in Seq(Names) /\ Queue(id, <<>>) = <<>>
<1>1. QueueStep(id) \in Loops(Seq(Names), Waits)
  BY QueueGathers DEF Gathers
<1> DEFINE e == <<>>
           F == QueueStep(id)
<1>2. e \in Seq(Names) /\ Queue(id, z) = Fold(F, e, z) /\ Queue(id, <<>>) = Fold(F, e, <<>>)
  BY EmptySeq DEF Queue
<1> HIDE DEF e, F
<1>3. F \in Loops(Seq(Names), Waits) /\ e \in Seq(Names)
  BY <1>1, <1>2 DEF F
<1>4. Fold(F, e, z) \in Seq(Names)
  BY <1>3, FoldType
<1>5. Fold(F, e, <<>>) = e
  BY <1>3, FoldEmpty
<1> QED
  BY <1>2, <1>4, <1>5 DEF e

LEMMA QueueAppend ==
    ASSUME NEW id \in Ids, NEW z \in Seq(Waits), NEW p \in Waits
    PROVE  Queue(id, Append(z, p)) = IF p[1] = id THEN Append(Queue(id, z), p[2]) ELSE Queue(id, z)
<1> DEFINE F == QueueStep(id)
           G == Waited(id)
           e == <<>>
           q == Queue(id, z)
           name == p[2]
<1>1. Gathers(F, G, Names, Waits) /\ F \in Loops(Seq(Names), Waits)
  BY QueueGathers DEF Gathers
<1>2. e \in Seq(Names)
  BY EmptySeq
<1>3. q \in Seq(Names) /\ q = Fold(F, e, z)
  BY QueueType DEF Queue
<1>4. G[p] = IF p[1] = id THEN <<name>> ELSE e
  BY DEF Waited
<1>5. name \in Names
  BY DEF Waits
<1>6. Queue(id, Append(z, p)) = Fold(F, e, Append(z, p))
  BY DEF Queue
<1> HIDE DEF F, G, e, q, name
<1>7. Fold(F, e, Append(z, p)) = F[<<q, p>>]
  BY <1>1, <1>2, <1>3, FoldAppend
<1>8. F[<<q, p>>] = q \o G[p]
  BY <1>1, <1>3 DEF Gathers
<1>9. q \o <<name>> = Append(q, name) /\ q \o e = q
  BY <1>3, <1>5, AppendIsConcat, ConcatEmptySeq DEF e
<1> QED
  BY <1>4, <1>6, <1>7, <1>8, <1>9 DEF q, name

LEMMA QueueFirst ==
    ASSUME NEW id \in Ids, NEW z \in Seq(Waits), z # <<>>
    PROVE  /\ Head(z) \in Waits /\ Tail(z) \in Seq(Waits)
           /\ Queue(id, z) = IF Head(z)[1] = id THEN <<Head(z)[2]>> \o Queue(id, Tail(z))
                             ELSE Queue(id, Tail(z))
<1> DEFINE F == QueueStep(id)
           G == Waited(id)
           e == <<>>
           p == Head(z)
           t == Tail(z)
           name == p[2]
           one == <<p>>
<1>1. Gathers(F, G, Names, Waits) /\ F \in Loops(Seq(Names), Waits)
  BY QueueGathers DEF Gathers
<1>2. e \in Seq(Names)
  BY EmptySeq
<1>3. p \in Waits /\ t \in Seq(Waits) /\ z = one \o t
  BY HeadTailProperties
<1>4. one \in Seq(Waits)
  BY <1>3, One
<1>5. Queue(id, one \o t) = Fold(F, e, one \o t) /\ Queue(id, t) = Fold(F, e, t)
  BY DEF Queue
<1>6. Queue(id, t) \in Seq(Names)
  BY <1>3, QueueType
<1>7. Queue(id, one) = IF p[1] = id THEN <<name>> ELSE e
  <2>1. one = Append(<<>>, p) /\ <<>> \in Seq(Waits)
    BY EmptySeq
  <2>2. Queue(id, <<>>) = <<>>
    BY QueueType
  <2> DEFINE n == <<>>
  <2>3. n \in Seq(Waits) /\ one = Append(n, p) /\ Queue(id, n) = <<>>
    BY <2>1, <2>2
  <2> HIDE DEF n, one, p
  <2>4. Queue(id, Append(n, p)) = IF p[1] = id THEN Append(Queue(id, n), p[2]) ELSE Queue(id, n)
    BY <1>3, <2>3, QueueAppend
  <2> QED
    BY <2>3, <2>4
<1>8. name \in Names
  BY <1>3 DEF Waits
<1> HIDE DEF F, G, e, p, t, name, one
<1>9. Fold(F, e, one \o t) = Fold(F, Fold(F, e, one), t)
  BY <1>1, <1>2, <1>3, <1>4, FoldConcat
<1>10. Fold(F, e, one) = Queue(id, one) /\ Queue(id, one) \in Seq(Names)
  BY <1>4, QueueType DEF Queue, F, e
<1>11. Fold(F, Queue(id, one), t) = Queue(id, one) \o Fold(F, <<>>, t)
  <2> DEFINE q == Queue(id, one)
  <2>1. q \in Seq(Names) /\ t \in Seq(Waits)
    BY <1>3, <1>10
  <2>2. Gathers(F, G, Names, Waits)
    BY <1>1
  <2> HIDE DEF q
  <2>3. Fold(F, q, t) = q \o Fold(F, <<>>, t)
    BY <2>1, <2>2, GatherFrom
  <2> QED
    BY <2>3 DEF q
<1>12. Queue(id, z) = Queue(id, one) \o Queue(id, t)
  BY <1>3, <1>5, <1>9, <1>10, <1>11 DEF e
<1>13. e \o Queue(id, t) = Queue(id, t)
  BY <1>6, ConcatEmptySeq DEF e
<1> QED
  BY <1>3, <1>7, <1>12, <1>13 DEF p, t, name

\* A call named: its new name was not taken, and waits for its result.
CallMade(acc, id, new, y) ==
    /\ new \in Names /\ new \notin acc.used
    /\ y.used = acc.used \cup {new}
    /\ y.pending = [acc.pending EXCEPT ![id] = Append(@, new)]
    /\ y.ids = Append(acc.ids, new) /\ y.out = acc.out

LEMMA AccFields ==
    ASSUME NEW acc \in Accs
    PROVE  /\ acc \in [used : SUBSET Names, calls : [Ids -> Nat], orphans : [Ids -> Nat],
                       pending : [Ids -> Seq(Names)], ids : Seq(Names), out : Seq(Seq(Names))]
           /\ acc.used \in SUBSET Names /\ IsFiniteSet(acc.used)
           /\ acc.calls \in [Ids -> Nat] /\ acc.orphans \in [Ids -> Nat]
           /\ acc.pending \in [Ids -> Seq(Names)] /\ acc.ids \in Seq(Names) /\ acc.out \in Seq(Seq(Names))
<1>1. /\ acc \in [used : SUBSET Names, calls : [Ids -> Nat], orphans : [Ids -> Nat],
                  pending : [Ids -> Seq(Names)], ids : Seq(Names), out : Seq(Seq(Names))]
      /\ IsFiniteSet(acc.used)
  BY DEF Accs
<1> QED
  BY <1>1

LEMMA CallMakes ==
    ASSUME NEW acc \in Accs, NEW id \in Ids
    PROVE  CallId(acc, id) \in Accs /\ \E new : CallMade(acc, id, new, CallId(acc, id))
<1> DEFINE n == acc.calls[id] + 1
           suffix == IF n = 1 THEN <<>> ELSE Tally(n)
           new == Unique(id, suffix, acc.used)
           calls == [acc.calls EXCEPT ![id] = n]
           used == acc.used \cup {new}
           pending == [acc.pending EXCEPT ![id] = Append(@, new)]
           ids == Append(acc.ids, new)
           y == [used |-> used, calls |-> calls, orphans |-> acc.orphans, pending |-> pending,
                 ids |-> ids, out |-> acc.out]
<1>1. /\ acc \in [used : SUBSET Names, calls : [Ids -> Nat], orphans : [Ids -> Nat],
                  pending : [Ids -> Seq(Names)], ids : Seq(Names), out : Seq(Seq(Names))]
      /\ acc.used \in SUBSET Names /\ IsFiniteSet(acc.used)
      /\ acc.calls \in [Ids -> Nat] /\ acc.orphans \in [Ids -> Nat]
      /\ acc.pending \in [Ids -> Seq(Names)] /\ acc.ids \in Seq(Names) /\ acc.out \in Seq(Seq(Names))
  BY AccFields
<1>2. n \in Nat
  BY <1>1
<1>3. suffix \in Names
  BY <1>2, TallyType, EmptySeq DEF Names
<1> HIDE DEF suffix
<1>4. new \in Names /\ new \notin acc.used
  BY <1>1, <1>3, UniqueIsNew
<1>5. CallId(acc, id) = [acc EXCEPT !.calls[id] = n, !.used = @ \cup {new},
                                    !.pending[id] = Append(@, new), !.ids = Append(@, new)]
  BY DEF CallId, suffix
<1> HIDE DEF new, n
<1>6. CallId(acc, id) = y
  BY <1>1, <1>5
<1>7. used \in SUBSET Names /\ IsFiniteSet(used)
  BY <1>1, <1>4, FS_AddElement
<1>8. pending \in [Ids -> Seq(Names)] /\ ids \in Seq(Names)
  <2>1. Append(acc.pending[id], new) \in Seq(Names) /\ ids \in Seq(Names)
    BY <1>1, <1>4, AppendProperties
  <2> QED
    BY <1>1, <2>1
<1>9. calls \in [Ids -> Nat]
  BY <1>1, <1>2
<1>10. CallMade(acc, id, new, y)
  BY <1>4 DEF CallMade
<1> HIDE DEF calls, used, pending, ids
<1>11. y \in Accs
  BY <1>1, <1>7, <1>8, <1>9 DEF Accs
<1> QED
  BY <1>6, <1>10, <1>11

LEMMA ResultMakes ==
    ASSUME NEW acc \in Accs, NEW id \in Ids
    PROVE  /\ ResultId(acc, id) \in Accs
           /\ ResultId(acc, id).out = acc.out
           /\ acc.pending[id] # <<>> =>
                 /\ ResultId(acc, id).used = acc.used
                 /\ ResultId(acc, id).pending = [acc.pending EXCEPT ![id] = Tail(@)]
                 /\ ResultId(acc, id).ids = Append(acc.ids, Head(acc.pending[id]))
                 /\ Head(acc.pending[id]) \in Names
<1>1. /\ acc \in [used : SUBSET Names, calls : [Ids -> Nat], orphans : [Ids -> Nat],
                  pending : [Ids -> Seq(Names)], ids : Seq(Names), out : Seq(Seq(Names))]
      /\ acc.used \in SUBSET Names /\ IsFiniteSet(acc.used)
      /\ acc.calls \in [Ids -> Nat] /\ acc.orphans \in [Ids -> Nat]
      /\ acc.pending \in [Ids -> Seq(Names)] /\ acc.ids \in Seq(Names) /\ acc.out \in Seq(Seq(Names))
  BY AccFields
<1>2. CASE acc.pending[id] # <<>>
  <2> DEFINE queue == acc.pending[id]
             first == Head(queue)
             rest == Tail(queue)
             pending == [acc.pending EXCEPT ![id] = rest]
             ids == Append(acc.ids, first)
             y == [used |-> acc.used, calls |-> acc.calls, orphans |-> acc.orphans, pending |-> pending,
                   ids |-> ids, out |-> acc.out]
  <2>1. first \in Names /\ rest \in Seq(Names)
    <3>1. queue \in Seq(Names) /\ queue # <<>>
      BY <1>1, <1>2
    <3> HIDE DEF queue
    <3> QED
      BY <3>1, HeadTailProperties
  <2>2. ResultId(acc, id) = [acc EXCEPT !.pending[id] = Tail(@), !.ids = Append(@, first)]
    BY <1>2 DEF ResultId
  <2>3. ResultId(acc, id) = y
    BY <1>1, <2>2
  <2>4. ids \in Seq(Names)
    <3> HIDE DEF first
    <3> QED
      BY <1>1, <2>1, AppendProperties
  <2>5. pending \in [Ids -> Seq(Names)]
    BY <1>1, <2>1
  <2>6. /\ y.out = acc.out /\ y.used = acc.used /\ y.pending = [acc.pending EXCEPT ![id] = Tail(@)]
        /\ y.ids = Append(acc.ids, Head(acc.pending[id]))
    OBVIOUS
  <2> HIDE DEF ids, pending
  <2>7. y \in Accs
    BY <1>1, <2>4, <2>5 DEF Accs
  <2> QED
    BY <2>1, <2>3, <2>6, <2>7
<1>3. CASE acc.pending[id] = <<>>
  <2> DEFINE n == acc.orphans[id] + 1
             word == <<"toolresult">>
             suffix == word \o Tally(n)
             new == Unique(id, suffix, acc.used)
             orphans == [acc.orphans EXCEPT ![id] = n]
             used == acc.used \cup {new}
             ids == Append(acc.ids, new)
             y == [used |-> used, calls |-> acc.calls, orphans |-> orphans, pending |-> acc.pending,
                   ids |-> ids, out |-> acc.out]
  <2>1. n \in Nat
    BY <1>1
  <2>2. suffix \in Names
    <3>1. "toolresult" \in Pieces
      BY DEF Pieces
    <3>2. word \in Names
      BY <3>1, One DEF Names
    <3> HIDE DEF word
    <3> QED
      BY <2>1, <3>2, TallyType, ConcatProperties DEF Names
  <2>3. ResultId(acc, id) = [acc EXCEPT !.orphans[id] = n, !.used = @ \cup {new}, !.ids = Append(@, new)]
    BY <1>3 DEF ResultId
  <2> HIDE DEF suffix, n
  <2>4. new \in Names
    BY <1>1, <2>2, UniqueIsNew
  <2> HIDE DEF new
  <2>5. ResultId(acc, id) = y
    BY <1>1, <2>3
  <2>6. used \in SUBSET Names /\ IsFiniteSet(used)
    BY <1>1, <2>4, FS_AddElement
  <2>7. ids \in Seq(Names)
    BY <1>1, <2>4, AppendProperties
  <2>8. orphans \in [Ids -> Nat]
    BY <1>1, <2>1
  <2>9. y.out = acc.out
    OBVIOUS
  <2> HIDE DEF ids, used, orphans
  <2>10. y \in Accs
    BY <1>1, <2>6, <2>7, <2>8 DEF Accs
  <2> QED
    BY <1>3, <2>5, <2>9, <2>10
<1> QED
  BY <1>2, <1>3

CallStep == [p \in Accs \X Ids |-> CallId(p[1], p[2])]

LEMMA CallLoops ==
    /\ CallStep \in Loops(Accs, Ids)
    /\ \A acc \in Accs, id \in Ids : CallStep[<<acc, id>>] = CallId(acc, id)
<1>1. ASSUME NEW p \in Accs \X Ids PROVE CallId(p[1], p[2]) \in Accs
  <2>1. p[1] \in Accs /\ p[2] \in Ids
    OBVIOUS
  <2> QED
    BY <2>1, CallMakes
<1> QED
  BY <1>1 DEF CallStep, Loops

LEMMA CallsFold ==
    ASSUME NEW acc \in Accs, NEW calls \in Seq(Ids)
    PROVE  /\ Folded(CallId, acc, calls) = Fold(CallStep, acc, calls)
           /\ Folded(CallId, acc, calls) \in Accs
<1> DEFINE Body(a) == [n \in 0 .. Len(calls) |-> IF n = 0 THEN acc ELSE CallId(a[n - 1], calls[n])]
           chosen == CHOOSE a : a = Body(a)
<1>1. PICK x : IsRun(x, CallStep, acc, calls, Accs) /\ Fold(CallStep, acc, calls) = x[Len(calls)]
  BY CallLoops, FoldRun
<1>2. x = Body(x)
  <2>1. ASSUME NEW n \in 0 .. Len(calls), n # 0 PROVE x[n] = CallId(x[n - 1], calls[n])
    <3>1. x[n - 1] \in Accs /\ calls[n] \in Ids /\ x[n] = CallStep[<<x[n - 1], calls[n]>>]
      BY <1>1, <2>1, RunBody
    <3> QED
      BY <3>1, CallLoops
  <2> QED
    BY <1>1, <2>1 DEF IsRun
<1>3. chosen = Body(chosen)
  BY <1>2
<1>4. Folded(CallId, acc, calls) = chosen[Len(calls)]
  BY DEF Folded
<1> HIDE DEF chosen
<1>5. chosen[0] = acc
  BY <1>1, <1>3, RunStart
<1>6. ASSUME NEW n \in 0 .. Len(calls), n # 0, chosen[n - 1] \in Accs
      PROVE  chosen[n] = CallStep[<<chosen[n - 1], calls[n]>>]
  <2>1. calls[n] \in Ids
    BY <1>1, <1>6, RunBody
  <2>2. chosen[n] = CallId(chosen[n - 1], calls[n])
    BY <1>3, <1>6
  <2> QED
    BY <1>6, <2>1, <2>2, CallLoops
<1>7. chosen[Len(calls)] = Fold(CallStep, acc, calls)
  BY <1>5, <1>6, CallLoops, LoopIs
<1> QED
  BY <1>1, <1>4, <1>7, RunStart

\* The first n calls of one message named: all differently, by names nothing had before,
\* and all of them waiting for their results; z are those that wait.
AllNamed(acc, calls, n, y, z) ==
    /\ y.out = acc.out /\ acc.used \subseteq y.used
    /\ Len(y.ids) = n /\ Len(z) = n
    /\ \A k \in 1 .. n : y.ids[k] \in y.used /\ y.ids[k] \notin acc.used /\ z[k] = <<calls[k], y.ids[k]>>
    /\ \A k, l \in 1 .. n : y.ids[k] = y.ids[l] => k = l
    /\ \A id \in Ids : y.pending[id] = Queue(id, z)

LEMMA OneMoreNamed ==
    ASSUME NEW acc, NEW calls \in Seq(Ids), NEW n \in 0 .. Len(calls) - 1,
           NEW x \in Accs, NEW y \in Accs, NEW z \in Seq(Waits), AllNamed(acc, calls, n, x, z),
           NEW new, CallMade(x, calls[n + 1], new, y)
    PROVE  \E u \in Seq(Waits) : AllNamed(acc, calls, n + 1, y, u)
<1> DEFINE id == calls[n + 1]
           p == <<id, new>>
           u == Append(z, p)
           k1 == n + 1
<1>1. /\ k1 \in 1 .. Len(calls) /\ n \in Nat /\ k1 = n + 1 /\ \A k \in 1 .. k1 : k \in 1 .. n \/ k = k1
      /\ k1 \notin 1 .. n
  BY LenProperties
<1>2. id \in Ids
  BY <1>1, ElementOfSeq
<1>3. /\ new \in Names /\ new \notin x.used
      /\ y.used = x.used \cup {new}
      /\ y.pending = [x.pending EXCEPT ![id] = Append(@, new)]
      /\ y.ids = Append(x.ids, new) /\ y.out = x.out
  BY DEF CallMade
<1>4. p \in Waits
  BY <1>2, <1>3 DEF Waits
<1>5. /\ x.out = acc.out /\ acc.used \subseteq x.used
      /\ Len(x.ids) = n /\ Len(z) = n
      /\ \A k \in 1 .. n : x.ids[k] \in x.used /\ x.ids[k] \notin acc.used /\ z[k] = <<calls[k], x.ids[k]>>
      /\ \A k, l \in 1 .. n : x.ids[k] = x.ids[l] => k = l
      /\ \A i \in Ids : x.pending[i] = Queue(i, z)
  BY DEF AllNamed
<1>6. x.ids \in Seq(Names) /\ x.pending \in [Ids -> Seq(Names)]
  BY AccFields
<1>7. calls[k1] = id /\ p = <<calls[k1], new>>
  OBVIOUS
<1> HIDE DEF id, p, u, k1
<1>8. /\ u \in Seq(Waits) /\ Len(u) = k1 /\ u[k1] = p
      /\ \A k \in 1 .. n : u[k] = z[k]
  BY <1>1, <1>4, <1>5, AppendProperties DEF u
<1>9. /\ Len(y.ids) = k1 /\ y.ids[k1] = new
      /\ \A k \in 1 .. n : y.ids[k] = x.ids[k]
  BY <1>1, <1>3, <1>5, <1>6, AppendProperties
<1>10. ASSUME NEW i \in Ids PROVE y.pending[i] = Queue(i, u)
  <2>1. Queue(i, u) = IF p[1] = i THEN Append(Queue(i, z), p[2]) ELSE Queue(i, z)
    BY <1>4, QueueAppend DEF u
  <2>2. p[1] = id /\ p[2] = new
    BY <1>7
  <2>3. y.pending[i] = IF i = id THEN Append(x.pending[i], new) ELSE x.pending[i]
    BY <1>2, <1>3, <1>6
  <2> QED
    BY <1>5, <2>1, <2>2, <2>3
<1>11. ASSUME NEW k \in 1 .. k1
       PROVE  y.ids[k] \in y.used /\ y.ids[k] \notin acc.used /\ u[k] = <<calls[k], y.ids[k]>>
  BY <1>1, <1>3, <1>5, <1>7, <1>8, <1>9
<1>12. ASSUME NEW k \in 1 .. k1, NEW l \in 1 .. k1, y.ids[k] = y.ids[l] PROVE k = l
  <2>1. CASE k = k1 /\ l \in 1 .. n
    BY <1>3, <1>5, <1>9, <1>12, <2>1
  <2>2. CASE l = k1 /\ k \in 1 .. n
    BY <1>3, <1>5, <1>9, <1>12, <2>2
  <2>3. CASE k \in 1 .. n /\ l \in 1 .. n
    BY <1>5, <1>9, <1>12, <2>3
  <2> QED
    BY <1>1, <2>1, <2>2, <2>3
<1>13. y.out = acc.out /\ acc.used \subseteq y.used
  BY <1>3, <1>5
<1>14. AllNamed(acc, calls, k1, y, u)
  BY <1>8, <1>9, <1>10, <1>11, <1>12, <1>13 DEF AllNamed
<1> QED
  BY <1>8, <1>14 DEF k1

LEMMA CallsNamed ==
    ASSUME NEW acc \in Accs, acc.ids = <<>>, \A id \in Ids : acc.pending[id] = <<>>, NEW calls \in Seq(Ids)
    PROVE  \E z \in Seq(Waits) : AllNamed(acc, calls, Len(calls), Folded(CallId, acc, calls), z)
<1>1. PICK x : IsRun(x, CallStep, acc, calls, Accs) /\ Fold(CallStep, acc, calls) = x[Len(calls)]
  BY CallLoops, FoldRun
<1>2. Len(calls) \in Nat
  BY LenProperties
<1> DEFINE T == {n \in 0 .. Len(calls) : \E z \in Seq(Waits) : AllNamed(acc, calls, n, x[n], z)}
<1>3. 0 \in T
  <2> DEFINE z == <<>>
  <2>1. z \in Seq(Waits) /\ Len(z) = 0 /\ \A id \in Ids : Queue(id, z) = <<>>
    BY EmptySeq, QueueType
  <2>2. Len(acc.ids) = 0
    BY EmptySeq
  <2> HIDE DEF z
  <2>3. AllNamed(acc, calls, 0, acc, z)
    BY <2>1, <2>2 DEF AllNamed
  <2>4. x[0] = acc
    BY <1>1 DEF IsRun
  <2>5. \E u \in Seq(Waits) : AllNamed(acc, calls, 0, x[0], u)
    BY <2>1, <2>3, <2>4
  <2> QED
    BY <1>2, <2>5
<1>4. ASSUME NEW n \in 0 .. Len(calls) - 1, n \in T PROVE n + 1 \in T
  <2>1. /\ x[n] \in Accs /\ x[n + 1] \in Accs /\ calls[n + 1] \in Ids /\ n + 1 \in 0 .. Len(calls)
        /\ x[n + 1] = CallStep[<<x[n], calls[n + 1]>>]
    BY <1>1, RunStep
  <2>2. x[n + 1] = CallId(x[n], calls[n + 1])
    BY <2>1, CallLoops
  <2>3. PICK new : CallMade(x[n], calls[n + 1], new, x[n + 1])
    BY <2>1, <2>2, CallMakes
  <2>4. PICK z \in Seq(Waits) : AllNamed(acc, calls, n, x[n], z)
    BY <1>4
  <2>5. \E u \in Seq(Waits) : AllNamed(acc, calls, n + 1, x[n + 1], u)
    BY <2>1, <2>3, <2>4, OneMoreNamed
  <2> QED
    BY <2>1, <2>5
<1>5. \A n \in 0 .. Len(calls) : n \in T
  <2> HIDE DEF T
  <2> QED
    BY <1>2, <1>3, <1>4, Climb
<1>6. \E z \in Seq(Waits) : AllNamed(acc, calls, Len(calls), x[Len(calls)], z)
  BY <1>2, <1>5
<1>7. Folded(CallId, acc, calls) = x[Len(calls)]
  BY <1>1, CallsFold
<1> QED
  BY <1>6, <1>7

---------------------------------------------------------------------------
(* One message of the window renamed                                       *)

Fresh(acc) == [acc EXCEPT !.ids = <<>>]
Put(after) == [after EXCEPT !.out = Append(@, after.ids)]

LEMMA FreshFields ==
    ASSUME NEW acc \in Accs
    PROVE  /\ Fresh(acc) \in Accs /\ Fresh(acc).ids = <<>> /\ Fresh(acc).used = acc.used
           /\ Fresh(acc).pending = acc.pending /\ Fresh(acc).out = acc.out
<1> DEFINE e == <<>>
           y == [used |-> acc.used, calls |-> acc.calls, orphans |-> acc.orphans, pending |-> acc.pending,
                 ids |-> e, out |-> acc.out]
<1>1. /\ acc \in [used : SUBSET Names, calls : [Ids -> Nat], orphans : [Ids -> Nat],
                  pending : [Ids -> Seq(Names)], ids : Seq(Names), out : Seq(Seq(Names))]
      /\ acc.used \in SUBSET Names /\ IsFiniteSet(acc.used)
      /\ acc.calls \in [Ids -> Nat] /\ acc.orphans \in [Ids -> Nat]
      /\ acc.pending \in [Ids -> Seq(Names)] /\ acc.ids \in Seq(Names) /\ acc.out \in Seq(Seq(Names))
  BY AccFields
<1>2. e \in Seq(Names)
  BY EmptySeq
<1>4. e = <<>> /\ Fresh(acc) = [acc EXCEPT !.ids = e]
  BY DEF Fresh
<1> HIDE DEF e
<1>3. Fresh(acc) = y
  BY <1>1, <1>4
<1>5. y \in Accs
  BY <1>1, <1>2 DEF Accs
<1> QED
  BY <1>3, <1>4, <1>5

LEMMA PutFields ==
    ASSUME NEW after \in Accs
    PROVE  /\ Put(after) \in Accs /\ Put(after).used = after.used
           /\ Put(after).pending = after.pending /\ Put(after).out = Append(after.out, after.ids)
<1> DEFINE out == Append(after.out, after.ids)
           y == [used |-> after.used, calls |-> after.calls, orphans |-> after.orphans,
                 pending |-> after.pending, ids |-> after.ids, out |-> out]
<1>1. /\ after \in [used : SUBSET Names, calls : [Ids -> Nat], orphans : [Ids -> Nat],
                    pending : [Ids -> Seq(Names)], ids : Seq(Names), out : Seq(Seq(Names))]
      /\ after.used \in SUBSET Names /\ IsFiniteSet(after.used)
      /\ after.calls \in [Ids -> Nat] /\ after.orphans \in [Ids -> Nat]
      /\ after.pending \in [Ids -> Seq(Names)] /\ after.ids \in Seq(Names) /\ after.out \in Seq(Seq(Names))
  BY AccFields
<1>2. out \in Seq(Seq(Names))
  BY <1>1, AppendProperties
<1>5. Put(after) = [after EXCEPT !.out = out]
  BY <1>1 DEF Put
<1> HIDE DEF out
<1>3. Put(after) = y
  BY <1>1, <1>5
<1>4. y \in Accs
  BY <1>1, <1>2 DEF Accs
<1> QED
  BY <1>3, <1>4 DEF out

LEMMA RenamedIs ==
    ASSUME NEW acc \in Accs, NEW m \in Messages
    PROVE  /\ m.role = "toolResult" => Renamed(acc, m) = Put(ResultId(Fresh(acc), m.of))
           /\ m.role # "toolResult" => Renamed(acc, m) = Put(Folded(CallId, Fresh(acc), m.calls))
           /\ Renamed(acc, m) \in Accs
<1>1. Fresh(acc) \in Accs
  BY FreshFields
<1>2. m.calls \in Seq(Ids) /\ (m.role = "toolResult" => m.of \in Ids)
  BY MessageFields
<1>3. CASE m.role = "toolResult"
  <2> DEFINE after == ResultId(Fresh(acc), m.of)
  <2>1. Renamed(acc, m) = Put(after)
    BY <1>3 DEF Renamed, Put, Fresh
  <2>2. after \in Accs
    BY <1>1, <1>2, <1>3, ResultMakes
  <2> HIDE DEF after
  <2>3. Put(after) \in Accs
    BY <2>2, PutFields
  <2> QED
    BY <1>3, <2>1, <2>3 DEF after
<1>4. CASE m.role # "toolResult"
  <2> DEFINE after == Folded(CallId, Fresh(acc), m.calls)
  <2>1. Renamed(acc, m) = Put(after)
    BY <1>4 DEF Renamed, Put, Fresh
  <2>2. after \in Accs
    BY <1>1, <1>2, CallsFold
  <2> HIDE DEF after
  <2>3. Put(after) \in Accs
    BY <2>2, PutFields
  <2> QED
    BY <1>4, <2>1, <2>3 DEF after
<1> QED
  BY <1>3, <1>4

RenameStep == [p \in Accs \X Messages |-> Renamed(p[1], p[2])]

LEMMA RenameLoops ==
    /\ RenameStep \in Loops(Accs, Messages)
    /\ \A acc \in Accs, m \in Messages : RenameStep[<<acc, m>>] = Renamed(acc, m)
<1>1. ASSUME NEW p \in Accs \X Messages PROVE Renamed(p[1], p[2]) \in Accs
  <2>1. p[1] \in Accs /\ p[2] \in Messages
    OBVIOUS
  <2> QED
    BY <2>1, RenamedIs
<1> QED
  BY <1>1 DEF RenameStep, Loops

LEMMA NothingFields ==
    /\ Nothing \in Accs /\ Nothing.out = <<>> /\ \A id \in Ids : Nothing.pending[id] = <<>>
<1> DEFINE e == <<>>
           y == [used |-> {}, calls |-> [id \in Ids |-> 0], orphans |-> [id \in Ids |-> 0],
                 pending |-> [id \in Ids |-> e], ids |-> e, out |-> e]
<1>1. Nothing = y
  BY DEF Nothing
<1>2. e \in Seq(Names) /\ e \in Seq(Seq(Names)) /\ IsFiniteSet({}) /\ e = <<>>
  BY EmptySeq, FS_EmptySet
<1> HIDE DEF e
<1>3. y \in Accs
  BY <1>2 DEF Accs
<1> QED
  BY <1>1, <1>2, <1>3

LEMMA DistinctFold ==
    ASSUME NEW w \in Seq(Messages)
    PROVE  DistinctIds(w) = Fold(RenameStep, Nothing, w).out
<1> DEFINE Body(a) == [n \in 0 .. Len(w) |-> IF n = 0 THEN Nothing ELSE Renamed(a[n - 1], w[n])]
           chosen == CHOOSE a : a = Body(a)
<1>1. PICK x : IsRun(x, RenameStep, Nothing, w, Accs) /\ Fold(RenameStep, Nothing, w) = x[Len(w)]
  BY NothingFields, RenameLoops, FoldRun
<1>2. x = Body(x)
  <2>1. ASSUME NEW n \in 0 .. Len(w), n # 0 PROVE x[n] = Renamed(x[n - 1], w[n])
    <3>1. x[n - 1] \in Accs /\ w[n] \in Messages /\ x[n] = RenameStep[<<x[n - 1], w[n]>>]
      BY <1>1, <2>1, RunBody
    <3> QED
      BY <3>1, RenameLoops
  <2> QED
    BY <1>1, <2>1 DEF IsRun
<1>3. chosen = Body(chosen)
  BY <1>2
<1>4. DistinctIds(w) = chosen[Len(w)].out
  BY DEF DistinctIds, Folded
<1> HIDE DEF chosen
<1>5. chosen[0] = Nothing
  BY <1>1, <1>3, RunStart
<1>6. ASSUME NEW n \in 0 .. Len(w), n # 0, chosen[n - 1] \in Accs
      PROVE  chosen[n] = RenameStep[<<chosen[n - 1], w[n]>>]
  <2>1. w[n] \in Messages
    BY <1>1, <1>6, RunBody
  <2>2. chosen[n] = Renamed(chosen[n - 1], w[n])
    BY <1>3, <1>6
  <2> QED
    BY <1>6, <2>1, <2>2, RenameLoops
<1>7. chosen[Len(w)] = Fold(RenameStep, Nothing, w)
  BY <1>5, <1>6, NothingFields, RenameLoops, LoopIs
<1> QED
  BY <1>4, <1>7

\* After n messages of a window: what they call is named, all differently; results have
\* the names of their calls; z are the calls whose results come next.
NamedCall(out, used, n, z, i, k) ==
    /\ out[i][k] \in used
    /\ i + k <= n => out[i + k] = <<out[i][k]>>
    /\ i + k > n => i + k - n <= Len(z) /\ z[i + k - n][2] = out[i][k]

NamedUpTo(w, n, acc, d, z) ==
    /\ d.good /\ d.done + Len(z) = Len(d.calls)
    /\ \A j \in 1 .. Len(z) : z[j][1] = d.calls[d.done + j]
    /\ \A id \in Ids : acc.pending[id] = Queue(id, z)
    /\ Len(acc.out) = n
    /\ \A i \in 1 .. n : \A k \in 1 .. Len(w[i].calls) : NamedCall(acc.out, acc.used, n, z, i, k)
    /\ \A i, j \in 1 .. n : \A k \in 1 .. Len(w[i].calls), l \in 1 .. Len(w[j].calls) :
          acc.out[i][k] = acc.out[j][l] => i = j /\ k = l

\* A result in its place takes the name of the call that waits first.
LEMMA ResultNamed ==
    ASSUME NEW acc \in Accs, NEW m \in Messages, m.role = "toolResult",
           NEW z \in Seq(Waits), Len(z) # 0, z[1][1] = m.of,
           \A id \in Ids : acc.pending[id] = Queue(id, z)
    PROVE  LET y == Renamed(acc, m)
           IN  /\ y.used = acc.used /\ y.out = Append(acc.out, <<z[1][2]>>)
               /\ \A id \in Ids : y.pending[id] = Queue(id, Tail(z))
<1> DEFINE a == Fresh(acc)
           id == m.of
           x == ResultId(a, id)
           h == Head(z)
           name == h[2]
           t == Tail(z)
           q == Queue(id, t)
<1>1. id \in Ids
  BY MessageFields
<1>2. z # <<>> /\ h = z[1]
  BY EmptySeq, HeadTailProperties
<1>3. /\ h \in Waits /\ t \in Seq(Waits)
      /\ \A i \in Ids : Queue(i, z) = IF h[1] = i THEN <<h[2]>> \o Queue(i, t) ELSE Queue(i, t)
  BY <1>2, QueueFirst
<1>4. name \in Names /\ h[1] = id /\ name = z[1][2]
  BY <1>2, <1>3 DEF Waits
<1>5. q \in Seq(Names)
  BY <1>1, <1>3, QueueType
<1>6. /\ a \in Accs /\ a.ids = <<>> /\ a.used = acc.used /\ a.pending = acc.pending /\ a.out = acc.out
  BY FreshFields
<1>7. Renamed(acc, m) = Put(x)
  BY RenamedIs
<1> HIDE DEF a, id, h, t
<1>8. a.pending[id] = <<name>> \o q
  BY <1>1, <1>3, <1>4, <1>6
<1> HIDE DEF name, q
<1>9. <<name>> \o q # <<>> /\ Head(<<name>> \o q) = name /\ Tail(<<name>> \o q) = q
  <2> DEFINE one == <<name>>
             both == one \o q
  <2>1. one \in Seq(Names) /\ Len(one) = 1 /\ one[1] = name
    BY <1>4, One
  <2> HIDE DEF one
  <2>2. /\ both \in Seq(Names) /\ Len(both) = 1 + Len(q) /\ Len(q) \in Nat
        /\ \A i \in 1 .. Len(both) : both[i] = IF i <= 1 THEN one[i] ELSE q[i - 1]
    <3>1. one \in Seq(Names) /\ q \in Seq(Names) /\ Len(q) \in Nat
      BY <1>5, <2>1, LenProperties
    <3>2. /\ both \in Seq(Names) /\ Len(both) = Len(one) + Len(q)
          /\ \A i \in 1 .. Len(one) + Len(q) : both[i] = IF i <= Len(one) THEN one[i] ELSE q[i - Len(one)]
      BY <3>1, ConcatProperties
    <3> HIDE DEF both
    <3> QED
      BY <2>1, <3>1, <3>2
  <2> HIDE DEF both
  <2>3. Len(both) # 0 /\ both # <<>>
    BY <2>2, EmptySeq
  <2>4. Head(both) = both[1] /\ Tail(both) \in Seq(Names) /\ Len(Tail(both)) = Len(both) - 1
        /\ \A i \in 1 .. Len(Tail(both)) : Tail(both)[i] = both[i + 1]
    BY <2>2, <2>3, HeadTailProperties
  <2> DEFINE rest == Tail(both)
  <2>5. rest \in Seq(Names) /\ Len(rest) = Len(q) /\ \A i \in 1 .. Len(rest) : rest[i] = both[i + 1]
    BY <2>2, <2>4
  <2> HIDE DEF rest
  <2>6. ASSUME NEW i \in 1 .. Len(q) PROVE rest[i] = q[i]
    <3> DEFINE j == i + 1
    <3>1. j \in 1 .. Len(both) /\ ~(j <= 1) /\ j - 1 = i /\ i \in 1 .. Len(rest)
      BY <2>2, <2>5
    <3>2. rest[i] = both[j]
      BY <2>5, <3>1
    <3> HIDE DEF j
    <3> QED
      BY <2>2, <3>1, <3>2
  <2>7. rest = q
    BY <1>5, <2>5, <2>6, SeqEqual
  <2> QED
    BY <2>1, <2>2, <2>3, <2>4, <2>7 DEF both, one, rest
<1>10. /\ x \in Accs /\ x.out = a.out /\ x.used = a.used
       /\ x.pending = [a.pending EXCEPT ![id] = Tail(@)]
       /\ x.ids = Append(a.ids, Head(a.pending[id]))
  BY <1>1, <1>6, <1>8, <1>9, ResultMakes
<1>11. x.ids = <<name>>
  <2>1. x.ids = Append(<<>>, name)
    BY <1>6, <1>8, <1>9, <1>10
  <2> QED
    BY <2>1
<1>12. x.pending = [a.pending EXCEPT ![id] = q]
  BY <1>8, <1>9, <1>10
<1>13. a.pending \in [Ids -> Seq(Names)]
  BY <1>6, AccFields
<1> HIDE DEF x
<1>14. /\ Put(x).used = x.used /\ Put(x).pending = x.pending /\ Put(x).out = Append(x.out, x.ids)
  BY <1>10, PutFields
<1>15. ASSUME NEW i \in Ids PROVE x.pending[i] = Queue(i, t)
  <2>1. CASE i = id
    BY <1>1, <1>12, <1>13, <2>1 DEF q
  <2>2. CASE i # id
    BY <1>3, <1>4, <1>6, <1>12, <1>13, <2>2
  <2> QED
    BY <2>1, <2>2
<1> DEFINE y == Renamed(acc, m)
<1>16. y.used = acc.used /\ y.out = Append(acc.out, <<z[1][2]>>)
  BY <1>4, <1>6, <1>7, <1>10, <1>11, <1>14
<1>17. \A i \in Ids : y.pending[i] = Queue(i, t)
  BY <1>7, <1>14, <1>15
<1> QED
  BY <1>16, <1>17 DEF t

\* A message's calls take names of their own.
LEMMA CallsTakeNames ==
    ASSUME NEW acc \in Accs, NEW m \in Messages, m.role # "toolResult",
           \A id \in Ids : acc.pending[id] = <<>>
    PROVE  \E u \in Seq(Waits), ids \in Seq(Names) :
             LET y == Renamed(acc, m)
             IN  /\ acc.used \subseteq y.used /\ y.out = Append(acc.out, ids)
                 /\ Len(ids) = Len(m.calls) /\ Len(u) = Len(m.calls)
                 /\ \A k \in 1 .. Len(m.calls) :
                       ids[k] \in y.used /\ ids[k] \notin acc.used /\ u[k] = <<m.calls[k], ids[k]>>
                 /\ \A k, l \in 1 .. Len(m.calls) : ids[k] = ids[l] => k = l
                 /\ \A id \in Ids : y.pending[id] = Queue(id, u)
<1> DEFINE a == Fresh(acc)
           x == Folded(CallId, a, m.calls)
           y == Renamed(acc, m)
           N == Len(m.calls)
<1>1. m.calls \in Seq(Ids) /\ N \in Nat
  BY MessageFields, LenProperties
<1>2. /\ a \in Accs /\ a.ids = <<>> /\ a.used = acc.used /\ a.pending = acc.pending /\ a.out = acc.out
  BY FreshFields
<1> HIDE DEF a
<1>3. PICK u \in Seq(Waits) : AllNamed(a, m.calls, N, x, u)
  <2>1. \A id \in Ids : a.pending[id] = <<>>
    BY <1>2
  <2> QED
    BY <1>1, <1>2, <2>1, CallsNamed
<1>4. x \in Accs
  BY <1>1, <1>2, CallsFold
<1>5. y = Put(x)
  BY RenamedIs DEF a
<1> HIDE DEF x, y, N
<1>6. /\ y.used = x.used /\ y.pending = x.pending /\ y.out = Append(x.out, x.ids)
  BY <1>4, <1>5, PutFields
<1>7. x.ids \in Seq(Names)
  BY <1>4, AccFields
<1>8. /\ x.out = acc.out /\ acc.used \subseteq x.used
      /\ Len(x.ids) = N /\ Len(u) = N
      /\ \A k \in 1 .. N : x.ids[k] \in x.used /\ x.ids[k] \notin acc.used /\ u[k] = <<m.calls[k], x.ids[k]>>
      /\ \A k, l \in 1 .. N : x.ids[k] = x.ids[l] => k = l
      /\ \A id \in Ids : x.pending[id] = Queue(id, u)
  BY <1>2, <1>3 DEF AllNamed
<1> DEFINE Good(ids) ==
             /\ acc.used \subseteq y.used /\ y.out = Append(acc.out, ids)
             /\ Len(ids) = N /\ Len(u) = N
             /\ \A k \in 1 .. N :
                   ids[k] \in y.used /\ ids[k] \notin acc.used /\ u[k] = <<m.calls[k], ids[k]>>
             /\ \A k, l \in 1 .. N : ids[k] = ids[l] => k = l
             /\ \A id \in Ids : y.pending[id] = Queue(id, u)
<1>9. Good(x.ids)
  BY <1>6, <1>8
<1>10. \E ids \in Seq(Names) : Good(ids)
  <2> HIDE DEF Good
  <2> QED
    BY <1>7, <1>9
<1> QED
  BY <1>3, <1>10 DEF y, N

LEMMA ResultKeepsNames ==
    ASSUME NEW w \in Seq(Messages), NEW n \in 0 .. Len(w) - 1, NEW acc \in Accs, NEW d \in Pairings,
           NEW z \in Seq(Waits), NamedUpTo(w, n, acc, d, z),
           w[n + 1].role = "toolResult", Pair(d, w[n + 1]).good
    PROVE  NamedUpTo(w, n + 1, Renamed(acc, w[n + 1]), Pair(d, w[n + 1]), Tail(z))
<1> DEFINE n1 == n + 1
           m == w[n1]
           y == Renamed(acc, m)
           c == Pair(d, m)
           t == Tail(z)
           d1 == d.done + 1
<1>1. /\ n1 \in 1 .. Len(w) /\ n \in Nat /\ n1 = n + 1 /\ (\A i \in 1 .. n1 : i \in 1 .. n \/ i = n1)
      /\ n1 \notin 1 .. n
  BY LenProperties
<1>2. m \in Messages /\ m.calls = <<>> /\ Len(m.calls) = 0
  <2>1. m \in Messages
    BY <1>1, ElementOfSeq
  <2>2. m.role = "toolResult"
    OBVIOUS
  <2> HIDE DEF m
  <2>3. m.calls = <<>>
    BY <2>1, <2>2, MessageFields
  <2> QED
    BY <2>1, <2>3, EmptySeq
<1>3. /\ d.good /\ d.done + Len(z) = Len(d.calls)
      /\ \A j \in 1 .. Len(z) : z[j][1] = d.calls[d.done + j]
      /\ \A id \in Ids : acc.pending[id] = Queue(id, z)
      /\ Len(acc.out) = n
      /\ \A i \in 1 .. n : \A k \in 1 .. Len(w[i].calls) : NamedCall(acc.out, acc.used, n, z, i, k)
      /\ \A i, j \in 1 .. n : \A k \in 1 .. Len(w[i].calls), l \in 1 .. Len(w[j].calls) :
            acc.out[i][k] = acc.out[j][l] => i = j /\ k = l
  BY DEF NamedUpTo
<1>4. d.done \in Nat /\ d.good \in BOOLEAN /\ Len(d.calls) \in Nat /\ Len(z) \in Nat
  BY LenProperties DEF Pairings
<1>5. m.role = "toolResult" /\ c.good /\ c = Pair(d, m)
  OBVIOUS
<1> HIDE DEF n1, m, c
<1>6. c = [calls |-> d.calls, done |-> d1,
           good |-> (d.good /\ d.done < Len(d.calls) /\ m.of = d.calls[d1])]
  BY <1>5 DEF Pair
<1>7. d.done < Len(d.calls) /\ m.of = d.calls[d1] /\ c.calls = d.calls /\ c.done = d1
  <2> DEFINE fits == d.good /\ d.done < Len(d.calls) /\ m.of = d.calls[d1]
  <2>1. c = [calls |-> d.calls, done |-> d1, good |-> fits]
    BY <1>6
  <2> HIDE DEF fits, d1
  <2>2. c.calls = d.calls /\ c.done = d1 /\ c.good = fits
    BY <2>1
  <2>3. fits
    BY <1>5, <2>2
  <2> QED
    BY <2>2, <2>3 DEF fits
<1>8. Len(z) # 0 /\ z[1][1] = m.of
  BY <1>3, <1>4, <1>7
<1>9. /\ y.used = acc.used /\ y.out = Append(acc.out, <<z[1][2]>>)
      /\ \A id \in Ids : y.pending[id] = Queue(id, t)
  BY <1>2, <1>3, <1>5, <1>8, ResultNamed
<1>10. /\ t \in Seq(Waits) /\ Len(t) = Len(z) - 1 /\ \A i \in 1 .. Len(t) : t[i] = z[i + 1]
  <2>1. z # <<>>
    BY <1>8, EmptySeq
  <2> QED
    BY <2>1, HeadTailProperties
<1> DEFINE name == z[1][2]
           out == y.out
<1> HIDE DEF y, t, name
<1>11. /\ Len(out) = n1 /\ out[n1] = <<name>>
       /\ \A i \in 1 .. n : out[i] = acc.out[i]
  <2>1. <<name>> \in Seq(Names)
    <3>1. z[1] \in Waits
      BY <1>4, <1>8, ElementOfSeq
    <3>2. name \in Names
      BY <3>1 DEF Waits, name
    <3> QED
      BY <3>2, One
  <2>2. acc.out \in Seq(Seq(Names))
    BY AccFields
  <2> DEFINE s == acc.out
             v == <<name>>
  <2>3. s \in Seq(Seq(Names)) /\ v \in Seq(Names) /\ out = Append(s, v) /\ Len(s) = n
    BY <1>3, <1>9, <2>1, <2>2 DEF name
  <2> HIDE DEF s, v, out
  <2>4. Len(out) = n1 /\ out[n1] = v /\ \A i \in 1 .. n : out[i] = s[i]
    BY <1>1, <2>3, AppendProperties
  <2> QED
    BY <2>4 DEF s, v
<1> HIDE DEF out
<1>12. d1 + Len(t) = Len(c.calls) /\ \A j \in 1 .. Len(t) : t[j][1] = c.calls[d1 + j]
  <2>1. d1 + Len(t) = Len(c.calls)
    BY <1>3, <1>4, <1>7, <1>10
  <2>2. ASSUME NEW j \in 1 .. Len(t) PROVE t[j][1] = c.calls[d1 + j]
    <3> DEFINE k == j + 1
    <3>1. k \in 1 .. Len(z) /\ d.done + k = d1 + j
      <4>1. Len(z) \in Nat /\ d.done \in Nat /\ Len(t) = Len(z) - 1
        BY <1>4, <1>10
      <4> QED
        BY <4>1
    <3>2. t[j] = z[k]
      BY <1>10
    <3> HIDE DEF k, d1
    <3>3. z[k][1] = d.calls[d.done + k]
      BY <1>3, <3>1
    <3> QED
      BY <1>7, <3>1, <3>2, <3>3
  <2> QED
    BY <2>1, <2>2
<1>13. ASSUME NEW i \in 1 .. n1, NEW k \in 1 .. Len(w[i].calls)
       PROVE  i \in 1 .. n /\ NamedCall(out, y.used, n1, t, i, k)
  <2>1. i \in 1 .. n
    <3>1. i # n1
      BY <1>2, <1>13 DEF m
    <3> QED
      BY <1>1, <3>1
  <2>2. NamedCall(acc.out, acc.used, n, z, i, k)
    BY <1>3, <2>1
  <2>3. out[i][k] \in y.used /\ out[i] = acc.out[i]
    BY <1>9, <1>11, <2>1, <2>2 DEF NamedCall
  <2>4. k \in Nat /\ i \in Nat
    BY <2>1, <1>13
  <2>5. ASSUME i + k <= n1 PROVE out[i + k] = <<out[i][k]>>
    <3>1. CASE i + k <= n
      <4>1. i + k \in 1 .. n
        BY <1>1, <2>1, <2>4, <3>1
      <4>2. acc.out[i + k] = <<acc.out[i][k]>>
        BY <2>2, <3>1 DEF NamedCall
      <4> QED
        BY <1>11, <2>3, <4>1, <4>2
    <3>2. CASE i + k = n1
      <4>1. i + k > n /\ i + k - n = 1
        BY <1>1, <2>4, <3>2
      <4>2. z[i + k - n][2] = acc.out[i][k]
        BY <2>2, <4>1 DEF NamedCall
      <4>3. name = acc.out[i][k]
        BY <4>1, <4>2 DEF name
      <4> QED
        BY <1>11, <2>3, <3>2, <4>3
    <3>3. i + k <= n \/ i + k = n1
      BY <1>1, <2>4, <2>5
    <3> QED
      BY <3>1, <3>2, <3>3
  <2>6. ASSUME i + k > n1 PROVE i + k - n1 <= Len(t) /\ t[i + k - n1][2] = out[i][k]
    <3> DEFINE j == i + k - n1
    <3>1. i + k > n /\ j + 1 = i + k - n /\ j \in Nat /\ j >= 1
      BY <1>1, <2>4, <2>6
    <3>2. i + k - n <= Len(z) /\ z[i + k - n][2] = acc.out[i][k]
      BY <2>2, <3>1 DEF NamedCall
    <3> HIDE DEF j
    <3>3. j <= Len(t)
      BY <1>4, <1>10, <3>1, <3>2
    <3>4. j \in 1 .. Len(t)
      BY <1>4, <1>10, <3>1, <3>3
    <3>5. t[j] = z[i + k - n]
      BY <1>10, <3>1, <3>4
    <3>6. j <= Len(t) /\ t[j][2] = out[i][k]
      BY <2>3, <3>2, <3>3, <3>5
    <3> QED
      BY <3>6 DEF j
  <2>7. NamedCall(out, y.used, n1, t, i, k)
    BY <2>3, <2>5, <2>6 DEF NamedCall
  <2> QED
    BY <2>1, <2>7
<1>14. ASSUME NEW i \in 1 .. n1, NEW j \in 1 .. n1, NEW k \in 1 .. Len(w[i].calls),
              NEW l \in 1 .. Len(w[j].calls), out[i][k] = out[j][l]
       PROVE  i = j /\ k = l
  <2>1. i \in 1 .. n /\ j \in 1 .. n
    BY <1>13
  <2>2. acc.out[i][k] = acc.out[j][l]
    BY <1>11, <1>14, <2>1
  <2> QED
    BY <1>3, <2>1, <2>2
<1>15. NamedUpTo(w, n1, y, c, t)
  <2>1. c.done + Len(t) = Len(c.calls) /\ \A j \in 1 .. Len(t) : t[j][1] = c.calls[c.done + j]
    BY <1>7, <1>12
  <2>2. out = y.out
    BY DEF out
  <2>3. \A i \in 1 .. n1 : \A k \in 1 .. Len(w[i].calls) : NamedCall(out, y.used, n1, t, i, k)
    BY <1>13
  <2>4. \A i, j \in 1 .. n1 : \A k \in 1 .. Len(w[i].calls), l \in 1 .. Len(w[j].calls) :
           out[i][k] = out[j][l] => i = j /\ k = l
    BY <1>14
  <2>5. Len(y.out) = n1
    BY <1>11, <2>2
  <2>6. \A i \in 1 .. n1 : \A k \in 1 .. Len(w[i].calls) : NamedCall(y.out, y.used, n1, t, i, k)
    BY <2>2, <2>3
  <2>7. \A i, j \in 1 .. n1 : \A k \in 1 .. Len(w[i].calls), l \in 1 .. Len(w[j].calls) :
           y.out[i][k] = y.out[j][l] => i = j /\ k = l
    BY <2>2, <2>4
  <2>8. \A id \in Ids : y.pending[id] = Queue(id, t)
    BY <1>9
  <2>9. c.good
    BY <1>5
  <2> QED
    BY <2>1, <2>5, <2>6, <2>7, <2>8, <2>9 DEF NamedUpTo
<1> QED
  BY <1>15 DEF n1, y, c, t, m

LEMMA CallsKeepNames ==
    ASSUME NEW w \in Seq(Messages), NEW n \in 0 .. Len(w) - 1, NEW acc \in Accs, NEW d \in Pairings,
           NEW z \in Seq(Waits), NamedUpTo(w, n, acc, d, z),
           w[n + 1].role # "toolResult", Pair(d, w[n + 1]).good
    PROVE  \E u \in Seq(Waits) : NamedUpTo(w, n + 1, Renamed(acc, w[n + 1]), Pair(d, w[n + 1]), u)
<1> DEFINE n1 == n + 1
           m == w[n1]
           y == Renamed(acc, m)
           c == Pair(d, m)
           N == Len(m.calls)
<1>1. /\ n1 \in 1 .. Len(w) /\ n \in Nat /\ n1 = n + 1 /\ (\A i \in 1 .. n1 : i \in 1 .. n \/ i = n1)
      /\ n1 \notin 1 .. n
  BY LenProperties
<1>2. m \in Messages
  BY <1>1, ElementOfSeq
<1>3. /\ d.good /\ d.done + Len(z) = Len(d.calls)
      /\ \A id \in Ids : acc.pending[id] = Queue(id, z)
      /\ Len(acc.out) = n
      /\ \A i \in 1 .. n : \A k \in 1 .. Len(w[i].calls) : NamedCall(acc.out, acc.used, n, z, i, k)
      /\ \A i, j \in 1 .. n : \A k \in 1 .. Len(w[i].calls), l \in 1 .. Len(w[j].calls) :
            acc.out[i][k] = acc.out[j][l] => i = j /\ k = l
  BY DEF NamedUpTo
<1>4. d.done \in Nat /\ Len(d.calls) \in Nat /\ Len(z) \in Nat
  BY LenProperties DEF Pairings
<1>5. m.role # "toolResult" /\ c.good /\ c = Pair(d, m) /\ m = w[n1]
  OBVIOUS
<1> HIDE DEF n1, m, c
<1>6. c = [calls |-> m.calls, done |-> 0, good |-> (d.good /\ d.done = Len(d.calls))]
  BY <1>5 DEF Pair
<1>7. d.done = Len(d.calls) /\ c.calls = m.calls /\ c.done = 0
  <2> DEFINE fits == d.good /\ d.done = Len(d.calls)
  <2>1. c = [calls |-> m.calls, done |-> 0, good |-> fits]
    BY <1>6
  <2> HIDE DEF fits
  <2>2. c.calls = m.calls /\ c.done = 0 /\ c.good = fits
    BY <2>1
  <2>3. fits
    BY <1>5, <2>2
  <2> QED
    BY <2>2, <2>3 DEF fits
<1>8. Len(z) = 0 /\ z = <<>>
  BY <1>3, <1>4, <1>7, EmptySeq
<1>9. \A id \in Ids : acc.pending[id] = <<>>
  BY <1>3, <1>8, QueueType
<1>10. PICK u \in Seq(Waits), ids \in Seq(Names) :
          /\ acc.used \subseteq y.used /\ y.out = Append(acc.out, ids)
          /\ Len(ids) = N /\ Len(u) = N
          /\ \A k \in 1 .. N :
                ids[k] \in y.used /\ ids[k] \notin acc.used /\ u[k] = <<m.calls[k], ids[k]>>
          /\ \A k, l \in 1 .. N : ids[k] = ids[l] => k = l
          /\ \A id \in Ids : y.pending[id] = Queue(id, u)
  <2>1. m.role # "toolResult"
    BY <1>5
  <2> HIDE DEF N
  <2> QED
    BY <1>2, <1>9, <2>1, CallsTakeNames DEF N
<1>11. N \in Nat
  BY <1>2, MessageFields, LenProperties
<1> HIDE DEF y
<1> DEFINE out == y.out
<1>12. /\ Len(out) = n1 /\ out[n1] = ids
       /\ \A i \in 1 .. n : out[i] = acc.out[i]
  <2> DEFINE s == acc.out
  <2>1. s \in Seq(Seq(Names)) /\ out = Append(s, ids) /\ Len(s) = n
    BY <1>3, <1>10, AccFields
  <2> HIDE DEF s, out
  <2>2. Len(out) = n1 /\ out[n1] = ids /\ \A i \in 1 .. n : out[i] = s[i]
    BY <1>1, <2>1, AppendProperties
  <2> QED
    BY <2>2 DEF s
<1> HIDE DEF out
<1>13. N = Len(w[n1].calls)
  BY <1>5
<1>14. ASSUME NEW i \in 1 .. n1, NEW k \in 1 .. Len(w[i].calls)
       PROVE  NamedCall(out, y.used, n1, u, i, k)
  <2>1. k \in Nat /\ i \in Nat /\ k >= 1
    BY <1>1, <1>14
  <2>2. CASE i \in 1 .. n
    <3>1. NamedCall(acc.out, acc.used, n, z, i, k)
      BY <1>3, <2>2
    <3>2. out[i][k] \in y.used /\ out[i] = acc.out[i]
      BY <1>10, <1>12, <2>2, <3>1 DEF NamedCall
    <3>3. i + k <= n
      <4>1. ~(i + k - n <= Len(z)) \/ i + k <= n
        BY <1>1, <1>8, <2>1
      <4> QED
        BY <1>1, <2>1, <3>1, <4>1 DEF NamedCall
    <3>4. i + k \in 1 .. n /\ ~(i + k > n1)
      BY <1>1, <2>1, <3>3
    <3>5. out[i + k] = <<out[i][k]>>
      <4>1. acc.out[i + k] = <<acc.out[i][k]>>
        BY <3>1, <3>3 DEF NamedCall
      <4> QED
        BY <1>12, <3>2, <3>4, <4>1
    <3> QED
      BY <3>2, <3>4, <3>5 DEF NamedCall
  <2>3. CASE i = n1
    <3>1. k \in 1 .. N
      BY <1>13, <1>14, <2>3
    <3>2. out[i][k] = ids[k] /\ ids[k] \in y.used /\ u[k] = <<m.calls[k], ids[k]>>
      BY <1>10, <1>12, <2>3, <3>1
    <3>3. ~(i + k <= n1) /\ i + k - n1 = k /\ k <= Len(u)
      BY <1>1, <1>10, <1>11, <2>1, <2>3, <3>1
    <3>4. u[i + k - n1][2] = out[i][k] /\ i + k - n1 <= Len(u)
      BY <3>2, <3>3
    <3> QED
      BY <3>2, <3>3, <3>4 DEF NamedCall
  <2> QED
    BY <1>1, <2>2, <2>3
<1>15. ASSUME NEW i \in 1 .. n, NEW k \in 1 .. Len(w[i].calls)
       PROVE  out[i][k] \in acc.used /\ out[i] = acc.out[i]
  <2>1. NamedCall(acc.out, acc.used, n, z, i, k)
    BY <1>3
  <2> QED
    BY <1>12, <2>1 DEF NamedCall
<1>16. ASSUME NEW k \in 1 .. Len(w[n1].calls)
       PROVE  k \in 1 .. N /\ out[n1][k] = ids[k] /\ out[n1][k] \notin acc.used
  BY <1>10, <1>12, <1>13
<1>17. ASSUME NEW i \in 1 .. n1, NEW j \in 1 .. n1, NEW k \in 1 .. Len(w[i].calls),
              NEW l \in 1 .. Len(w[j].calls), out[i][k] = out[j][l]
       PROVE  i = j /\ k = l
  <2>1. CASE i \in 1 .. n /\ j \in 1 .. n
    <3>1. acc.out[i][k] = acc.out[j][l]
      BY <1>12, <1>17, <2>1
    <3>2. \A a, b \in 1 .. n : \A e \in 1 .. Len(w[a].calls), f \in 1 .. Len(w[b].calls) :
             acc.out[a][e] = acc.out[b][f] => a = b /\ e = f
      BY <1>3
    <3> QED
      BY <2>1, <3>1, <3>2
  <2>2. CASE i \in 1 .. n /\ j = n1
    BY <1>15, <1>16, <1>17, <2>2
  <2>3. CASE i = n1 /\ j \in 1 .. n
    BY <1>15, <1>16, <1>17, <2>3
  <2>4. CASE i = n1 /\ j = n1
    <3>1. k \in 1 .. N /\ l \in 1 .. N /\ ids[k] = ids[l]
      BY <1>16, <1>17, <2>4
    <3> QED
      BY <1>10, <2>4, <3>1
  <2> QED
    BY <1>1, <2>1, <2>2, <2>3, <2>4
<1>18. NamedUpTo(w, n1, y, c, u)
  <2>1. c.good /\ c.done + Len(u) = Len(c.calls)
    BY <1>5, <1>7, <1>10, <1>11
  <2>2. \A j \in 1 .. Len(u) : u[j][1] = c.calls[c.done + j]
    <3>1. ASSUME NEW j \in 1 .. Len(u) PROVE u[j][1] = c.calls[c.done + j]
      <4>1. j \in 1 .. N /\ c.done + j = j
        BY <1>7, <1>10, <1>11
      <4> QED
        BY <1>7, <1>10, <4>1
    <3> QED
      BY <3>1
  <2>3. out = y.out
    BY DEF out
  <2>4. Len(y.out) = n1
    BY <1>12, <2>3
  <2>5. \A i \in 1 .. n1 : \A k \in 1 .. Len(w[i].calls) : NamedCall(y.out, y.used, n1, u, i, k)
    BY <1>14, <2>3
  <2>6. \A i, j \in 1 .. n1 : \A k \in 1 .. Len(w[i].calls), l \in 1 .. Len(w[j].calls) :
           y.out[i][k] = y.out[j][l] => i = j /\ k = l
    BY <1>17, <2>3
  <2>7. \A id \in Ids : y.pending[id] = Queue(id, u)
    BY <1>10
  <2> QED
    BY <2>1, <2>2, <2>4, <2>5, <2>6, <2>7 DEF NamedUpTo
<1>19. \E v \in Seq(Waits) : NamedUpTo(w, n1, y, c, v)
  BY <1>18
<1> QED
  BY <1>19 DEF n1, y, c, m

LEMMA RenamingStep ==
    ASSUME NEW w \in Seq(Messages), NEW b, NEW x, IsRun(x, RenameStep, b, w, Accs),
           NEW n \in 0 .. Len(w) - 1
    PROVE  /\ x[n] \in Accs /\ w[n + 1] \in Messages /\ n + 1 \in 0 .. Len(w)
           /\ x[n + 1] = Renamed(x[n], w[n + 1])
<1>1. /\ x[n] \in Accs /\ w[n + 1] \in Messages /\ n + 1 \in 0 .. Len(w)
      /\ x[n + 1] = RenameStep[<<x[n], w[n + 1]>>]
  BY RunStep
<1> QED
  BY <1>1, RenameLoops

\* In a window that pairs every call with its result, every call has a name of its own.
LEMMA NamesApart ==
    ASSUME NEW w \in Seq(Messages), Closed(Pairing(w)), NEW ids, ids = DistinctIds(w)
    PROVE  /\ \A i, j \in 1 .. Len(w) : \A k \in 1 .. Len(w[i].calls), l \in 1 .. Len(w[j].calls) :
                 ids[i][k] = ids[j][l] => i = j /\ k = l
           /\ \A i \in 1 .. Len(w) : \A k \in 1 .. Len(w[i].calls) : ids[i + k] = <<ids[i][k]>>
<1>1. PICK x : IsRun(x, RenameStep, Nothing, w, Accs) /\ Fold(RenameStep, Nothing, w) = x[Len(w)]
  BY NothingFields, RenameLoops, FoldRun
<1>2. PICK r : IsRun(r, PairStep, Unpaired, w, Pairings) /\ Fold(PairStep, Unpaired, w) = r[Len(w)]
  BY PairLoops, FoldRun
<1>3. Len(w) \in Nat
  BY LenProperties
<1> DEFINE T == {n \in 0 .. Len(w) : r[n].good => \E z \in Seq(Waits) : NamedUpTo(w, n, x[n], r[n], z)}
<1>4. 0 \in T
  <2> DEFINE z == <<>>
  <2>1. z \in Seq(Waits) /\ Len(z) = 0 /\ \A id \in Ids : Queue(id, z) = <<>>
    BY EmptySeq, QueueType
  <2>2. Len(Nothing.out) = 0 /\ \A id \in Ids : Nothing.pending[id] = <<>>
    BY NothingFields, EmptySeq
  <2>3. Unpaired.good /\ Unpaired.done = 0 /\ Len(Unpaired.calls) = 0
    BY EmptySeq DEF Unpaired
  <2>4. 1 .. 0 = {}
    OBVIOUS
  <2> HIDE DEF z
  <2>5. NamedUpTo(w, 0, Nothing, Unpaired, z)
    BY <2>1, <2>2, <2>3, <2>4 DEF NamedUpTo
  <2>6. x[0] = Nothing /\ r[0] = Unpaired
    BY <1>1, <1>2 DEF IsRun
  <2>7. \E u \in Seq(Waits) : NamedUpTo(w, 0, x[0], r[0], u)
    BY <2>1, <2>5, <2>6
  <2> QED
    BY <1>3, <2>7
<1>5. ASSUME NEW n \in 0 .. Len(w) - 1, n \in T PROVE n + 1 \in T
  <2>1. /\ x[n] \in Accs /\ w[n + 1] \in Messages /\ n + 1 \in 0 .. Len(w)
    BY <1>1, RenamingStep
  <2>2. x[n + 1] = Renamed(x[n], w[n + 1])
    BY <1>1, RenamingStep
  <2>3. r[n] \in Pairings /\ r[n + 1] = Pair(r[n], w[n + 1])
    BY <1>2, PairingStep
  <2>4. ASSUME r[n + 1].good
        PROVE  \E u \in Seq(Waits) : NamedUpTo(w, n + 1, x[n + 1], r[n + 1], u)
    <3>1. r[n].good
      <4> DEFINE p == r[n]
                 q == w[n + 1]
      <4>1. Pair(p, q).good /\ p.good \in BOOLEAN
        BY <2>3, <2>4 DEF Pairings
      <4> HIDE DEF p, q
      <4>4. p.good
        <5>1. CASE q.role = "toolResult"
          BY <4>1, <5>1 DEF Pair
        <5>2. CASE q.role # "toolResult"
          BY <4>1, <5>2 DEF Pair
        <5> QED
          BY <5>1, <5>2
      <4> QED
        BY <4>4 DEF p
    <3>2. PICK z \in Seq(Waits) : NamedUpTo(w, n, x[n], r[n], z)
      BY <1>5, <3>1
    <3>3. Pair(r[n], w[n + 1]).good
      BY <2>3, <2>4
    <3>4. CASE w[n + 1].role = "toolResult"
      <4>1. NamedUpTo(w, n + 1, Renamed(x[n], w[n + 1]), Pair(r[n], w[n + 1]), Tail(z))
        BY <2>1, <2>3, <3>2, <3>3, <3>4, ResultKeepsNames
      <4>2. Tail(z) \in Seq(Waits)
        <5>1. Len(z) # 0
          <6> DEFINE p == r[n]
                     q == w[n + 1]
          <6>1. /\ p.done + Len(z) = Len(p.calls) /\ Pair(p, q).good /\ p \in Pairings /\ q.role = "toolResult"
            BY <2>3, <3>2, <3>3, <3>4 DEF NamedUpTo
          <6> HIDE DEF p, q
          <6>2. p.done < Len(p.calls)
            BY <6>1 DEF Pair
          <6> QED
            BY <6>1, <6>2, LenProperties DEF Pairings
        <5> QED
          BY <5>1, EmptySeq, HeadTailProperties
      <4> QED
        BY <2>2, <2>3, <4>1, <4>2
    <3>5. CASE w[n + 1].role # "toolResult"
      <4>1. \E u \in Seq(Waits) :
               NamedUpTo(w, n + 1, Renamed(x[n], w[n + 1]), Pair(r[n], w[n + 1]), u)
        BY <2>1, <2>3, <3>2, <3>3, <3>5, CallsKeepNames
      <4> QED
        BY <2>2, <2>3, <4>1
    <3> QED
      BY <3>4, <3>5
  <2> QED
    BY <2>1, <2>4
<1>6. \A n \in 0 .. Len(w) : n \in T
  <2> HIDE DEF T
  <2> QED
    BY <1>3, <1>4, <1>5, Climb
<1> DEFINE n == Len(w)
           acc == x[n]
           d == r[n]
<1>7. d = Pairing(w) /\ ids = acc.out
  BY <1>1, <1>2, DistinctFold DEF Pairing
<1>8. d.good /\ d.done = Len(d.calls)
  BY <1>7 DEF Closed
<1>9. PICK z \in Seq(Waits) : NamedUpTo(w, n, acc, d, z)
  BY <1>3, <1>6, <1>8
<1>10. d \in Pairings
  BY <1>2, <1>3 DEF IsRun
<1> HIDE DEF acc, d
<1>11. Len(z) = 0
  BY <1>8, <1>9, <1>10, LenProperties DEF NamedUpTo, Pairings
<1>12. ASSUME NEW i \in 1 .. n, NEW k \in 1 .. Len(w[i].calls) PROVE ids[i + k] = <<ids[i][k]>>
  <2>1. NamedCall(acc.out, acc.used, n, z, i, k)
    BY <1>9 DEF NamedUpTo
  <2>2. i \in Nat /\ k \in Nat
    BY <1>3, <1>12
  <2>3. ~(i + k - n <= Len(z)) \/ i + k <= n
    BY <1>3, <1>11, <2>2
  <2>4. i + k <= n
    BY <1>3, <2>1, <2>2, <2>3 DEF NamedCall
  <2> QED
    BY <1>7, <2>1, <2>4 DEF NamedCall
<1>13. \A i, j \in 1 .. n : \A k \in 1 .. Len(w[i].calls), l \in 1 .. Len(w[j].calls) :
          ids[i][k] = ids[j][l] => i = j /\ k = l
  BY <1>7, <1>9 DEF NamedUpTo
<1> QED
  BY <1>12, <1>13

LEMMA PricesTellApart == ASSUME TranscriptInv PROVE PricedIdsTellCallsApart
<1> DEFINE w == SessionContext(Stored(messages))
           ids == DistinctIds(w)
           calls == UNION {{i} \X DOMAIN w[i].calls : i \in DOMAIN w}
<1>1. w \in Seq(Messages) /\ Closed(Pairing(w))
  <2>1. Stored(messages) \in Seq(Records)
    BY StoredType DEF TranscriptInv
  <2> DEFINE s == Stored(messages)
  <2> HIDE DEF s
  <2>2. SessionContext(s) \in Seq(Messages) /\ Closed(Pairing(SessionContext(s)))
    BY <2>1, ContextPairs DEF s
  <2> QED
    BY <2>2 DEF s
<1> HIDE DEF w
<1>2. /\ \A i, j \in 1 .. Len(w) : \A k \in 1 .. Len(w[i].calls), l \in 1 .. Len(w[j].calls) :
            ids[i][k] = ids[j][l] => i = j /\ k = l
      /\ \A i \in 1 .. Len(w) : \A k \in 1 .. Len(w[i].calls) : ids[i + k] = <<ids[i][k]>>
  BY <1>1, NamesApart
<1> HIDE DEF ids
<1>3. ASSUME NEW a \in calls
      PROVE  a[1] \in 1 .. Len(w) /\ a[2] \in 1 .. Len(w[a[1]].calls) /\ a = <<a[1], a[2]>>
  <2>1. PICK i \in DOMAIN w : a \in {i} \X DOMAIN w[i].calls
    BY <1>3
  <2>2. DOMAIN w = 1 .. Len(w)
    BY <1>1, LenProperties
  <2>3. w[i] \in Messages
    BY <1>1, <2>2, ElementOfSeq
  <2>4. w[i].calls \in Seq(Ids)
    BY <2>3, MessageFields
  <2>5. DOMAIN w[i].calls = 1 .. Len(w[i].calls)
    BY <2>4, LenProperties
  <2> QED
    BY <2>1, <2>2, <2>5
<1>4. ASSUME NEW a \in calls, NEW b \in calls
      PROVE  /\ ids[a[1]][a[2]] = ids[b[1]][b[2]] => a = b
             /\ ids[a[1] + a[2]] = <<ids[a[1]][a[2]]>>
  <2>1. /\ a[1] \in 1 .. Len(w) /\ a[2] \in 1 .. Len(w[a[1]].calls) /\ a = <<a[1], a[2]>>
        /\ b[1] \in 1 .. Len(w) /\ b[2] \in 1 .. Len(w[b[1]].calls) /\ b = <<b[1], b[2]>>
    BY <1>3
  <2> HIDE DEF calls
  <2>2. ids[a[1] + a[2]] = <<ids[a[1]][a[2]]>>
    BY <1>2, <2>1
  <2>3. ASSUME ids[a[1]][a[2]] = ids[b[1]][b[2]] PROVE a = b
    <3>1. a[1] = b[1] /\ a[2] = b[2]
      BY <1>2, <2>1, <2>3
    <3> QED
      BY <2>1, <3>1
  <2> QED
    BY <2>2, <2>3
<1> QED
  BY <1>4 DEF PricedIdsTellCallsApart, w, ids, calls

\* Whatever is stored, the window sent for a price names every call apart from every
\* other, and each result by its own call's name (tool-call-id.ts, price-handle.ts).
THEOREM PricedIdsApart == TranscriptSpec => []PricedIdsTellCallsApart
<1>1. TranscriptInv => PricedIdsTellCallsApart
  BY PricesTellApart
<1> QED
  BY <1>1, TranscriptInvariant, PTL
=============================================================================
