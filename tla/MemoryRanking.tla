---------------------------- MODULE MemoryRanking ----------------------------
(***************************************************************************)
(* From what the searches found to what is injected (memory-ranking.ts,    *)
(* recall-rerank.ts, auto-recall.ts).  A memory is a record: uri, score,   *)
(* level ("leaf", "folder" or "unknown"), text (what its abstract says, or *)
(* NoText), category, event (kept apart from its twins), boost (what rank  *)
(* adds to the score for this question) and the characters of its line.    *)
(***************************************************************************)
EXTENDS Integers, Sequences, FiniteSets

NoText == "no text"

MemoryRecords ==
    [uri : STRING, type : STRING, score : Int, level : {"leaf", "folder", "unknown"},
     text : STRING, category : STRING, event : BOOLEAN, boost : Int, short : Nat, full : Nat]

(***************************************************************************)
(* What s has at the places P, one after another: order holds <<i, j>> when*)
(* i comes before j, or is j, so that the k-th place is the one that k of P*)
(* come up to.                                                             *)
(***************************************************************************)
InOrder(s, P, order) ==
    [k \in 1..Cardinality(P) |->
        s[CHOOSE i \in P : Cardinality({j \in P : <<j, i>> \in order}) = k]]

Only(s, P) == InOrder(s, P, {p \in P \X P : p[1] <= p[2]})

\* The first of each key.
FirstOfEach(s, key) == Only(s, {i \in DOMAIN s : \A j \in 1..(i - 1) : key[j] # key[i]})

\* A stable sort, highest first.
Highest1st(s, weight) ==
    InOrder(s, DOMAIN s, {p \in (DOMAIN s) \X (DOMAIN s) :
                             \/ weight[p[1]] > weight[p[2]]
                             \/ weight[p[1]] = weight[p[2]] /\ p[1] <= p[2]})

FirstOf(s, n) == SubSeq(s, 1, IF Len(s) < n THEN Len(s) ELSE n)

\* postProcessMemories: by score, over the threshold, twins of one category once.
TwinKey(m) == IF m.text # NoText /\ ~m.event THEN <<m.category, m.text>> ELSE <<"uri", m.uri>>
PostProcessed(found, limit, threshold) ==
    LET sorted == Highest1st(found, [i \in DOMAIN found |-> found[i].score])
        over == Only(sorted, {i \in DOMAIN sorted : sorted[i].score >= threshold})
    IN FirstOf(FirstOfEach(over, [i \in DOMAIN over |-> TwinKey(over[i])]), limit)

\* pickMemoriesForInjection: by rank, one of each text, leaves before the others.
Rank(m) == m.score + m.boost
TextKey(m) == IF m.text # NoText THEN <<"text", m.text>> ELSE <<"uri", m.uri>>
Picked(candidates, limit, threshold) ==
    LET sorted == Highest1st(candidates, [i \in DOMAIN candidates |-> Rank(candidates[i])])
        single == FirstOfEach(sorted, [i \in DOMAIN sorted |-> TextKey(sorted[i])])
        leaves == {i \in DOMAIN single : single[i].level = "leaf"}
        others == {i \in (DOMAIN single) \ leaves : single[i].score >= threshold}
    IN FirstOf(Only(single, leaves) \o Only(single, others), limit)

\* rerankMemories: the answer's order, unless its best is under the floor.
Reranked(candidates, relevance, keep, floor) ==
    LET order == Highest1st(candidates, [i \in DOMAIN candidates |-> relevance[candidates[i].uri]])
        kept == FirstOf(order, keep)
    IN IF candidates = <<>> \/ relevance[order[1].uri] < floor THEN <<>>
       ELSE [i \in DOMAIN kept |-> [kept[i] EXCEPT !.score = relevance[kept[i].uri]]]

\* What the searches found, one of each uri, without folders.
Candidates(found) ==
    LET single == FirstOfEach(found, [i \in DOMAIN found |-> found[i].uri])
    IN Only(single, {i \in DOMAIN single : single[i].level # "folder"})

\* None says what another says.
Distinct(memories) ==
    \A i, j \in 1..Len(memories) : TextKey(memories[i]) = TextKey(memories[j]) => i = j
=============================================================================
