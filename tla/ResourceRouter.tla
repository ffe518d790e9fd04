---------------------------- MODULE ResourceRouter ----------------------------
(***************************************************************************)
(* The taxonomy of the resources and the choice of a category               *)
(* (src/routing/resource-taxonomy.ts, resource-router.ts,                   *)
(* resource-routing-retrieval.ts and the selectors of                       *)
(* resource-routing-service.ts).  A taxonomy as it is written down is a     *)
(* sequence of nodes in the order they are compiled, each under an earlier  *)
(* one or under the root (parent 0), with the key of its fallback.  Texts   *)
(* and vectors are abstracted to the scores they come to.                   *)
(***************************************************************************)
EXTENDS Integers, Sequences, SequencesExt

Root == <<>>

PathOf(nodes) ==
    LET path[i \in DOMAIN nodes] ==
          Append(IF nodes[i].parent = 0 THEN Root ELSE path[nodes[i].parent], nodes[i].segment)
    IN path

\* Every key and every path once, a fallback that takes resources, and
\* something besides it to choose.
Compiles(written) ==
    LET nodes == written.nodes
        path == PathOf(nodes)
        Takes(i) == nodes[i].routeable
    IN /\ \A i, j \in DOMAIN nodes : i # j => nodes[i].key # nodes[j].key /\ path[i] # path[j]
       /\ \E i \in DOMAIN nodes : nodes[i].key = written.fallback /\ Takes(i)
       /\ \E i \in DOMAIN nodes : nodes[i].key # written.fallback /\ Takes(i)

Categories(written) ==
    {[key |-> written.nodes[i].key, path |-> PathOf(written.nodes)[i],
      routeable |-> written.nodes[i].routeable] : i \in DOMAIN written.nodes}

Fallback(written) == CHOOSE c \in Categories(written) : c.key = written.fallback
Semantic(written) ==
    {c \in Categories(written) : c.routeable /\ c.key # written.fallback}
-----------------------------------------------------------------------------
(***************************************************************************)
(* A selector names a category by its key or by its path from the root.    *)
(* One segment may be either, and then key and path must agree.            *)
(***************************************************************************)
Selected(written, selector) ==
    LET byPath == {c \in Categories(written) : c.path = selector}
        byKey == {c \in Categories(written) : <<c.key>> = selector}
        named == byKey \cup byPath
    IN CASE named = {} -> [is |-> "unknown", of |-> {}]
         [] byKey # {} /\ byPath # {} /\ byKey # byPath -> [is |-> "ambiguous", of |-> {}]
         [] OTHER -> [is |-> "found", of |-> named]

\* What a tool is told of a selector: a category that takes resources, or why not.
CategoryOrFallback(written, selector) ==
    LET s == Selected(written, selector) IN
    IF s.is = "found"
    THEN LET c == CHOOSE c \in s.of : TRUE IN
         [category |-> IF c.routeable THEN c ELSE Fallback(written),
          reason |-> IF c.routeable THEN "none" ELSE "organizational_category"]
    ELSE [category |-> Fallback(written),
          reason |-> IF s.is = "ambiguous" THEN "ambiguous_category" ELSE "unknown_category"]
-----------------------------------------------------------------------------
(***************************************************************************)
(* Automatic routing.  scores: category -> how near the summary is to it;  *)
(* ranks: category -> what the reranker makes of it.  Equal scores are     *)
(* ordered by key: here by the order of the nodes, which stands for it.    *)
(***************************************************************************)
Place(written, c) == CHOOSE i \in DOMAIN written.nodes : written.nodes[i].key = c.key

TopCandidates(written, scores, topK) ==
    LET order == SetToSortSeq(Semantic(written),
                   LAMBDA a, b : \/ scores[a] > scores[b]
                                 \/ scores[a] = scores[b] /\ Place(written, a) < Place(written, b))
    IN SubSeq(order, 1, IF topK < Len(order) THEN topK ELSE Len(order))

\* Equal ranks keep the order of the candidates.
Best(candidates, ranks) ==
    candidates[CHOOSE i \in DOMAIN candidates :
                 \A j \in DOMAIN candidates :
                    \/ ranks[candidates[i]] > ranks[candidates[j]]
                    \/ ranks[candidates[i]] = ranks[candidates[j]] /\ i <= j]

AsksReranker(candidates, scores, retrieval) ==
    /\ scores[candidates[1]] >= retrieval.minScore
    /\ Len(candidates) > 1
    /\ scores[candidates[1]] - scores[candidates[2]] < retrieval.rerankBelowMargin

Decide(written, scores, ranks, retrieval) ==
    LET candidates == TopCandidates(written, scores, retrieval.topK) IN
    CASE scores[candidates[1]] < retrieval.minScore -> Fallback(written)
      [] AsksReranker(candidates, scores, retrieval) -> Best(candidates, ranks)
      [] OTHER -> candidates[1]
=============================================================================
