------------------------------ MODULE MCRecall ------------------------------
(***************************************************************************)
(* The settings' store, recall and its traces on small instances, in one   *)
(* run: a behaviour is one of one part, the others standing at rest.  They *)
(* share no state that one of them changes while another runs: a recall    *)
(* reads the records in one step, and records its trace in one.            *)
(***************************************************************************)
EXTENDS QueryConfigStore, RecallTrace, Recall

VARIABLE part

\* What entries know of their session's names, and what a query does.
EntryNames == {{"key", "id"}, {"id"}}
QueryNames == {{"key"}, {"key", "id"}}

Memory(uri, type, score, level, text, category, boost, short, full) ==
    [uri |-> uri, type |-> type, score |-> score, level |-> level, text |-> text,
     category |-> category, event |-> FALSE, boost |-> boost, short |-> short, full |-> full]

\* Two that say the same under two categories, one lifted by the question, a resource
\* without a summary and a folder's description.
Pool == {Memory("m1", "user", 5, "leaf", "same", "entities", 0, 2, 4),
         Memory("m2", "user", 4, "leaf", "same", "profile", 0, 2, 2),
         Memory("m3", "user", 3, "leaf", "other", "entities", 3, 1, 3),
         Memory("r1", "resource", 4, "unknown", "no text", "", 0, 2, 2),
         Memory("r2", "resource", 5, "folder", "folder", "", 0, 1, 1)}

MemoriesThenResources == <<"user", "resource">>
Configured == [recallLimit |-> 2, scoreThreshold |-> 3]
OfClaws == {NoRecord, [recallLimit |-> 1, candidateMultiplier |-> 3]}
OfSessions == {[candidateLimit |-> 2, recallLimit |-> 3], [scoreThreshold |-> 5]}
OfRequests == {[recallLimit |-> 3, scoreThreshold |-> 4]}

ASSUME PartsAreInstances == QueryConfigConstants /\ RecallTraceConstants /\ RecallConstants
-----------------------------------------------------------------------------
StoreRests == /\ file = [time |-> 1, says |-> Empty] /\ data = Empty /\ mark = 1
              /\ load = [pc |-> "done", got |-> Empty] /\ queue = <<>>
              /\ write = NoWrite /\ call = [c \in Commands |-> IdleCall]
              /\ reader = [r \in Readers |-> Resting]
              /\ edits = 0 /\ stops = 0 /\ disturbed = {} /\ raced = FALSE
TracesRest == TracesInit
RecallRests == /\ asker = "turn" /\ rerank = FALSE /\ request = NoRecord
               /\ claws = [a \in {} |-> NoRecord] /\ sessions = [a \in {} |-> NoRecord]
               /\ settings = FromStatic(Static)
               /\ pc = "over" /\ found = <<>> /\ kept = <<>> /\ at = 0 /\ lines = <<>>
               /\ chars = 0 /\ answer = Full(<<>>) /\ trace = NoTrace

Init == \/ part = "store" /\ StoreInit /\ TracesRest /\ RecallRests
        \/ part = "traces" /\ StoreRests /\ TracesInit /\ RecallRests
        \/ part = "recall" /\ StoreRests /\ TracesRest /\ RecallInit

Next == /\ UNCHANGED part
        /\ \/ part = "store" /\ StoreNext /\ UNCHANGED <<traceVars, recallVars>>
           \/ part = "traces" /\ TracesNext /\ UNCHANGED <<storeVars, recallVars>>
           \/ part = "recall" /\ RecallNext /\ UNCHANGED <<storeVars, traceVars>>

vars == <<part, storeVars, traceVars, recallVars>>
Spec == Init /\ [][Next]_vars

\* At rest a part has nothing to do that its fairness could ask for.
FairSpec == Spec /\ StoreFairness /\ TracesFairness /\ RecallFairness
-----------------------------------------------------------------------------
(* Commands of the settings, queries for traces and questions all come to  *)
(* their answer, though a write be refused, an append fail, and no search, *)
(* read or reranker ever answer (query-config.ts persist, recall-trace.ts  *)
(* query, auto-recall.ts withTimeout).                                     *)
EveryoneIsAnswered == CallReturns /\ QueryAnswers /\ RecallIsAnswered
=============================================================================
