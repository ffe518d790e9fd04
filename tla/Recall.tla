------------------------------- MODULE Recall -------------------------------
(***************************************************************************)
(* What stands before a question: a turn's automatic recall                *)
(* (assembleOpenVikingSession in the transform_context phase,              *)
(* buildAutoRecallContext), the recall command's (recall-cli.ts), or what  *)
(* the model's own tool answers (memory_recall).  The settings in force    *)
(* are read; the server is asked whether it lives, by all but the tool;    *)
(* the searches go out together and each settles on its own; what they     *)
(* found is ranked by rule or, for all but the tool, by a reranker; the    *)
(* contents are read one after another as long as there is room; the trace *)
(* is recorded.  For all but the tool a timer runs over the work after the *)
(* first check: when it fires the question goes on without memories and    *)
(* the work goes on behind it.                                             *)
(***************************************************************************)
EXTENDS QueryLayers, MemoryRanking, SequencesExt

CONSTANTS Memories,      \* what the server may find; records, see MemoryRanking
          Plan,          \* the searches, in order: "user", "resource"
          Static,        \* the configuration's recallLimit and scoreThreshold
          ClawRecords, SessionRecords,  \* the records there may be when the question comes
          Budget,        \* recallMaxInjectedChars
          Requests,      \* what the tool's call may ask for
          RerankKeep, RerankCandidates, Floor, Relevances,
          PreferAbstract

\* Assumed where this module is instantiated.
RecallConstants ==
    /\ Memories \subseteq MemoryRecords
    /\ Plan \in Seq({"user", "resource"}) /\ Len(Plan) <= 2
    /\ Static \in [recallLimit : Nat, scoreThreshold : Nat]
    /\ \A r \in ClawRecords \cup SessionRecords \cup Requests : IsSettings(r)
    /\ Floor \in Int /\ Relevances \subseteq Int
    /\ PreferAbstract \in BOOLEAN
    /\ Budget \in Nat /\ RerankKeep \in Nat \ {0} /\ RerankCandidates \in Nat \ {0}
    /\ MinCandidates \in Nat /\ Multiplier \in Nat

VARIABLES asker,     \* "turn", "command" or "tool"
          rerank,    \* recallRerank.enabled
          request,   \* what the tool was asked for
          claws, sessions,   \* the records of the settings' store
          pc, settings,
          found,     \* what each search has answered
          kept,      \* the memories that would be injected
          at,        \* how many of them have been looked at
          lines,     \* the lines so far: [memory, chars]
          chars,     \* totalChars, the breaks between them included
          answer,    \* what the question gets
          trace      \* the memories the trace names

recallVars == <<asker, rerank, request, claws, sessions, pc, settings, found, kept, at, lines, chars,
                answer, trace>>
askedVars == <<asker, rerank, request, claws, sessions>>   \* how the question came
lineVars == <<at, lines, chars>>

Searches == 1..Len(Plan)
Asked == [is |-> "asked", of |-> <<>>]
Failed == [is |-> "failed", of |-> <<>>]
Open == [is |-> "open", of |-> <<>>]
NoTrace == [is |-> "none", of |-> <<>>]
Full(memories) == [is |-> "there", of |-> memories]

\* Who sets the records, and the tool, has resolved the session: all its names and
\* the agent.  The turn gives no peer id, the command no more than the key.
SettersContext == [peerId |-> "agent", ov |-> "ov", session |-> "session", key |-> "key"]
ContextOf(who) ==
    CASE who = "tool" -> SettersContext
      [] who = "turn" -> [SettersContext EXCEPT !.peerId = Absent]
      [] who = "command" -> [peerId |-> Absent, ov |-> Absent, session |-> Absent, key |-> "key"]

RecallInit ==
    /\ asker \in {"turn", "command", "tool"} /\ rerank \in BOOLEAN
    /\ IF asker = "tool" THEN request \in Requests ELSE request = NoRecord
    /\ claws \in {[p \in {SettersContext.peerId} |-> r] : r \in ClawRecords}
    /\ \E r \in SessionRecords :
          LET name == SessionKey(SettersContext)
          IN sessions = [k \in {<<name, SettersContext[name]>>} |-> r]
    /\ pc = "settings" /\ settings = FromStatic(Static)
    /\ found = [i \in Searches |-> Asked]
    /\ kept = <<>> /\ at = 0 /\ lines = <<>> /\ chars = 0 /\ answer = Open /\ trace = NoTrace

ReadSettings ==
    /\ pc = "settings"
    /\ settings' = InForce(Static, claws, sessions, ContextOf(asker), request)
    /\ pc' = IF asker = "tool" THEN "search" ELSE "precheck"
    /\ UNCHANGED <<askedVars, found, kept, lineVars, answer, trace>>

Gives(memories) == answer' = IF answer = Open THEN Full(memories) ELSE answer

\* The server lives, or it says otherwise, or its own timer runs out.
ServerLives ==
    /\ pc = "precheck" /\ pc' = "search"
    /\ UNCHANGED <<askedVars, settings, found, kept, lineVars, answer, trace>>
PrecheckFails ==
    /\ pc = "precheck" /\ pc' = "over" /\ Gives(<<>>)
    /\ UNCHANGED <<askedVars, settings, found, kept, lineVars, trace>>

\* How many a search may answer with, and the score that is asked of them afterwards.
Reranking == rerank /\ asker # "tool"
CandidateLimit == IF Reranking THEN RerankCandidates ELSE settings.candidateLimit
Threshold == IF Reranking THEN 0 ELSE settings.scoreThreshold
Of(type) == {m \in Memories : m.type = type}
Answers(type) == {s \in SeqOf(Of(type), CandidateLimit) : IsInjective(s)}

SearchAnswers(i) ==
    /\ pc = "search" /\ found[i] = Asked
    /\ \E s \in Answers(Plan[i]) : found' = [found EXCEPT ![i] = Full(s)]
    /\ UNCHANGED <<askedVars, pc, settings, kept, lineVars, answer, trace>>
SearchFails(i) ==
    /\ pc = "search" /\ found[i] = Asked
    /\ found' = [found EXCEPT ![i] = Failed]
    /\ UNCHANGED <<askedVars, pc, settings, kept, lineVars, answer, trace>>

\* One search of memories and one of resources, at most.
FoundBy(i) == IF i \in Searches THEN found[i].of ELSE <<>>
AllFound == FoundBy(1) \o FoundBy(2)
Processed == PostProcessed(Candidates(AllFound), CandidateLimit, Threshold)

\* What is left goes on to the reading; nothing ends the recall, with a trace.
GoesOn(memories) ==
    /\ kept' = memories
    /\ IF memories = <<>> THEN pc' = "over" /\ trace' = Full(<<>>) /\ Gives(<<>>)
                          ELSE pc' = "read" /\ UNCHANGED <<answer, trace>>

PicksByRule ==
    /\ pc = "search" /\ ~Reranking /\ \A i \in Searches : found[i] # Asked
    /\ GoesOn(Picked(Processed, settings.recallLimit, Threshold))
    /\ UNCHANGED <<askedVars, settings, found, lineVars>>

Shown(uris) == Only(Processed, {i \in DOMAIN Processed : Processed[i].uri \in uris})

\* Mutant: a reranker that cannot be reached leaves the searches' order.
ReranksOrNot ==
    /\ pc = "search" /\ Reranking /\ \A i \in Searches : found[i] # Asked
    /\ \/ \E shown \in SUBSET {m.uri : m \in ToSet(Processed)} :
             /\ shown # {}
             /\ \E relevance \in [shown -> Relevances] :
                   GoesOn(Reranked(Shown(shown), relevance, RerankKeep, Floor))
       \/ GoesOn(FirstOf(Processed, RerankKeep))
    /\ UNCHANGED <<askedVars, settings, found, lineVars>>

\* The reranker scores what it was shown, or some of it, or cannot be reached.
Reranks ==
    /\ pc = "search" /\ Reranking /\ \A i \in Searches : found[i] # Asked
    /\ \/ \E shown \in SUBSET {m.uri : m \in ToSet(Processed)} :
             /\ shown # {}
             /\ \E relevance \in [shown -> Relevances] :
                   GoesOn(Reranked(Shown(shown), relevance, RerankKeep, Floor))
       \/ GoesOn(<<>>)
    /\ UNCHANGED <<askedVars, settings, found, lineVars>>

(***************************************************************************)
(* The contents: the abstract when that is preferred, a leaf's full text   *)
(* when it can be read, else the abstract or the address.  A memory that   *)
(* does not fit beside the lines there are is skipped whole; the reading   *)
(* stops when the room is used up.                                         *)
(***************************************************************************)
Read(m) == {m.short} \cup IF m.level = "leaf" /\ ~(PreferAbstract /\ asker # "tool" /\ m.text # NoText)
                          THEN {m.full} ELSE {}

\* Mutant: the breaks between the lines are not counted.
WithForgettingBreaks(length) == chars + length

\* projectedChars: a line more, and the break before it.
With(length) == chars + length + (IF lines = <<>> THEN 0 ELSE 1)

Reads ==
    /\ pc = "read" /\ at < Len(kept) /\ chars < Budget
    /\ at' = at + 1
    /\ \E length \in Read(kept[at']) :
          IF With(length) > Budget THEN UNCHANGED <<lines, chars>>
          ELSE /\ lines' = Append(lines, [memory |-> kept[at'], chars |-> length])
               /\ chars' = With(length)
    /\ UNCHANGED <<askedVars, pc, settings, found, kept, answer, trace>>

\* The memories of the lines.
Said == [i \in 1..Len(lines) |-> lines[i].memory]

Injects ==
    /\ pc = "read" /\ (at = Len(kept) \/ chars >= Budget)
    /\ pc' = "over"
    /\ trace' = Full(FirstOf(kept, Len(lines)))
    /\ Gives(Said)
    /\ UNCHANGED <<askedVars, settings, found, kept, lineVars>>

\* Mutant: the timer runs over the searches alone.
TimesOutInSearch ==
    /\ asker # "tool" /\ answer = Open /\ pc = "search"
    /\ answer' = Full(<<>>)
    /\ UNCHANGED <<askedVars, pc, settings, found, kept, lineVars, trace>>

\* The timer over the recall: the question goes on, the work too, to its trace.
TimesOut ==
    /\ asker # "tool" /\ answer = Open /\ pc \in {"search", "read"}
    /\ answer' = Full(<<>>)
    /\ UNCHANGED <<askedVars, pc, settings, found, kept, lineVars, trace>>

RecallNext ==
    \/ ReadSettings \/ ServerLives \/ PrecheckFails \/ PicksByRule \/ Reranks
    \/ Reads \/ Injects \/ TimesOut
    \/ \E i \in Searches : SearchAnswers(i) \/ SearchFails(i)

RecallSpec == RecallInit /\ [][RecallNext]_recallVars

\* The store's files are local; nothing of the server's or the reranker's is sure
\* to come, only the timers: the check's own and the one over the rest.
RecallFairness ==
    /\ WF_recallVars(ReadSettings) /\ WF_recallVars(ServerLives \/ PrecheckFails)
    /\ WF_recallVars(TimesOut)
-----------------------------------------------------------------------------
(* What each field is in force is what the highest record that sets it     *)
(* says, however the layers are ordered on the way (getEffective).         *)
SettingsAreTheHighest ==
    pc # "settings" =>
        \A f \in Fields :
            settings[f] = Reference(Static, <<ClawRecord(claws, ContextOf(asker)),
                                             SessionRecord(sessions, ContextOf(asker)),
                                             Normalised(request)>>)[f]

(* The memories before a question fit the room they are given: there are  *)
(* totals of the lines one by one, with a break before each but the first, *)
(* that never go over it.  Each memory stands whole and once, in the order *)
(* of its rank, and what is injected is all of them or nothing             *)
(* (buildMemoryLinesWithBudget).                                           *)
Injected == answer.of
FitTheRoom ==
    \E total \in [0..Len(lines) -> 0..Budget] :
        /\ total[0] = 0
        /\ \A i \in 1..Len(lines) :
              total[i] = total[i - 1] + lines[i].chars + (IF i = 1 THEN 0 ELSE 1)
StandInOrder ==
    \E place \in [1..Len(lines) -> 1..at] :
        /\ \A i \in 1..Len(lines) : /\ lines[i].memory = kept[place[i]]
                                     /\ lines[i].chars \in Read(lines[i].memory)
        /\ \A i, j \in 1..Len(lines) : i < j => place[i] < place[j]
BlockFits == FitTheRoom /\ StandInOrder /\ Injected \in {<<>>, Said}

(* What is injected was found by a search that answered, says nothing      *)
(* twice, is no folder's description, passes the threshold in force, or    *)
(* was scored by the reranker, which found something over its floor: when  *)
(* it cannot be reached nothing is injected (buildAutoRecallContext,       *)
(* rerankMemories, pickMemoriesForInjection).                              *)
InjectedIsEarned ==
    /\ \A i \in 1..Len(Injected) :
          /\ Injected[i].level # "folder"
          /\ \E k \in Searches : \E m \in ToSet(found[k].of) : m.uri = Injected[i].uri
    /\ IF Reranking
       THEN /\ Len(Injected) <= RerankKeep
            /\ Injected # <<>> => \E i \in 1..Len(kept) : kept[i].score >= Floor
       ELSE /\ Len(Injected) <= settings.recallLimit /\ Distinct(Injected)
            /\ \A i \in 1..Len(Injected) : Injected[i].score >= settings.scoreThreshold

(* A question always goes on, with or without memories, though no search,  *)
(* no read and no reranker ever answers (withTimeout).                     *)
RecallIsAnswered == asker # "tool" ~> answer # Open
=============================================================================
