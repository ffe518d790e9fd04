----------------------------- MODULE MemoryTools -----------------------------
(***************************************************************************)
(* The agent's tools that keep and forget a memory: memory_store and       *)
(* memory_forget (src/plugin/openviking-memory-tools.ts), with the wait    *)
(* for a commit's extraction (src/client.ts, commitSession).  A request is *)
(* an abstract call (RemoteCall): a write nobody waits for any more may    *)
(* still be done.                                                          *)
(***************************************************************************)
EXTENDS MemoryRanking, SequencesExt

CONSTANTS Items,              \* what a search may find, as in MemoryRanking, with [memory]:
                              \* whether its uri tells that it is one
          Threshold, Strong,  \* the scores of a candidate, and of one forgotten at once
          MaxUses,            \* bound on the calls of the tools
          MaxArchives         \* bound on the archives of all sessions

\* Assumed where this module is instantiated.
MemoryToolsAssumption ==
    /\ MaxUses \in Nat /\ MaxArchives \in Nat /\ Strong \in Int
    /\ IsFiniteSet(Items) /\ \A m \in Items : m.score \in Int

\* Assumed of one theorem: twins are memories or not together, since the copies are taken
\* out before what is no memory.
TwinsAreAlike == \A m, n \in Items : TwinKey(m) = TwinKey(n) => (m.memory <=> n.memory)

VARIABLES live,      \* session -> the texts not yet archived
          archives,  \* [of, texts, task, extracted], in order
          memories,  \* the items that stand
          keeper,    \* the running call
          keeperPc,
          write,     \* its write, with what became of it
          lateWrites, \* writes nobody waits for, still to be done or lost
          word,      \* what the agent is told, with the count of memories
          uses

keeperVars == <<live, archives, memories, keeper, keeperPc, write, lateWrites, word, uses>>

\* The conversation's session, of which a call may be told, and what is said in it;
\* a call's number names its text and its own session.
Conversation == 0
NoUse == [name |-> "none"]
NoWrite == [does |-> "nothing", became |-> "nothing"]
NoWord == [said |-> "nothing", counted |-> 0]

KeeperInit == /\ live = [s \in 0..MaxUses |-> {}] /\ archives = <<>> /\ memories = Items
              /\ keeper = NoUse /\ keeperPc = "rest" /\ write = NoWrite /\ lateWrites = {}
              /\ word = NoWord /\ uses = 0

Used(t) == /\ keeperPc \in {"rest", "told"} /\ uses < MaxUses
           /\ uses' = uses + 1 /\ keeper' = t
           /\ UNCHANGED <<live, archives, memories, lateWrites>>
\* [body]: "lost" once the body of a refusal of this call was read by nobody.
Submits(r, body) == /\ write' = [asks |-> r, became |-> "open", archive |-> 0, call |-> uses',
                                 body |-> body]
                    /\ keeperPc' = "waits" /\ UNCHANGED word
Says(said, counted) == keeperPc' = "told" /\ word' = [said |-> said, counted |-> counted]
sessionVars == <<live, archives, memories>>
-----------------------------------------------------------------------------
(* memory_store: a message, in a session of its own unless one is named;   *)
(* then a commit that keeps nothing, and the wait for its task.            *)
MemoryStore(s) ==
    /\ Used([name |-> "store", text |-> uses + 1, session |-> s])
    /\ Submits([does |-> "add", session |-> s, text |-> uses + 1], "read")

\* A uri outside the memories is refused; another is deleted as named.
ForgetByUri(m) ==
    /\ Used([name |-> "forget", found |-> {m}, named |-> TRUE])
    /\ IF m.memory THEN Submits([does |-> "delete", item |-> m], "read")
       ELSE Says("rejected", 0) /\ write' = NoWrite

ForgetByQuery(found) ==
    /\ found \subseteq memories
    /\ Used([name |-> "forget", found |-> found, named |-> FALSE])
    /\ keeperPc' = "finds" /\ write' = NoWrite /\ UNCHANGED word

Leaves(s) == Only(s, {i \in DOMAIN s : s[i].level = "leaf"})
ForgetCandidates(order) ==
    LET processed == PostProcessed(Leaves(order), Len(order), Threshold)
    IN Only(processed, {i \in DOMAIN processed : processed[i].memory})

IsTheOne(candidates) == Len(candidates) = 1 /\ candidates[1].score >= Strong

FindAnswers(order) ==
    LET candidates == ForgetCandidates(order) IN
    /\ keeperPc = "finds"
    /\ UNCHANGED <<sessionVars, keeper, lateWrites, uses>>
    /\ IF candidates = <<>> THEN Says("none", 0) /\ UNCHANGED write
       ELSE IF IsTheOne(candidates)
            THEN Submits([does |-> "delete", item |-> candidates[1]], "read")
       ELSE Says("candidates", Len(candidates)) /\ UNCHANGED write

FindFails == /\ keeperPc = "finds" /\ Says("error", 0)
             /\ UNCHANGED <<sessionVars, keeper, write, lateWrites, uses>>
-----------------------------------------------------------------------------
(* The server at a write; a commit with nothing to archive makes no task.  *)
Archived(s) == [of |-> s, texts |-> live[s], task |-> "running", extracted |-> {}]

VerdictOn(w) == CASE w.does = "delete" -> IF w.item \in memories THEN "done" ELSE "denied"
                  [] w.does = "commit" -> IF live[w.session] = {} THEN "skipped" ELSE "done"
                  [] OTHER -> "done"

EffectOf(w) == CASE w.does = "add" -> /\ live' = [live EXCEPT ![w.session] = @ \cup {w.text}]
                                      /\ UNCHANGED <<archives, memories>>
                 [] w.does = "commit" -> /\ Len(archives) < MaxArchives
                                         /\ archives' = Append(archives, Archived(w.session))
                                         /\ live' = [live EXCEPT ![w.session] = {}]
                                         /\ UNCHANGED memories
                 [] OTHER -> memories' = memories \ {w.item} /\ UNCHANGED <<live, archives>>

ServesWrite == /\ keeperPc = "waits" /\ write.became = "open"
               /\ \E verdict \in {VerdictOn(write.asks), "denied"} :
                     /\ IF verdict = "done" THEN EffectOf(write.asks) ELSE UNCHANGED sessionVars
                     /\ write' = [write EXCEPT !.became = verdict, !.archive = Len(archives')]
               /\ UNCHANGED <<keeper, keeperPc, lateWrites, word, uses>>

ServesLateWrite(r) == /\ r \in lateWrites /\ lateWrites' = lateWrites \ {r}
                      /\ \/ UNCHANGED sessionVars
                         \/ VerdictOn(r.asks) = "done" /\ EffectOf(r.asks)
                      /\ UNCHANGED <<keeper, keeperPc, write, word, uses>>

\* The extraction of an archive: what it makes of its texts, or nothing.
TaskEnds(i) ==
    /\ archives[i].task = "running"
    /\ \/ \E made \in SUBSET archives[i].texts :
             archives' = [archives EXCEPT ![i] =
                             [@ EXCEPT !.task = "completed", !.extracted = made]]
       \/ archives' = [archives EXCEPT ![i] = [@ EXCEPT !.task = "failed"]]
    /\ UNCHANGED <<live, memories, keeper, keeperPc, write, lateWrites, word, uses>>

\* The conversation goes on beside the tools, and its own pour-off may take what
\* they wrote to it.
ConversationSays == /\ live' = [live EXCEPT ![Conversation] = @ \cup {Conversation}]
                    /\ UNCHANGED <<archives, memories>>
                    /\ UNCHANGED <<keeper, keeperPc, write, lateWrites, word, uses>>

ConversationPours == /\ live[Conversation] # {}
                     /\ EffectOf([does |-> "commit", session |-> Conversation])
                     /\ UNCHANGED <<keeper, keeperPc, write, lateWrites, word, uses>>
-----------------------------------------------------------------------------
WriteHeard ==
    /\ keeperPc = "waits" /\ write.became # "open"
    /\ UNCHANGED <<sessionVars, keeper, lateWrites, uses>>
    /\ IF write.became = "denied" THEN Says("error", 0) /\ UNCHANGED write
       ELSE CASE write.asks.does = "add" ->
                    Submits([does |-> "commit", session |-> write.asks.session], write.body)
              [] write.asks.does = "commit" /\ write.became = "done" ->
                    keeperPc' = "polls" /\ UNCHANGED <<write, word>>
              [] write.asks.does = "commit" /\ write.became = "skipped" ->
                    Says("stored", 0) /\ UNCHANGED write
              [] OTHER -> Says("forgotten", 0) /\ UNCHANGED write

\* The answer's body breaks off: a refusal that stood in it is lost and the call goes on
\* as if it were done; a commit names no task and is told at once.
WriteHeardBlank ==
    LET body == IF write.became = "denied" THEN "lost" ELSE write.body IN
    /\ keeperPc = "waits" /\ write.became # "open"
    /\ UNCHANGED <<sessionVars, keeper, lateWrites, uses>>
    /\ IF write.asks.does = "add"
       THEN Submits([does |-> "commit", session |-> write.asks.session], body)
       ELSE /\ write' = IF write.became = "denied" THEN [write EXCEPT !.body = "lost"] ELSE write
            /\ Says(IF write.asks.does = "commit" THEN "stored" ELSE "forgotten", 0)

\* No answer, for whatever reason: an error to the agent.
WriteUnheard == /\ keeperPc = "waits" /\ Says("error", 0)
                /\ lateWrites' = IF write.became = "open" THEN lateWrites \cup {write}
                                 ELSE lateWrites
                /\ UNCHANGED <<sessionVars, keeper, write, uses>>

PollEnds == LET archive == archives[write.archive] IN
            /\ keeperPc = "polls" /\ archive.task # "running"
            /\ IF archive.task = "failed" THEN Says("failed", 0)
               ELSE Says("stored", Cardinality(archive.extracted))
            /\ UNCHANGED <<sessionVars, keeper, write, lateWrites, uses>>

\* The first read of the task that fails ends the wait, and so does its limit.
PollGivesUp == /\ keeperPc = "polls" /\ Says("timeout", 0)
               /\ UNCHANGED <<sessionVars, keeper, write, lateWrites, uses>>

KeeperNext == \/ MemoryStore(Conversation) \/ MemoryStore(uses + 1)
              \/ \E m \in Items : ForgetByUri(m)
              \/ \E found \in SUBSET Items : ForgetByQuery(found)
              \/ keeperPc = "finds" /\ \E order \in SetToSeqs(keeper.found) : FindAnswers(order)
              \/ FindFails
              \/ ServesWrite \/ \E r \in lateWrites : ServesLateWrite(r)
              \/ \E i \in DOMAIN archives : TaskEnds(i)
              \/ ConversationSays \/ ConversationPours
              \/ WriteHeard \/ WriteHeardBlank \/ WriteUnheard \/ PollEnds \/ PollGivesUp

KeeperSpec == KeeperInit /\ [][KeeperNext]_keeperVars
-----------------------------------------------------------------------------
Said(said) == keeperPc = "told" /\ word.said = said
Holding(text) == {i \in DOMAIN archives : text \in archives[i].texts}

(* What the tools say is true of the server, now and whatever lands later: *)
(* "stored" of a text that is archived, with memories of one extracted if  *)
(* its session is its own (another's commit may have taken it from the     *)
(* conversation's); "failed" of a text nothing will come of; "forgotten"   *)
(* of a memory gone; save in a call one of whose refusals was lost with    *)
(* its body (src/plugin/openviking-memory-tools.ts:128-186).               *)
SaidKnowing(said) == Said(said) /\ write.body = "read"

KeeperTellsTrue ==
    /\ SaidKnowing("stored") =>
          /\ Holding(keeper.text) # {}
          /\ word.counted > 0 /\ keeper.session # Conversation =>
                \E i \in Holding(keeper.text) : keeper.text \in archives[i].extracted
    /\ SaidKnowing("failed") /\ keeper.session # Conversation =>
          /\ \A i \in Holding(keeper.text) : archives[i].task = "failed"
          /\ keeper.text \notin live[keeper.session]
    /\ SaidKnowing("forgotten") => write.asks.item \notin memories

(* A search forgets a memory only when nothing else it found is a          *)
(* candidate, a twin of it apart, and never what is no memory              *)
(* (src/plugin/openviking-memory-tools.ts:267-290).                        *)
ForgetsTheOneMeant ==
    (keeper.name = "forget" /\ write # NoWrite) =>
       /\ write.asks.item.memory /\ write.asks.item \in keeper.found
       /\ ~keeper.named =>
             /\ write.asks.item.score >= Strong
             /\ \A m \in keeper.found :
                   m.memory /\ m.level = "leaf" /\ m.score >= Threshold =>
                      TwinKey(m) = TwinKey(write.asks.item)
=============================================================================
