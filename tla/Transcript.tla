----------------------------- MODULE Transcript -----------------------------
(***************************************************************************)
(* What a conversation is on its way to the server and back: what is       *)
(* recorded of the host's transcript (text-utils.ts, extractNewTurnMessages *)
(* and coalesceConsecutiveToolMessages), what the window makes of what is  *)
(* stored (context-message-adapter.ts) and how it is repaired for the      *)
(* model (session-transcript-repair.ts).  Without a fresh summary the      *)
(* host's own transcript is repaired and sent.  Before the price handle is *)
(* asked, the ids of calls are made distinct (tool-call-id.ts).            *)
(*                                                                         *)
(* A message of a window is an assistant's with the ids of its calls, a    *)
(* tool's result, or a user's; `said` holds the places it was made from.   *)
(* The code's loops over messages are folds.                               *)
(***************************************************************************)
EXTENDS Integers, Sequences, FiniteSets

CONSTANTS
    Ids,           \* raw ids of tool calls
    Strict,        \* what is left of an id when only letters and digits stay
    Texts,         \* an assistant's text: "none", "text", or "tag", nothing but a directive
    Calls,         \* the calls an assistant's message may make
    Errored,       \* whether an assistant's message may be cut short
    MaxHeard       \* bound: messages in a behaviour

ASSUME TranscriptConstants ==
    /\ Ids \subseteq STRING
    /\ Strict \in [Ids -> Seq(STRING)]
    /\ Texts \subseteq {"none", "text", "tag"}
    /\ Calls \subseteq Seq(Ids)
    /\ Errored \subseteq BOOLEAN
    /\ MaxHeard \in Nat

VARIABLES
    kind,      \* which window is sent: the "server"'s, or the host's "live" one
    messages   \* the host's transcript, oldest first

transcriptVars == <<kind, messages>>

\* A loop over s that starts with `first`.
Folded(Step(_, _), first, s) ==
    LET acc[n \in 0 .. Len(s)] == IF n = 0 THEN first ELSE Step(acc[n - 1], s[n])
    IN  acc[Len(s)]

Gathered(Piece(_), s) ==
    LET Step(acc, x) == acc \o Piece(x)
    IN  Folded(Step, <<>>, s)

User(places) ==
    [role |-> "user", text |-> "text", calls |-> <<>>, errored |-> FALSE, of |-> "", said |-> places]
Assistant(text, calls, errored, places) ==
    [role |-> "assistant", text |-> text, calls |-> calls, errored |-> errored, of |-> "", said |-> places]
Result(id, text, places) ==
    [role |-> "toolResult", text |-> text, calls |-> <<>>, errored |-> FALSE, of |-> id, said |-> places]

Has(id, s) == \E i \in DOMAIN s : s[i] = id

---------------------------------------------------------------------------
(* To the server: extractNewTurnMessages, coalesceConsecutiveToolMessages *)

\* A message as recorded: whether it has a text part, and the calls of its tool parts.
Recorded(role, text, tools) == [role |-> role, text |-> text, tools |-> tools]

\* What is recorded of one message: a result that has an output carries its call; a
\* call without a text is a boundary; a text that is cleaned away leaves nothing.
Extracted(m) ==
    IF m.role = "toolResult"
    THEN IF m.text = "none" THEN <<>> ELSE <<Recorded("assistant", FALSE, <<m.of>>)>>
    ELSE IF m.role = "assistant" /\ m.text = "none" /\ m.calls # <<>>
         THEN <<Recorded("assistant", FALSE, <<>>)>>
    ELSE IF m.text = "text" THEN <<Recorded(m.role, TRUE, <<>>)>>
    ELSE <<>>

IsBoundary(m) == ~m.text /\ m.tools = <<>>
IsToolOnly(m) == ~m.text /\ m.tools # <<>>

\* Mutant: a boundary is not looked at.
CoalesceOverBoundaries(acc, m) ==
    IF IsToolOnly(m) /\ acc.round
    THEN [acc EXCEPT !.out[Len(acc.out)].tools = @ \o m.tools]
    ELSE IF IsBoundary(m) THEN acc
    ELSE [out |-> Append(acc.out, m), round |-> IsToolOnly(m)]

\* A round of results is one message; a boundary ends the round and is dropped.
Coalesce(acc, m) ==
    IF IsToolOnly(m) /\ acc.round
    THEN [acc EXCEPT !.out[Len(acc.out)].tools = @ \o m.tools]
    ELSE [out |-> IF IsBoundary(m) THEN acc.out ELSE Append(acc.out, m), round |-> IsToolOnly(m)]

Coalesced(extracted) == Folded(Coalesce, [out |-> <<>>, round |-> FALSE], extracted).out

Stored(transcript) == Coalesced(Gathered(Extracted, transcript))

---------------------------------------------------------------------------
(* From the server's messages: convertToAgentMessages, mergeConsecutiveAssistants *)

\* A tool's part makes a call and its result.
Converted(m, place) ==
    LET results == [i \in DOMAIN m.tools |-> Result(m.tools[i], "text", <<place>>)]
    IN  IF m.role = "assistant"
        THEN <<Assistant("text", m.tools, FALSE, <<place>>)>> \o results
        ELSE (IF IsToolOnly(m) THEN <<>> ELSE <<User(<<place>>)>>)
                 \o (IF m.tools = <<>> THEN <<>>
                     ELSE <<Assistant("none", m.tools, FALSE, <<>>)>> \o results)

Convert(out, m) == out \o Converted(m, Len(out) + 1)

\* Consecutive messages of one role as one.
Merge(role, out, m) ==
    IF out # <<>> /\ m.role = role /\ out[Len(out)].role = role
    THEN [out EXCEPT ![Len(out)].calls = @ \o m.calls, ![Len(out)].said = @ \o m.said]
    ELSE Append(out, m)

Merged(window, role) ==
    LET Step(out, m) == Merge(role, out, m)
    IN  Folded(Step, <<>>, window)

\* buildSessionContext.
SessionContext(stored) == Merged(Folded(Convert, <<>>, stored), "assistant")

---------------------------------------------------------------------------
(* repairToolUseResultPairing *)

\* What follows the assistant's message at i before the next assistant's.
Span(window, i) ==
    {j \in i + 1 .. Len(window) : \A k \in i + 1 .. j : window[k].role # "assistant"}

ResultsOf(id, window, i) ==
    {j \in Span(window, i) : window[j].role = "toolResult" /\ window[j].of = id}

\* makeMissingToolResult: said nowhere.
Missing(id) == Result(id, "text", <<>>)

\* The first result of that id in the span, or one made up.
Answer(window, i, id) ==
    LET found == ResultsOf(id, window, i)
    IN  IF found = {} THEN Missing(id)
        ELSE window[CHOOSE j \in found : \A k \in found : j <= k]

\* Mutant: an id is answered as often as it is called.
PushAgain(window, i, acc, id) ==
    [out |-> Append(acc.out, Answer(window, i, id)), seen |-> acc.seen \cup {id}]

\* pushToolResult: an id is answered once.
Push(window, i, acc, id) ==
    IF id \in acc.seen THEN acc
    ELSE [out |-> Append(acc.out, Answer(window, i, id)), seen |-> acc.seen \cup {id}]

PushAll(window, i, acc, calls) ==
    LET Step(before, id) == Push(window, i, before, id)
    IN  Folded(Step, acc, calls)

\* An assistant's message is followed by the answers to its calls, unless it was cut
\* short; what else its span holds comes after them; every other result is dropped.
Repair(window, acc, i) ==
    LET m == window[i]
        pushed == [acc EXCEPT !.out = Append(@, m)]
    IN  IF m.role = "toolResult" THEN acc
        ELSE IF m.role = "user" \/ m.errored THEN pushed
        ELSE PushAll(window, i, pushed, m.calls)

Repaired(window) ==
    LET Step(acc, i) == Repair(window, acc, i)
    IN  Folded(Step, [out |-> <<>>, seen |-> {}], [i \in 1 .. Len(window) |-> i]).out

\* ensureAlternation: a user's placeholder between two assistants' messages.
Alternate(out, m) ==
    IF out # <<>> /\ m.role = "assistant" /\ out[Len(out)].role = "assistant"
    THEN out \o <<User(<<>>), m>>
    ELSE Append(out, m)

Alternated(window) == Folded(Alternate, <<>>, window)

\* Mutant: the users' messages are merged before the results between them are dropped.
SanitizedMergedFirst(window) == Alternated(Repaired(Merged(window, "user")))

\* sanitizeAgentMessagesForProvider.
Sanitized(window) == Alternated(Merged(Repaired(window), "user"))

---------------------------------------------------------------------------
(* sanitizeToolCallIdsForCloudCodeAssist, strict.  An id is what it is put *)
(* together from; a number is a tally; a hash stands for what it is of.    *)

Tally(n) == [k \in 1 .. n |-> "1"]

\* makeUniqueToolId, of a raw id and what was appended to it: the seed itself, with its
\* hash, or with a number.
Unique(id, suffix, used) ==
    LET base == Strict[id] \o suffix
        hashed == base \o <<"hash", id>> \o suffix
        Numbered(i) == hashed \o <<"x">> \o Tally(i)
    IN  IF base \notin used THEN base
        ELSE IF hashed \notin used THEN hashed
        ELSE Numbered(CHOOSE i \in 2 .. Cardinality(used) + 2 :
                        /\ Numbered(i) \notin used
                        /\ \A j \in 2 .. i - 1 : Numbered(j) \in used)

Nothing == [used |-> {}, calls |-> [id \in Ids |-> 0], orphans |-> [id \in Ids |-> 0],
            pending |-> [id \in Ids |-> <<>>], ids |-> <<>>, out |-> <<>>]

\* Mutant: one id for all the occurrences of a raw one.
CallIdByName(acc, id) ==
    LET new == Strict[id]
    IN  [acc EXCEPT !.used = @ \cup {new}, !.pending[id] = Append(@, new), !.ids = Append(@, new)]

\* resolveAssistantId.
CallId(acc, id) ==
    LET n == acc.calls[id] + 1
        new == Unique(id, IF n = 1 THEN <<>> ELSE Tally(n), acc.used)
    IN  [acc EXCEPT !.calls[id] = n, !.used = @ \cup {new},
                    !.pending[id] = Append(@, new), !.ids = Append(@, new)]

\* resolveToolResultId: the oldest call of that id still waiting.
ResultId(acc, id) ==
    LET n == acc.orphans[id] + 1
        new == Unique(id, <<"toolresult">> \o Tally(n), acc.used)
    IN  IF acc.pending[id] # <<>>
        THEN [acc EXCEPT !.pending[id] = Tail(@), !.ids = Append(@, Head(acc.pending[id]))]
        ELSE [acc EXCEPT !.orphans[id] = n, !.used = @ \cup {new}, !.ids = Append(@, new)]

\* The new ids of one message: of its calls, or of its result.
Renamed(acc, m) ==
    LET fresh == [acc EXCEPT !.ids = <<>>]
        after == IF m.role = "toolResult" THEN ResultId(fresh, m.of)
                 ELSE Folded(CallId, fresh, m.calls)
    IN  [after EXCEPT !.out = Append(@, after.ids)]

DistinctIds(window) == Folded(Renamed, Nothing, window).out

---------------------------------------------------------------------------

\* The host's transcript: results late, twice, empty, or of no call; turns cut short.
Heard(m) == messages' = Append(messages, m)

TranscriptInit ==
    /\ kind \in {"server", "live"}
    /\ messages = <<>>

TranscriptNext ==
    /\ Len(messages) < MaxHeard
    /\ LET here == <<Len(messages) + 1>>
       IN  \/ Heard(User(here))
           \/ \E text \in Texts, calls \in Calls, errored \in Errored :
                 /\ text # "none" \/ calls # <<>>
                 /\ Heard(Assistant(text, calls, errored, here))
           \/ \E id \in Ids, text \in {"none", "text"} : Heard(Result(id, text, here))
    /\ UNCHANGED kind

TranscriptSpec == TranscriptInit /\ [][TranscriptNext]_transcriptVars

---------------------------------------------------------------------------

Window == IF kind = "server" THEN SessionContext(Stored(messages)) ELSE messages
Sent == Sanitized(Window)

IsResult(m) == m.role = "toolResult"

\* What users and assistants said, in order.
Said(window) ==
    LET Places(m) == IF IsResult(m) THEN <<>> ELSE m.said
    IN  Gathered(Places, window)

\* Every result sent stands directly after the assistant's message that made the call,
\* one to an id; the first finished message to make a call has its result, and one is
\* made up only when none stood between it and the next assistant's message.
ResultsStandWithTheirCalls ==
    LET sent == Sent
        From(i, id) == \E j \in 1 .. i - 1 :
            /\ sent[j].role = "assistant" /\ ~sent[j].errored /\ Has(id, sent[j].calls)
            /\ \A k \in j + 1 .. i : IsResult(sent[k])
        First(i, id) ==
            /\ ~Window[i].errored /\ Has(id, Window[i].calls)
            /\ \A j \in 1 .. i - 1 : Window[j].errored \/ ~Has(id, Window[j].calls)
    IN  /\ \A i \in DOMAIN sent : IsResult(sent[i]) => From(i, sent[i].of)
        /\ \A i, j \in DOMAIN sent :
              IsResult(sent[i]) /\ IsResult(sent[j]) /\ sent[i].of = sent[j].of => i = j
        /\ \A i \in DOMAIN Window, id \in Ids :
              First(i, id) => \E j \in DOMAIN sent :
                  /\ IsResult(sent[j]) /\ sent[j].of = id
                  /\ ResultsOf(id, Window, i) # {} => sent[j].said # <<>>

\* No two users' messages and no two assistants' stand side by side, and everything
\* either of them said is sent, in its order: "the alternation contract that Gemini /
\* Anthropic require" (context-message-adapter.ts).
SaidInTurns ==
    LET sent == Sent
    IN  /\ \A i \in 1 .. Len(sent) - 1 :
              sent[i].role = sent[i + 1].role => IsResult(sent[i])
        /\ Said(sent) = Said(Window)

\* Asked for a price, the window names no two calls alike, and each result by the name of
\* its own call: "the proxy's gate refuses a body that repeats one" (price-handle.ts).
PricedIdsTellCallsApart ==
    LET window == SessionContext(Stored(messages))
        ids == DistinctIds(window)
        calls == UNION {{i} \X DOMAIN window[i].calls : i \in DOMAIN window}
    IN  kind = "server" =>
            \A a, b \in calls :
                /\ ids[a[1]][a[2]] = ids[b[1]][b[2]] => a = b
                /\ ids[a[1] + a[2]] = <<ids[a[1]][a[2]]>>

\* The hook brings a turn in parts, cut before each of the model's messages, the queue
\* brings it whole: both record the same messages, "so the results of two rounds are
\* not glued into one" (text-utils.ts).  TurnRecording compares messages by this.
BothPathsRecordTheSame ==
    \A cut \in 2 .. Len(messages) :
        messages[cut].role = "assistant" =>
            Stored(messages) = Stored(SubSeq(messages, 1, cut - 1))
                                   \o Stored(SubSeq(messages, cut, Len(messages)))

\* What the pairing is for: "Anthropic (and Cloud Code Assist) reject transcripts where
\* assistant tool calls are not immediately followed by matching tool results"
\* (session-transcript-repair.ts).
CallsAreAnswered ==
    LET sent == Sent
    IN  \A i \in DOMAIN sent :
            sent[i].role = "assistant" /\ ~sent[i].errored =>
                \A k \in DOMAIN sent[i].calls : \E j \in i + 1 .. Len(sent) :
                    /\ sent[j].of = sent[i].calls[k]
                    /\ \A n \in i + 1 .. j : IsResult(sent[n])
===========================================================================
