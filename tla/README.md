# TLA+ for the OpenViking plugin of OpenClaw

The plugin keeps a chat's memory on an OpenViking server: it records the turns, hands the
model a window made of live messages and summaries, pours old messages off into archives
when the window grows heavy, puts remembered things before a question, and files what the
agent wants to keep. This directory holds its specifications, their instances for TLC, and
proofs for TLAPS. The code is in `src/` (paths below are relative to it); the specifications
follow the code, not its comments. Where a comment or a help text says something the code
does not do, a run shows it (see *Findings*).

## The system

| part | state it keeps | operations | talks to |
|---|---|---|---|
| **Context lifecycle** `services/context-lifecycle-service.ts` | `pourDue` (a pour-off put off, by session), `summaryHoldGivenUp` (sessions whose hold ran out) | `assemble` at the start of a turn, `afterTurn` before each call of the model, `compact`, the commit before a reset, the window without a fresh summary | client, price handle, host's compaction display |
| **Kept tail** `tail-by-weight.ts`, `chooseKeptTail` | one search at a time | where the kept tail starts | price handle |
| **Context engine** `context-engine.ts` | `claimedTurns`: keys of the turns taken for recording, 64 a session | `afterTurn`, `commitTurn` of the host's durable queue | lifecycle |
| **Transcript** `text-utils.ts`, `context-message-adapter.ts`, `session-transcript-repair.ts`, `tool-call-id.ts` | none | what is recorded of a turn, what the window makes of it, every result after its call, distinct ids | lifecycle |
| **Price handle** `price-handle.ts` | none | weighs a list of messages, or gives no weight | the proxy's counter |
| **HTTP client** `client.ts` | none | requests with a limit, one repeat for reads, waiting for a task | server |
| **Accounts** `agent-keys.ts`, `plugin/openviking-client-runtime.ts` | none that decides: a client is an address and a key | resolve a key, build a client | client |
| **Session routing** `routing/identity-routing.ts`, `plugin/openviking-session-routing-runtime.ts` | agent by session alias | remember, resolve | lifecycle, tools, hooks |
| **Runtime query configuration** `query-config.ts` | records by claw and session, the file's time, a queue of writes | load, reload, set, unset, reset, the settings in force | the file |
| **Resource routing** `routing/` | routers being built, one preload, a cache file | preload, route, validate a category | embedding and reranking services |
| **Import and removal** `plugin/openviking-import-tools.ts` | none | add a resource or skill, remove a resource | routing, client |
| **Memory tools** `plugin/openviking-memory-tools.ts` | none | recall, store, forget | client |
| **Recall** `auto-recall.ts`, `memory-ranking.ts`, `recall-rerank.ts`, `recall-cli.ts` | none | search, rank, inject within a budget and a time | client, settings |
| **Recall traces** `recall-trace.ts` | a bounded list, a file a day | append, find | recall |
| **Feature gates, tool results, archive tools** `plugin/` | what is registered | register; single reads | host, client |
| **Setup** `commands/setup.ts`, `services/setup/`, **configuration** `config.ts` | the host's configuration file | probe, ask, write; parse | server, file |
| **The server** (another program) | messages, archives, summaries and tasks of a session; memories; the tree of resources | record, commit, context, task, find, import, remove | |
| **The host** (another program) | the transcript, a durable queue of closed turns, the compaction it shows | calls the plugin | |

What is hard in it:

- *Awaits.* The lifecycle reads the session, asks the price handle for seconds, and then
  archives a *number* of newest messages; everything read may be old by then. The settings'
  file is read, and its time looked at, in two steps, with writes of a command between them.
- *A second writer.* The archive's summary is written by the server in the background. Until
  it stands, the archive's messages still come with the context. Memories are extracted by a
  task the tool can only ask after. People edit the taxonomy and the settings by hand.
- *Two paths for one turn.* The hook records a turn piece by piece before the model's calls;
  the durable queue brings the closed turn whole, again when its answer was not heard.
- *Silence.* The price handle may give no weight: the pour-off is then put off to the start of
  the next turn, which is held until it is made, with a limit. A write whose answer is lost
  was done, was not, or is done later.
- *Names.* A session is known by three names, and a context carries only some of them; the
  agent it belongs to decides whose account on the server its calls go to.
- *Memory that goes.* Marks, claims, aliases and routers live in the process; the queue, the
  server and the files do not.

## Modules

| module | what it models |
|---|---|
| `VikingServer` | the session on the server (external): `log` is every message, `ends[i]` how many of them archives `1..i` hold, `verdicts` how the summaries ended, in order |
| `PourOff` | the life of the window: turn lane (assemble and hook), command lane (compactions and reset), queue, server and restarts |
| `TailByWeight` | the vocabulary: where a turn starts, which starts are eligible under the floor, the cap, and the definition of the right tail (`LongestWithin`) |
| `TailSearch` | one search, question by question: the whole list for the cap, the halving of `longestTailWithin`, the answer's own weight; the handle may fall silent at each |
| `Transcript` | what is recorded of a transcript, the window made of what is stored, the repair of calls and results, alternation of roles, ids made distinct |
| `Recovery` | the window without a fresh summary: which archive is asked for, where it ends in the transcript as moments tell it, what is dropped for weight |
| `TurnRecording` | hook, durable queue, claims and the prefix that is skipped |
| `RemoteCall` | the *abstract* call to the server: what a caller may rely on |
| `ClientRequest` | the client's `request`: timer, dropped connections, the one repeat of reads, a body read after the headers; a refusal may stand in the status or only in the body; shown to implement `RemoteCall` |
| `PriceHandle` | one price: question, timer, a body in pieces, pauses and repeats, in ticks |
| `ResourceRouter` | what a taxonomy compiles to, selectors, candidates and the automatic choice (operators) |
| `RoutingService` | one router for all who ask, its vectors' file written beside and renamed, services that fail, a gateway that stops |
| `ResourceTools` | `add_resource`, `add_skill`, `remove_resource`, with packing and upload |
| `MemoryTools` | `memory_store` with its commit and the wait for the task, `memory_forget` |
| `AgentTools` | the agent's tools together: what is said of the two before |
| `MemoryRanking`, `QueryLayers` | ranking, reranking and candidates; the layers of settings of one question (operators) |
| `Recall` | one question's recall: by a turn, by the command, by the tool |
| `QueryConfigStore` | records in memory, their file, the queue of writes, reloads, refused writes, stops, edits by hand |
| `RecallTrace` | the bounded memory, a file a day, appends in the background, retention, queries |
| `AgentRouting` | aliases, agents, engines with what they teach the resolver, hooks, accounts |
| `MCTailSearch`, `MCWindow`, `MCPourOff`, `MCPourCommands`, `MCRecording`, `MCRecall`, `MCServices`, `MCAgentRouting` | the instances TLC goes through |
| `WindowProofs` (search, recovery), `PourOffProofs`, `TranscriptProofs`, `TurnRecordingProofs`, `RecallProofs` (recall, traces, settings and their store), `ServicesProofs` (request, routing, accounts), `AgentToolsProofs` | the theorems |
| `MemoryRankingProofs` | lemmas about the ranking's operators, for the proofs of recall and of the tools |

### How the modules are composed

- `PourOff` and `TurnRecording` write on the same session of the server, from two sides:
  `PourOff` appends messages without looking at what they say, `TurnRecording` says which
  messages they are and lets archives be taken between its steps.
- `PourOff` and `Recovery` use the *outcome* of the search (`LongestWithin`); that the code's
  halving has this outcome is what `TailSearch` and its proof are for.
- `ResourceTools` and `MemoryTools` send their requests as abstract calls: a write may be
  done, refused, or still on its way when the caller has given up. `ClientRequest` implements
  exactly that (`RequestImplementsCall`, checked and proved). `AgentTools` is both: they
  share no state of the plugin, and no two of the tools touch the same thing of the server.
- `ResourceTools` routes by the operators of `ResourceRouter`; `RoutingService` shows that
  the router it asks compares with the vectors of its own taxonomy.
- `MCRecording`, `MCPourOff`, `MCRecall` and `MCServices` extend the components they check
  and add further settings of them as instances: a property of a run is the component's own,
  and the theorem about it states the same definition.
- `Recall` reads the settings through `QueryLayers`; `QueryConfigStore` is where the records
  come from, and `RecallTrace` where the trace goes to.

Parts that share no state another changes while they run are checked in one run over a
variable `part`: a behaviour is of one part, the others stand at rest (`MCWindow`,
`MCRecall`, `MCServices`). In `MCPourOff`, `MCPourCommands` and `MCRecording` the parts are settings
of the same module. This is a matter of packaging only: a run's states are the sum
of its parts', not their product, and a property says which part it is about.
Where no part is named in a property, the resting state satisfies it trivially and
the running part decides.

### How `PourOff` corresponds to the code

An action is what runs between two awaits of the code, with everything it changes.
`turn` and `cmd` are the calls under way, their `pc` the await they are at:

| `turn.pc` | the call is at |
|---|---|
| `settleRead`, `settlePrice`, `settleCommit` | `settleWindow`: reading the context, `chooseKeptTail`, `commitSession` |
| `contextRead` | the context `holdForSummary` decides on (read by `assemble`, or after the held pour-off) |
| `holdPoll`, `holdReread` | `waitForSummary` of the hold; the context read again |
| `record` | `addSessionMessage` of the hook |
| `hookRead`, `hookPrice`, `hookCommit` | the hook's pour-off |

| `cmd.pc` | `compactOpenVikingSession` is at |
|---|---|
| `read` | the context before compaction |
| `prevPoll` | waiting for the last pour-off's summary |
| `price`, `commit` | the kept tail, the commit |
| `askSession`, `askTask` | `waitForSummary` with the new archive's task |

`pourDue` and `givenUp` are the entries of the two maps of the module for this session; the
maps' entries never meet, so one session is modelled. `shown` is what the host shows: a
compaction announced and not ended. `gaveUpOn`, `since` and `untold` and the fields
`measured`, `seen` and `archives` of a lane are history and guard nothing. An exception in `assemble` leads to the live transcript
(`AssembleRecovers`); one in the hook is swallowed (`HookEnds`); one in `compact` becomes
`failed`.

Weights are counted in messages: the window weighs `Base` and one for each message handed
out. The constants X (`PourAt`), K (`KeepTokens`) and the floor are the configuration's.

`Serial` says whether the host lets one lane run only while the others rest. The code cannot
see to that and one of its comments speaks of "another path of the host", so it is a constant.
No safety property of the pour-off is stated for one value only: where what another lane does
between a read and a commit matters, the property says how much (see *Runs*).

### How the other modules correspond to the code

**`Transcript`.** `Extracted` and `Coalesced` are `extractNewTurnMessages` and
`coalesceConsecutiveToolMessages`; the window is what `context-message-adapter.ts` makes of
the stored messages; `repairToolUseResultPairing` is translated pass by pass, with the
results it moves, drops and makes up (a result without an output is not recorded at all); the alternation of roles and the distinct ids are the
last operators. Each loop of the code is one step (`Coalesce`, `Convert`, `Merge`, `Repair`,
`Push`, `Alternate`, `Renamed`, `CallId`) and its fold. `TranscriptNext` appends a message to the host's transcript, and the invariants look at
what each transcript becomes, for a window built from the server (`kind = "server"`) and for
the host's own (`"live"`). A message's content is whether it has a text; two ids may differ
only in what stripping removes (`Strict`, a constant). A new id is the sequence of what it is
put together from, a number in it a tally.

**`Recovery`.** `RecoveryInit` chooses a conversation and where archives end, `SummaryEnds`
what becomes of their summaries; `search` walks back as `findLastClosedArchive` does, `Probes` archives at most.
`Stamp` is a batch's last moment, `Places` what `placeOf` finds, and the boundary is
`boundaryBeforeArchiveEnd`'s. Moments may be lost or repeat. `IsConversation` says what the
recording makes of them: batches stand one after another, and only the message that opens one
may be older than what stands before it.

**`TurnRecording`.** A turn is its question, its rounds of calls and its answer; `script`
fixes them in `Init`. Messages compare as `recordedMessageKey` makes them: questions and
answers by their text, calls by their ids. `HookCalled` claims the fingerprint and
`HookRecords` writes, two steps as in the code; `commitTurn` is `CommitStarts` (both claims),
`CommitReads` (the server's tail, the prefix to skip), `CommitRecords` once a message.
`settled` are the turns the host has its answer for. `HostWaits` says whether the host begins
a turn only when its queue is empty. `Faults` is a set of what may happen: reads and writes
that fail (`read`, `write`), a write done whose answer is lost (`lost`), an answer of the
queue unheard (`unheard`), an impatient repeat, a restart, a pour-off or a compaction that
takes messages out of the context. The hook brings a turn
from its boundary to what it has seen of it, never the closed turn as the queue does, so its
fingerprints are all different: a host that brought the closed turn by both paths would meet the
early return at `context-engine.ts:487` (`already_committed_by_commitTurn`), and `:535` for the
hook's sake; in the model `:535` is met only by a turn the queue brings again after its first
claim was evicted.

**`ClientRequest`.** `wire` and `body` are the two awaits of `request`; a copy of the request
is in `travelling` until the server handles it, also when nobody waits any more. The timer
is `TimerFires`; `Reads` are the operations repeated once after a dropped connection.
The client refuses on the status *or* on what a 200 carries (`Verdicts`); a body that breaks off
reads as an empty object, so that a refusal of the second kind is lost with it (`BodyBreaks`).
`Once`, `Work` and `AnswerTold` are the refinement mapping to `RemoteCall`, which calls such an
answer "blank": the server has settled the call, one way or the other.

**`PriceHandle`.** `price` and `ask` in ticks. The timer is cleared when the headers are
there, so the body's patience (`BodyLimit`) is the transport's and starts anew with each piece
(`PieceArrives`).

**`RoutingService`.** A *version* of the taxonomy stands for everything the vectors' file is
compared by (hash, model, identity). `Asks` is one turn of the event loop: load the taxonomy,
read the file, or join the promise. `PutsBeside` and `Renames` are the two steps of the write
that a stop can part; while they run nobody else does (`Free`: the writes are synchronous).

**`ResourceTools`.** `tree` is the server's tree of paths; `held` is the taxonomy loaded, its
categories compiled by `ResourceRouter`. `toolPc` is the await a tool is at; `packed` is the
temporary archive of a directory; `late` are mutations nobody waits for,
which the server may still do after the tool has answered; `past` is what became of the
call's own earlier ones. An answer is "done", "unknown" or a refusal.

**`MemoryTools`.** `keeper` is the running call, `keeperPc` the await it is at, `write` its
request and what became of it, `word` what the agent is told. `memory_store` appends a text,
commits, and waits for the task; `archives` hold which texts they took and whether they are
extracted; `lateWrites` are requests nobody waits for any more. `memory_forget` deletes by uri, or
searches and forgets one that is alone and strong. Candidates are `MemoryRanking`'s.

**`Recall`, `MemoryRanking`, `QueryLayers`.** `pc` goes through the settings, the check
that the server lives, the searches (each settles on its own), ranking or reranking, reading
contents one after another, and the trace. `chars` is the length of the block so far, with
the breaks between its lines. The ranking's sorts and filters are written as places in an
order (`InOrder`: the k-th place is the one that k of the set come up to), so that they can
be reasoned about. `QueryLayers` chooses, field by field, the first of a session's records
by its names, then the claw's, then the configuration's. `asker` tells the three ways in; for all but
the tool a timer runs and the work goes on behind it.

**`QueryConfigStore`.** Loading and reloading are a look at the time, a read, and taking what
was read; a write is put beside the file, renamed and its time asked for. `disturbed` and
`raced` are history: which change a reload or a later change overtook, and whether the file
moved between being read and being marked.

**`RecallTrace`.** `memory` and `files` are the two stores of entries, which are numbered in
the order they were recorded; `append` is where each entry's
append stands (prune, write); a query looks in memory, waits for the appends it found
pending, and reads the files of the last days.

**`AgentRouting`.** `names` is the resolver's map, `made` and `engine` the engines and the one
created last, `filed` the call that reached the server last: whose it is and whose account.
`Assembles`, `AfterTurn` and `Compacts` are the calls of an agent's own engine, which differ in
what they remember before they resolve; `FilesThrough` is the resolver an engine puts in front
of the shared one: it takes a session nobody knows for its own agent's and teaches that.
`ToolCalled`, `HookCalled` and `BeforeReset` are the other ways. An account is one *spelling* of
an agent's name in the file of keys, with the prefix or without. `taught` and `strayed` are
history: the names a scoped engine has called by, and the resets that went through another's
engine unresolved.

## Runs

| run | module | what it asks |
|---|---|---|
| `window` | `MCWindow` | the search over every list of up to 3 messages with all turn starts and weights, and longer ones: the answer is the longest eligible tail under the cap, the window fits under X whenever it can, about log2 questions and every search ends; every transcript of up to 4 messages: results stand with their calls, all that was said is sent in turns, priced ids tell calls apart, the hook and the queue record the same; every short conversation, with missing, lost and repeated moments: nothing falls between the summary and the live messages |
| `pour_off` | `MCPourOff` | three settings. `turns`, a stormy handle, failed summaries and restarts: announcements close, a pour-off put off is made once and told once and does not stay put off, the kept tail is cut to what fits under X (with X = 4, K = 3 and a constant part of 3 the cap by X decides, not K). `rough`, lanes together and everything failing: a held turn and a compaction return. `old`, no count of waiting archives, no handle, a floor of 2: the task is waited for, the floor kept (`OldServerIsServedAsWell`) |
| `pour_commands` | `MCPourCommands` | turns, both compactions and resets in turn, and turns with the host's compaction *beside* one another, while reads, polls and writes fail, answers are lost and the gateway restarts: no weighed pour-off behind an archive that waited when its lane looked, no torn tail but by what was recorded between the read and the commit, `compacted` only of a summary no longer being written |
| `record` | `MCRecording` | `whole`: up to three turns, repeats, restarts, pour-offs: each message once, in order, whole turns, only its own skipped. `rough`: the queue drains, whatever fails |
| `recall` | `MCRecall` | the settings' file against commands, hands, stops and a disk that refuses; "latest" is the latest trace; a block fits its budget; settings are the highest layer's; what is injected is earned; everyone is answered |
| `services` | `MCServices` | a request implements the abstract call; the tools' words are true and a call changes the server once; a router fits its taxonomy; a session keeps its account, and one its engine has called for is its agent's for the tools, whether its key tells the agent or not; outer calls return |
| `hold_given_up`, `announcement_left_open`, `poured_twice`, `half_recorded`, `call_left_unanswered`, `filed_under_another` | | the findings below |

Every property of a passing run has a mutant in `PROJECT.json`: a change of a definition, as a
plausible slip in the code would be, with which TLC finds the property violated.

*Bounds.* Five messages with X = 4, K = 3 and a constant part of 3 are enough for two pour-offs
in a row with something kept each time and for a list in which the floor, K and X each decide;
three messages in `pour_commands` for an archive, a second lane's and a message in between; one poll
before a limit tells "in time", "at the limit" and "after" apart. The `rough` part keeps
two messages: that calls return does not depend on how many there are, only on every step
having an end. Three turns are enough for an equal question a turn ago and a queue that
lags; `ClaimLimit` 4 makes the eviction of claims happen within them, where the code has 64.
Four messages of a transcript hold a call, its result displaced or repeated, and an id used
again: all the repair goes by, besides the ids it has seen, is what stands up to the next
assistant. Four messages in two or three batches, with two or three
archives, make a batch cut by an archive and a moment shared; three moments, or two and none,
let a turn unknown to the transcript be stepped over. Two commands, a reader, an edit
and a stop are enough to overtake a change once in each way. Two callers, two good taxonomies
and a bad one; two parts to embed, so that a build can be half done. A tool makes two calls in
a row on the server's tree, so that a late mutation of the first meets the second. The
counters of edits, troubles, stops, calls and archives are bounds and nothing else. Deadlock
is not checked in the runs whose behaviours are bounded and then have nothing left to do;
in `pour_off` and `pour_commands` it is.

*Fairness.* The plugin's own steps are weakly fair: every await of the code returns, because
requests have a time limit and loops look at a deadline. Nothing is asked of the server, the
network or the handle. Beyond that:

- `pour_off`, `turns` only: the host starts another turn (weak), and a handle asked again and
  again answers once (strong). Without them a put-off mark may stay, as it should.
- `record`, `rough`: the strong fairness is the host's: its queue is durable, it brings a turn
  until it hears an answer, and it hears one in the end.
- `services`: `ClientRequest` asks that the timer fire and that a body under an aborted timer
  break off; `PriceHandle` that time pass; `RoutingService` that a caller that failed ask again
  and a broken taxonomy be mended in the end. A part's fairness is owed only when it runs.
- `recall`: file operations end, in success or not; the timer of recall fires. No search, read
  or reranker is asked to answer.

## Proofs

The provers find these for *every* value of the constants; what each theorem assumes beside
them is said with it. The assumptions on constants are named (`PourOffConstants`,
`RecallConstants` and the like): a module assumes its own, or the modules that instantiate
the parts assume them together (`PartsAreInstances`), and TLC evaluates them in the runs. Each proof has an invariant
(`...Inv`), stronger than the property, that `Init` satisfies and every step keeps, with one
step of the proof for each action.

`WindowProofs`, the search (for every list, weight function that does not fall as the tail
grows, cap and floor; that the weight of a real list does not fall is an assumption on the counter):

- `SearchCorrect`: a search that ends has found `LongestWithin`. The invariant `SearchInv`
  says the answer lies between `lo` and `hi`: every eligible start before `lo` is too heavy,
  and `hi` fits unless it is the last. Monotone weights make it inductive.
- `KeptWindowUnderX`: the cap and the search together keep the window under X whenever an
  eligible tail can. `TypeCorrect`: the indices stay within the lists.

`WindowProofs`, the window without a fresh summary (for every conversation that is one by
`IsConversation`, any archives, K and floor):

- `NoGapInTheThread`, stating `NothingFallsBetween`. The boundary is a moment, the end of an
  archive a place, so `EarlierTurnIsWithin` carries the proof: of two batches an archive has
  messages of, the earlier one's stamp is first found in the transcript before the archive's
  end. What stands past the end is of the archive's last batch, and if that batch carried the
  *earlier* stamp, its last message would be older than one before it. A lost moment is
  another batch's only where the transcript may not lose it (`MostAreTimed`, see *Limits*).
  `BoundaryIsWithin` follows, and `CutKeeps` counts: what is sent begins after the boundary
  and what was dropped.

`TranscriptProofs` (any ids and what stripping leaves of them, any texts, calls, turns cut
short and length; `TranscriptConstants`):

- The invariant on the states is small (`TranscriptInv`: what was heard is a conversation);
  the work is in the loops. What a loop computes on *every* window is proved without the
  library's induction theorems: a loop is a fold of a function, `Runs` gives the values it takes
  one after another, and `Climb`, from the least number that is not in a set, goes from one
  value to the next. What two windows have in common is stated by a *reader* of each, itself
  a fold, so that one step of a conversion is compared with the steps of the reader over
  what it puts out.
- `BothPathsAgree`, stating `BothPathsRecordTheSame`, if no text is `"tag"` (see *Limits*).
  The state `Coalesce` is in before a message of the model's does not matter to what follows it:
  such a message always leaves something, a text or a boundary, that ends the round
  (`StoredInParts`).
- `TurnsAlternate`, stating `SaidInTurns`. Merging leaves no two users' messages side by side
  and keeps what was said, repair drops and adds only what users and assistants did not say,
  and the last loop puts a placeholder where two assistants still meet.
- `ResultsStand`, stating `ResultsStandWithTheirCalls`. `RepairedUpTo` says, of the repair
  after n messages, that the ids seen are those of the calls so far of messages not cut short, that
  a reader of what was put out has seen every result under an open call and none twice, and
  that what was answered by something heard is told so. Merging and alternation never part
  a result from its call, which the same reader (`Reading`) shows.
- `PricedIdsApart`, stating `PricedIdsTellCallsApart`. A new id is new because of the numbers
  tried, one more than there are ids used, one is free (`UniqueIsNew`). `ContextPairs` says that in
  a window from the server the results after a message answer its calls one by one in
  their order, and `NamedUpTo` that the names waiting under a raw id are then just those of
  the calls still unanswered, oldest first, so that each result takes its own.

`PourOffProofs` (for every X, K, floor, handle, fault and length):

- `TypesHold`, with no assumption on the lanes. `TypeOK` is not inductive: the end of a hold
  takes one from `untold`, so the invariant adds that a call with facts to tell has been
  counted. A step that prices has to keep a *natural* number of messages:
  `KeptTailOpensATurn` says that what `KeptStart` chooses is always an eligible start.
- `NoArchiveIsQueued`, `KeptTailIsWhole`, `KeptTailFits`, with no assumption on the lanes, the
  faults, or on how K, X and the constant part compare. The invariant `DecidedInv` says what a
  call past its look at the session still knows whatever happened since: which archives there
  were, that the messages it read still stand in the log where it read them, that the number it
  decided to keep opens with a user's message of those, is not under the floor and fits as
  `LongestWithin` does. What the properties allow for the time between is exact: an archive
  *newer* than the look may be waiting, a message *recorded* since may move the boundary, and X
  may be exceeded by what was recorded between the request the host measured and the read.
- `NothingStaysShown` and `PourOffsAreTold`, assuming `NoCallFails` (no read, no write and no
  answer fails; `announcement_left_open` shows what a failed read does). Their invariant
  `TellInv` says when exactly a start is shown: while a put-off pour-off is settled, while a
  hold lasts, and from the one to the other; and that `untold` is one when the call has facts
  to tell and nought else.
- `PutOffIsMadeOnce`, with no assumption. `FirstInv` counts the archives since the mark: those
  of other lanes and those whose answer was lost, `since.elsewhere`, are all there are, since
  each pour-off the turn lane hears of takes the mark away.
- `CompactedIsOver`, with no assumption. `WaitInv` says that who waits without a task was told
  of the archives by the session's count, and who asks after a task has an archive.

`TurnRecordingProofs` (any turns, rounds, texts, number of turns and limit of claims;
`TurnRecordingConstants`). Each theorem has the weakest setting it is true in:

- `TypesHold`: whatever fails, and whether or not the host waits.
- `SkipsOnlyItsOwn`, under `NoWriteFails`: the host begins a turn when its queue is empty and no
  write fails. Reads may fail, answers be lost, calls be repeated while they run, and
  compactions, pour-offs and restarts come anywhere. The invariant says that the last message
  recorded is always one of the turn under way once any of it is (`Heard`), so that what a
  longest match finds behind it cannot be another turn's.
- `SettledAreWhole`, under `NothingIsCutShort`: besides, no call is repeated while it runs, and
  answers are not lost where reads fail or compactions come. Each of the three is needed (see
  *Limits*).
- `OnceEach` and `InOrder`, under `QuietServer`: no read fails and no compaction comes either.
  The invariant `IInv` says that what stands on the server is in order, one by one and without
  gaps back to each turn's question; that of the turn under way exactly a beginning stands, as
  long as the hook or the queue brought it (`OpenTurn`, `QueuedTurn`); that the server's tail
  starts with a turn; and that a claim stands for its turn's last message, or for the call that
  runs (`ClaimedAreEnded`). The prefix the code skips is a longest match of texts:
  `SkipsWhatStands` shows that it is exactly that beginning, though other turns say the same.

`half_recorded` shows what a failed write does.

`RecallProofs`:

- `SettingsAreHighest`, with no assumption: the settings in force are, field by field, the
  highest layer's.
- `BlocksFit` and `InjectedAreEarned` (`RecallConstants`: any memories, answers of the
  searches and of the reranker, budgets and limits). `RecallInv` says that what is kept is
  earned (found, no folder, one of each text, over the threshold in force or the reranker's
  floor), that the lines are those of the kept read so far, in their order and each once, and
  that a running total of their lengths and breaks stays within the budget and ends at
  `chars`. The step that ranks rests on the lemmas of `MemoryRankingProofs`: each element
  of a finite set has its place in an order (`EachPlaceIsTaken`, by cardinality), so a sort is
  a permutation, a filter loses nothing, and the first of each key are distinct and all there.
- `LatestAreLatest` (`RecallTraceConstants`): of queries asked one after another, one for the
  latest trace answers with none older than it could know of. `TracesInv` says where every
  entry is: in memory, in the file of its day, on its way there, or dropped for its age; and,
  for each query, that the newest entry it must know is in a place it has still to look at,
  or that it holds one as new (`PromiseHolds`). `OneAtATime` is needed: a second query asked
  while the first one waits finds nothing pending (see *Limits*).
- `QueueHoldsThoseWaiting`, `AcknowledgedIsWritten` and `MarkTellsTheTruth`, of the settings'
  store (any commands, readers, records and values; `QueryConfigConstants`). `StoreInv` says
  that while a change waits nothing is loaded, memory says what it says, and so do the records
  put beside the file for it. For the mark, `MarkInv` adds that whoever holds the time the
  file has now holds what it says now (its time grows with every change of it), and `TruthInv`
  that a lone write puts down what memory says. The last two theorems leave out what their
  properties leave out: changes overtaken, writes refused, a file that moved between being
  read and being marked.

`ServicesProofs`:

- `RequestIsACall` (every set of operations), the refinement to `RemoteCall`. The invariant
  says that a copy of what must be done once goes out once, that what is handled went out and
  travels no more, and that whoever reads a body has had the answer to the last copy; each
  action then maps to an abstract step or a stutter.
- `RoutersFit` and `FileIsNeverTorn` (any callers, taxonomies, parts; `RoutingAssumption`).
  The invariant says that the vectors beside the file are those of the taxonomy held whenever
  they are about to be renamed, and a router being built is for the taxonomy held.
- `SessionsKeepTheirAccounts` (any agents, sessions, spellings of keys, forms of names), with no
  assumption. A session reaches another agent's account in one way only: a reset of it, when
  nobody knew it, went through that agent's engine (`strayed`; `filed_under_another` shows one).
  The invariant is that a name remembered is remembered with its session's agent or with one it
  strayed to.
- `TaughtSessionsResolve` (`AgentRoutingConstants`), whatever keys tell their agents: the names
  an engine has called by are all remembered, and a tool that knows the session by these looks
  at one of them first, or at the stored id they share. A call with the id alone teaches the id;
  a tool with the key alone is not promised anything by it.

`AgentToolsProofs` (any taxonomies, names, answers of the router, memories, scores and number
of calls; `MemoryToolsAssumption`):

- `WordsAreTrue`. For imports and removals `ToolsInv` says that all attempts of a call but the
  last were turned down for want of recursion (`AttemptsBeforeTheLast`), and that what is told
  fits what became of the last; a mutation still open after the call is told as unknown. For
  memories `KeeperInv` follows the text of a store: nowhere before its write is served, then
  in its session or an archive, and of a session of the call's own in that one alone
  (`TextStands`); that no late write of an earlier call can touch it is because texts
  and own sessions are fresh (`CallsAreFresh`), and a late write of the call itself means
  that its word was an error (`LateWritesAreUnheard`).
- `OneChange`, assuming `TwinsAreAlike` (see *Limits*). That a repeated removal cannot be the
  second change is `AttemptsBeforeTheLast` again. For a search, `CandidatesToForget` shows
  that every memory found that is a candidate has a twin among the ranked ones, whatever order
  the server answers in, so that one left alone stands for all of them.

Model-checked only, and why:

- *Liveness* (`SearchEndsSoon`, `PutOffPourIsMade`, `CallsReturn`, `RoughTurnIsSettled`,
  `EveryoneIsAnswered`, `OuterCallsReturn`): fairness and `ENABLED` are out of the provers'
  reach.
- `OldServerIsServedAsWell` says of one more setting what `KeptTailIsWhole` and
  `CompactedIsOver` say of all: those theorems hold for a server that counts nothing, too.

## Findings

| run | the code | the words |
|---|---|---|
| `hold_given_up` | a hold given up for one archive is not made for the *next* archive either, unless an assemble between saw nothing waiting | `config.ts:100` "Waited once per pending summary" |
| `announcement_left_open` | a read that fails after `announce("start")` leaves the compaction shown | lifecycle `:1222` "an end once the summary stood (holdForSummary) or the wait is over" |
| `poured_twice` | a compaction whose summary stands before the held turn looks does not clear `pourDue`: the turn pours again | lifecycle `:1254` "Poured meanwhile by another path of the host: nothing is due" |
| `half_recorded` | a failed write is swallowed and the queue hears "committed" | `context-engine.ts:516`: the host repeats after a failure |
| `call_left_unanswered` | a later call that uses an id again gets no result: the earlier result of the id makes the repair drop it | `session-transcript-repair.ts:359` providers reject transcripts whose calls "are not immediately followed by matching tool results" |
| `filed_under_another` | a reset's commit of a session the process does not know goes through the engine created last, into its agent's account | `agent-keys.ts:15` what "cannot be attributed to a concrete agent lands in that account instead of leaking" |

### Limits of what holds

Each of these was met while modelling and is not a run of its own. The first group can be
seen with the same modules and other constants:

- The strict forms of two properties of the pour-off are false when the host's lanes do not wait
  for one another: the look and the commit are seconds apart, so an archive of the other lane
  may be waiting by then, and a message recorded in between moves the boundary into a turn
  (`NoArchiveQueuedBehindAnother`, `KeptTailIsWholeTurns` say which archives and which messages).
- X may be exceeded by what was recorded after the request the host's number is of (lifecycle
  `:795`-`:801` takes it for the constant part's), and by the floor when nothing shorter is eligible.
  `config.ts:935` asks only that K be under X.
- A poll that fails counts as a server without the count, and without a task that is "stands"
  (lifecycle `:845`-`:850`): a hold may end as if the summary stood, and a compaction be told
  `compacted` of an *earlier* pour-off ("presumed" in the model), where `:822` says the wait is
  for the archive's summary. A summary that failed counts as over where the server counts.
- `EachMessageOnce` fails with `HostWaits = FALSE` (a late turn no longer ends the server's
  tail) and with `"compact"` among the faults (nothing is left to compare with).
- `SkippedIsOwn` fails with `"write"`: a question the hook could not record may be taken for
  an equal one a turn ago. `SettledTurnsAreWhole` fails with `"impatient"` and `"restart"`
  together (the claim comes before the recording), and with `"lost"` beside `"read"` or
  `"compact"`.
- `response.json()` is wrapped so that whatever ends the reading of the body, the client's own
  timer included, reads as an empty object (`client.ts:499`). A read cut off there is a success,
  where `client.ts:476` says "our own timeout go[es] up"; and a refusal that stood only in the
  body of a 200 (`payload.status`, `:505`) is told as done. `tests/client-request-errors.test.ts`
  names both forms of refusal. So `RequestImplementsCall` promises nothing of such an answer but
  that the server settled the call, and `WordIsTrue` leaves out calls one of whose refusals was
  lost that way: an import is then told as accepted, a commit as stored with nothing extracted.
- A price question may take longer than its limit: the timer is cleared with the headers
  (`price-handle.ts:108`), the body is bounded by the transport's patience between two pieces only. A handle that
  sends pieces without end is not modelled (`MaxPieces`).
- `BothPathsRecordTheSame` fails with `"tag"` among `Texts`, which is why `BothPathsAgree`
  excludes it: an answer that is nothing but a directive is cleaned away by one path and
  keeps rounds apart in the other.
- Distinct ids are proved for names of any length and as many numbers as it takes. The code
  cuts names to 40 characters and hashes to 8, and after number 999 takes the time of day
  without asking whether the name is used (`tool-call-id.ts:157`-`:166`).
- A session its engine has called for by the id alone stays unknown by its key, if the key tells
  no agent and no context carries one: once the id resolves, the engine teaches nothing more.
  `TaughtToTheTools` is of tools that know the session by the names the engine called by.
- With a prefix and both spellings in the file of keys, a scoped engine's first call of a session
  goes to the plain name's account and the later ones to the prefixed one's: `FilesThrough`
  answers with the directory's name and teaches the resolver the prefixed one.
- `AcknowledgedChangeIsWritten` leaves out a change overtaken by a reload between the change
  in memory and the write, or by a later change of the record: the code acknowledges it and
  it is lost. A file edited between a write's rename and its stat is not seen until the next
  edit (`raced`).
- `memory_forget` takes copies out by category and text *before* it takes out what is no
  memory (`openviking-memory-tools.ts:267`-`:271`): something that is no memory and says what
  a memory says hides it when it scores higher, and a second candidate then counts as alone.
  `OneChangePerCall` holds when twins are memories or not together (`TwinsAreAlike`).
- `memory_forget` deletes the one it found; a twin with the same text stays after
  "Forgotten". A lost answer of its write is an error there, not "unknown". `memory_store`
  into a named session archives everything live in that session, not the new text alone.
- A moment shared by two batches, with the later one's lost, opens a gap in `Recovery`.
- A memory hit for `turn = all` hides the entries on disk. The list of pending appends grows
  while entries are recorded and nobody asks; a second query does not wait for the appends a
  first one took (`flush` splices the list), so that "latest" of two queries at once may be
  an older one: `LatestIsLatest` is checked and proved for queries one after another. A trace is recorded also when the time of
  recall was up.
- A category whose path reads as another category's key is `ambiguous` to the selector, and
  `remove_resource` does not protect it (`openviking-import-tools.ts:421`). The taxonomy of
  `services` has no such clash.

The rest lies beside what is modelled: agents whose names collide after sanitising share an
account; aliases are never evicted; an audit that cannot be written fails a routing that was good; an import
that fails in its temporary upload is told as unknown.

## Not modelled

- *Feature gates* and registration tables: read once at a start; which tools exist, with
  no step between. *Bypassed sessions*: a guard before every call, which then does nothing.
- *Tool results and archives for the model*, and the search and browse tools of
  `plugin/openviking-query-*.ts`: single reads of the server with formatting, no state; their
  requests are `ClientRequest`'s.
- *Setup*: a dialogue with one user over the host's file, written once at its end.
  *Configuration*: parsing of values to defaults and bounds; the bounds are the assumptions
  on the constants.
- Formats and wording throughout: prompts, results, headers, the zip of a packed directory,
  the walk of a directory, the parsing of a command's words and of an embedder's or
  reranker's answer. Vectors and texts are the scores they come to; what a message says is
  whether it says something.
- The price handle's own counting, and the server's inside: what the plugin's calls rely on
  is `VikingServer` and `RemoteCall`.

What could still be done: an abstract window (full, waiting, free, with one announcement) that `PourOff` implements; the liveness of the pour-off
under weaker fairness of the handle; two sessions sharing one router and price handle.
