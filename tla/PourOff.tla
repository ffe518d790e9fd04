------------------------------ MODULE PourOff ------------------------------
(***************************************************************************)
(* The life of one session's window: services/context-lifecycle-service.ts *)
(*                                                                         *)
(* The turn lane of the host calls assemble at the start of a turn and the *)
(* hook afterTurn before each call of the model.  When the window weighs X *)
(* the hook pours the session off: the newest messages stay live, the rest *)
(* becomes an archive.  When the price handle is silent the pour-off is    *)
(* put off (pourDue) and the next assemble holds the turn until it is made *)
(* (settleWindow).  A turn is also held until the last archive's summary   *)
(* stands (holdForSummary), and a hold that runs out is not repeated       *)
(* (summaryHoldGivenUp).  The command lane of the host compacts on its own *)
(* or at the user's word and resets; its queue records closed turns.       *)
(*                                                                         *)
(* One step is what runs between two awaits.  Weights are counted in       *)
(* messages: the window weighs Base and one for each message handed out.   *)
(* pourDue and summaryHoldGivenUp are maps by session whose entries never  *)
(* meet, so one session is modelled.                                       *)
(***************************************************************************)
EXTENDS VikingServer, FiniteSets

CONSTANTS
    Base,         \* what the window weighs without messages
    PourAt,       \* X, pourOffAtTokens
    KeepTokens,   \* K, keepRecentTokens
    KeepFloor,    \* keepRecentFloor
    Price,        \* "none": no handle; "steady": it answers; "stormy": it may be silent
    HoldPolls,    \* holdForSummarySeconds, in polls; 0: no hold
    WaitPolls,    \* compactWaitSeconds, in polls
    Commands,     \* what the command lane may do: "budget", "manual", "reset"
    Serial,       \* whether the host's lanes wait for one another
    Faults,       \* what may fail: "read", "poll", "write", "lost", "summary", "restart"
    MaxMessages   \* bound: messages recorded in a behaviour

ASSUME PourOffConstants ==
    /\ Base \in Nat
    /\ PourAt \in Nat \ {0}
    /\ KeepTokens \in Nat \ {0}
    /\ KeepFloor \in Nat
    /\ Price \in {"none", "steady", "stormy"}
    /\ HoldPolls \in Nat
    /\ WaitPolls \in Nat
    /\ Commands \subseteq {"budget", "manual", "reset"}
    /\ Serial \in BOOLEAN
    /\ MaxMessages \in Nat

NoMark == -1

VARIABLES
    pourDue,    \* the window of a pour-off put off, or NoMark
    givenUp,    \* whether a hold for the summary ran out and none since saw it gone
    shown,      \* whether the host shows its compaction: a start without its end
    turn,       \* the turn lane: one call of assemble or afterTurn, or idle
    cmd,        \* the command lane: one call of compact, or idle
    gaveUpOn,   \* history: the archives that waited when the hold ran out
    since,      \* history: the archives when pourDue was marked, what was made since
                \* elsewhere or unheard, and the messages when its window was measured
    untold      \* history: pour-offs of the turn lane the host was not told of yet

holdVars == <<givenUp, gaveUpOn>>
markVars == <<pourDue, since>>
memoryVars == <<markVars, holdVars>>
vars == <<serverVars, memoryVars, shown, turn, cmd, untold>>

---------------------------------------------------------------------------

TurnSteps == {"idle", "settleRead", "settlePrice", "settleCommit", "contextRead",
              "holdPoll", "holdReread", "record", "hookRead", "hookPrice", "hookCommit"}

CommandSteps == {"idle", "read", "prevPoll", "price", "commit", "askSession", "askTask"}

\* "presumed": the host is told "compacted" after a question that failed.
Results == {"none", "compacted", "presumed", "unchanged", "failed"}

IdleTurn ==
    [pc |-> "idle",
     due |-> NoMark,          \* settleWindow's mark; NoMark: an ordinary assemble
     window |-> NoWindow,     \* afterTurn's currentTokenCount
     todo |-> <<>>,           \* messages still to record
     pending |-> <<>>,        \* the context as it was read
     keep |-> 0,              \* keepRecentCount
     polls |-> 0,
     facts |-> FALSE,         \* pourFacts: what the end will tell
     measured |-> 0,          \* history: the messages when the window was measured,
     seen |-> 0,              \* the messages and
     archives |-> 0]          \* the archives when the context was read

IdleCommand ==
    [pc |-> "idle", kind |-> "manual", window |-> NoWindow, pending |-> <<>>,
     keep |-> 0, polls |-> 0, archive |-> 0, result |-> "none",
     measured |-> 0, seen |-> 0, archives |-> 0]

\* The counter's word on the last request: the constant part and what was handed out.
Measured == Base + Len(HandedOut)

\* The number the host passes on, when it does.
HostWindows == {NoWindow, Measured}

\* One message weighs one.
Weight(messages) == [s \in 0 .. Len(messages) |-> Len(messages) - s]

\* Mutant: K alone, whatever the window weighs beside its messages.
WindowCapWithoutX(messages, window) == KeepTokens

WindowCap(messages, window) ==
    IF window # NoWindow /\ messages # <<>>
    THEN CapOf(KeepTokens, PourAt, RestOf(window, Len(messages)))
    ELSE KeepTokens

\* Where chooseKeptTail lets the kept tail start (TailSearch is the search itself).
KeptStart(messages, window) ==
    LET eligible == EligibleStarts(messages, KeepFloor)
    IN  IF Price = "none" THEN FloorTail(eligible)
        ELSE LongestWithin(eligible, Weight(messages), WindowCap(messages, window))

NothingToPour(messages, window) == KeptStart(messages, window) \in {NoTail, 0}

\* Mutants: the archived messages counted for the kept ones; the difference swapped.
KeepCountOfTheArchived(messages, window) == KeptStart(messages, window)
KeepCountSwapped(messages, window) == KeptStart(messages, window) - Len(messages)

KeepCount(messages, window) == Len(messages) - KeptStart(messages, window)

\* The handle is asked something and says nothing: NoWeightFromTheHandle.
MayBeSilent(messages, window) ==
    /\ Price = "stormy"
    /\ messages # <<>>
    /\ window # NoWindow \/ EligibleStarts(messages, KeepFloor) # {}

Fails(what) == what \in Faults

NothingSince == [archives |-> 0, elsewhere |-> 0, measured |-> 0]

\* pourDue.set and pourDue.delete.
Mark(window) ==
    /\ pourDue' = window
    /\ since' = [archives |-> Len(ends), elsewhere |-> 0, measured |-> turn.measured]
Unmark == pourDue' = NoMark /\ since' = NothingSince

\* An archive of which the turn lane does not hear: pourDue stays as it is.
Unheard(keep) ==
    /\ Commit(keep)
    /\ since' = IF pourDue # NoMark /\ Archives(keep)
                THEN [since EXCEPT !.elsewhere = @ + 1] ELSE since

\* The context as it is read for a pour-off.
ReadFor(lane, pc) ==
    [lane EXCEPT !.pc = pc, !.pending = HandedOut, !.seen = Len(log), !.archives = Len(ends)]

---------------------------------------------------------------------------
(* The turn lane *)

TurnFree == turn.pc = "idle" /\ (Serial => cmd.pc = "idle")

\* Mutant: the end does not carry the pour-off.
EndWithoutFacts == shown' = FALSE /\ UNCHANGED untold

\* announce("end"): the host's compaction is over, and it is told of the pour-off.
End ==
    /\ shown' = FALSE
    /\ untold' = IF turn.facts THEN untold - 1 ELSE untold

\* Mutant: no end after the wait.
SettledSilently == turn' = IdleTurn /\ UNCHANGED <<shown, untold>>

\* The end of settleWindow, or of the plain hold: what is still announced ends.
Settled ==
    /\ turn' = IdleTurn
    /\ IF turn.due # NoMark /\ shown THEN End ELSE UNCHANGED <<shown, untold>>

\* An exception: assemble answers from the live transcript instead.
AssembleRecovers ==
    /\ turn' = IdleTurn
    /\ UNCHANGED <<shown, untold>>

StartAssemble ==
    /\ TurnFree
    /\ IF pourDue # NoMark /\ HoldPolls > 0
       THEN /\ turn' = [IdleTurn EXCEPT !.pc = "settleRead", !.due = pourDue,
                                        !.measured = since.measured]
            /\ shown' = TRUE
       ELSE /\ turn' = [IdleTurn EXCEPT !.pc = "contextRead"]
            /\ UNCHANGED shown
    /\ UNCHANGED <<serverVars, memoryVars, cmd, untold>>

\* What settleWindow leaves to the hold: that it announced, and its pour-off.
ToContext(facts) ==
    turn' = [IdleTurn EXCEPT !.pc = "contextRead", !.due = turn.due, !.facts = facts]

\* settleWindow reads the context: poured by another path meanwhile, or to be priced.
SettleRead ==
    /\ turn.pc = "settleRead"
    /\ IF SummaryPending
       THEN Unmark /\ ToContext(FALSE)
       ELSE /\ turn' = ReadFor(turn, "settlePrice")
            /\ UNCHANGED markVars
    /\ UNCHANGED <<serverVars, holdVars, shown, cmd, untold>>

SettleReadFails ==
    /\ turn.pc = "settleRead"
    /\ Fails("read")
    /\ AssembleRecovers
    /\ UNCHANGED <<serverVars, memoryVars, cmd>>

\* Mutant: the hold's deadline is not looked at.
SettleSilenceForever ==
    /\ turn.pc = "settlePrice"
    /\ MayBeSilent(turn.pending, turn.due)
    /\ turn' = [turn EXCEPT !.pc = "settleRead", !.pending = <<>>, !.seen = 0, !.archives = 0]
    /\ UNCHANGED <<serverVars, memoryVars, shown, cmd, untold>>

\* The silent handle is asked again after a pause, until the hold runs out.
SettleSilence ==
    /\ turn.pc = "settlePrice"
    /\ MayBeSilent(turn.pending, turn.due)
    /\ IF turn.polls >= HoldPolls
       THEN ToContext(FALSE)
       ELSE turn' = [turn EXCEPT !.pc = "settleRead", !.pending = <<>>, !.seen = 0,
                                 !.archives = 0, !.polls = @ + 1]
    /\ UNCHANGED <<serverVars, memoryVars, shown, cmd, untold>>

\* Mutant: the mark outlives a pour-off that finds nothing.
SettlePricedKeepsMark ==
    /\ turn.pc = "settlePrice"
    /\ IF NothingToPour(turn.pending, turn.due)
       THEN ToContext(FALSE)
       ELSE turn' = [turn EXCEPT !.pc = "settleCommit", !.keep = KeepCount(turn.pending, turn.due)]
    /\ UNCHANGED <<serverVars, memoryVars, shown, cmd, untold>>

SettlePriced ==
    /\ turn.pc = "settlePrice"
    /\ IF NothingToPour(turn.pending, turn.due)
       THEN Unmark /\ ToContext(FALSE)
       ELSE /\ turn' = [turn EXCEPT !.pc = "settleCommit",
                                    !.keep = KeepCount(turn.pending, turn.due)]
            /\ UNCHANGED markVars
    /\ UNCHANGED <<serverVars, holdVars, shown, cmd, untold>>

SettleCommit ==
    /\ turn.pc = "settleCommit"
    /\ Commit(turn.keep)
    /\ Unmark
    /\ ToContext(Archives(turn.keep))
    /\ untold' = IF Archives(turn.keep) THEN untold + 1 ELSE untold
    /\ UNCHANGED <<holdVars, shown, cmd>>

\* The commit fails, or only its answer is lost.
SettleCommitFails ==
    /\ turn.pc = "settleCommit"
    /\ \/ Fails("write") /\ UNCHANGED <<serverVars, since>>
       \/ Fails("lost") /\ Unheard(turn.keep)
    /\ AssembleRecovers
    /\ UNCHANGED <<pourDue, holdVars, cmd>>

\* holdForSummary decides on the context it is given.
NothingWaits ==
    /\ turn.pc = "contextRead"
    /\ ~SummaryPending
    /\ givenUp' = FALSE
    /\ gaveUpOn' = {}
    /\ Settled
    /\ UNCHANGED <<serverVars, markVars, cmd>>

HoldSkipped ==
    /\ turn.pc = "contextRead"
    /\ SummaryPending
    /\ HoldPolls = 0 \/ givenUp
    /\ Settled
    /\ UNCHANGED <<serverVars, memoryVars, cmd>>

HoldStarts ==
    /\ turn.pc = "contextRead"
    /\ SummaryPending
    /\ HoldPolls > 0 /\ ~givenUp
    /\ shown' = TRUE
    /\ turn' = [turn EXCEPT !.pc = "holdPoll", !.polls = 0]
    /\ UNCHANGED <<serverVars, memoryVars, cmd, untold>>

ContextReadFails ==
    /\ turn.pc = "contextRead"
    /\ Fails("read")
    /\ AssembleRecovers
    /\ UNCHANGED <<serverVars, memoryVars, cmd>>

\* waitForSummary without a task: the count is nought, or the question failed and
\* no count at all is taken for a server that gives none.
HoldStands ==
    /\ turn.pc = "holdPoll"
    /\ ~SummaryPending \/ Fails("poll")
    /\ End
    /\ turn' = [turn EXCEPT !.pc = "holdReread", !.polls = 0, !.facts = FALSE]
    /\ UNCHANGED <<serverVars, memoryVars, cmd>>

HoldWaits ==
    /\ turn.pc = "holdPoll"
    /\ SummaryPending
    /\ turn.polls < HoldPolls
    /\ turn' = [turn EXCEPT !.polls = @ + 1]
    /\ UNCHANGED <<serverVars, memoryVars, shown, cmd, untold>>

HoldGivesUp ==
    /\ turn.pc = "holdPoll"
    /\ SummaryPending
    /\ turn.polls >= HoldPolls
    /\ givenUp' = TRUE
    /\ gaveUpOn' = Waiting
    /\ End
    /\ turn' = IdleTurn
    /\ UNCHANGED <<serverVars, markVars, cmd>>

HoldReread ==
    /\ turn.pc = "holdReread"
    /\ Settled
    /\ UNCHANGED <<serverVars, memoryVars, cmd>>

HoldRereadFails ==
    /\ turn.pc = "holdReread"
    /\ Fails("read")
    /\ AssembleRecovers
    /\ UNCHANGED <<serverVars, memoryVars, cmd>>

---------------------------------------------------------------------------
(* The hook: afterTurnOpenVikingSession.  Whatever fails is logged and swallowed. *)

HookEnds == turn' = IdleTurn

\* What the hook brings: the question first, later the results of its calls.
Batches == {<<"user">>, <<"other">>}

StartHook ==
    /\ TurnFree
    /\ \E batch \in Batches, window \in HostWindows :
          /\ Len(log) + Len(batch) <= MaxMessages
          /\ turn' = [IdleTurn EXCEPT !.pc = "record", !.todo = batch, !.window = window,
                                    !.measured = Len(log)]
    /\ UNCHANGED <<serverVars, memoryVars, shown, cmd, untold>>

\* The last message recorded: no window, or one below X, ends the hook here.
AfterRecording ==
    IF turn.window = NoWindow THEN HookEnds /\ UNCHANGED markVars
    ELSE IF turn.window < PourAt THEN HookEnds /\ Unmark
    ELSE turn' = [turn EXCEPT !.pc = "hookRead", !.todo = <<>>] /\ UNCHANGED markVars

HookRecords ==
    /\ turn.pc = "record" /\ turn.todo # <<>>
    /\ Record(Head(turn.todo))
    /\ IF Tail(turn.todo) = <<>>
       THEN AfterRecording
       ELSE turn' = [turn EXCEPT !.todo = Tail(@)] /\ UNCHANGED markVars
    /\ UNCHANGED <<holdVars, shown, cmd, untold>>

HookRecordFails ==
    /\ turn.pc = "record" /\ turn.todo # <<>>
    /\ \/ Fails("write") /\ UNCHANGED serverVars
       \/ Fails("lost") /\ Record(Head(turn.todo))
    /\ HookEnds
    /\ UNCHANGED <<memoryVars, shown, cmd, untold>>

\* A summary still being written: pouring again would only queue another archive.
HookRead ==
    /\ turn.pc = "hookRead"
    /\ IF SummaryPending
       THEN HookEnds
       ELSE turn' = ReadFor(turn, "hookPrice")
    /\ UNCHANGED <<serverVars, memoryVars, shown, cmd, untold>>

HookReadFails ==
    /\ turn.pc = "hookRead"
    /\ Fails("read")
    /\ HookEnds
    /\ UNCHANGED <<serverVars, memoryVars, shown, cmd, untold>>

\* No weight: the pour-off is put off to the start of the next turn.
HookSilence ==
    /\ turn.pc = "hookPrice"
    /\ MayBeSilent(turn.pending, turn.window)
    /\ Mark(turn.window)
    /\ HookEnds
    /\ UNCHANGED <<serverVars, holdVars, shown, cmd, untold>>

HookPriced ==
    /\ turn.pc = "hookPrice"
    /\ IF NothingToPour(turn.pending, turn.window)
       THEN HookEnds
       ELSE turn' = [turn EXCEPT !.pc = "hookCommit", !.keep = KeepCount(turn.pending, turn.window)]
    /\ UNCHANGED <<serverVars, memoryVars, shown, cmd, untold>>

\* Mutant: the hook's own pour-off leaves the mark of the one put off.
HookCommitKeepsMark ==
    /\ turn.pc = "hookCommit"
    /\ Commit(turn.keep)
    /\ shown' = IF Archives(turn.keep) THEN FALSE ELSE shown
    /\ HookEnds
    /\ UNCHANGED <<memoryVars, cmd, untold>>

HookCommit ==
    /\ turn.pc = "hookCommit"
    /\ Commit(turn.keep)
    /\ Unmark
    /\ shown' = IF Archives(turn.keep) THEN FALSE ELSE shown
    /\ HookEnds
    /\ UNCHANGED <<holdVars, cmd, untold>>

HookCommitFails ==
    /\ turn.pc = "hookCommit"
    /\ \/ Fails("write") /\ UNCHANGED <<serverVars, since>>
       \/ Fails("lost") /\ Unheard(turn.keep)
    /\ HookEnds
    /\ UNCHANGED <<pourDue, holdVars, shown, cmd, untold>>

---------------------------------------------------------------------------
(* The command lane: compactOpenVikingSession, and before_reset's commit *)

CommandFree == cmd.pc = "idle" /\ (Serial => turn.pc = "idle")

Answer(result) == cmd' = [IdleCommand EXCEPT !.result = result]

StartCompact ==
    /\ CommandFree
    /\ \E kind \in Commands \ {"reset"}, window \in HostWindows :
          cmd' = [IdleCommand EXCEPT !.pc = "read", !.kind = kind, !.window = window,
                                     !.measured = Len(log)]
    /\ UNCHANGED <<serverVars, memoryVars, shown, turn, untold>>

\* Mutant: the host's own compaction does not wait for the last pour-off.
CompactReadBlindly ==
    /\ cmd.pc = "read"
    /\ cmd' = IF cmd.kind = "manual" THEN [cmd EXCEPT !.pc = "commit"]
              ELSE ReadFor(cmd, "price")
    /\ UNCHANGED <<serverVars, memoryVars, shown, turn, untold>>

\* The user's compaction archives everything; the host's own waits for the last
\* pour-off's summary, or prices the tail.
CompactRead ==
    /\ cmd.pc = "read"
    /\ cmd' = IF cmd.kind = "manual" THEN [cmd EXCEPT !.pc = "commit"]
              ELSE IF SummaryPending THEN [cmd EXCEPT !.pc = "prevPoll"]
              ELSE ReadFor(cmd, "price")
    /\ UNCHANGED <<serverVars, memoryVars, shown, turn, untold>>

CompactFails ==
    /\ \/ cmd.pc = "read" /\ Fails("read") /\ UNCHANGED <<serverVars, since>>
       \/ cmd.pc = "commit" /\ Fails("write") /\ UNCHANGED <<serverVars, since>>
       \/ cmd.pc = "commit" /\ Fails("lost") /\ Unheard(cmd.keep)
    /\ Answer("failed")
    /\ UNCHANGED <<pourDue, holdVars, shown, turn, untold>>

\* waitForSummary without a task, as in the hold.
PreviousStands ==
    /\ cmd.pc = "prevPoll"
    /\ \/ ~SummaryPending /\ Answer("compacted")
       \/ Fails("poll") /\ Answer("presumed")
    /\ UNCHANGED <<serverVars, memoryVars, shown, turn, untold>>

PreviousWaits ==
    /\ cmd.pc = "prevPoll"
    /\ SummaryPending
    /\ IF cmd.polls < WaitPolls
       THEN cmd' = [cmd EXCEPT !.polls = @ + 1]
       ELSE Answer("failed")
    /\ UNCHANGED <<serverVars, memoryVars, shown, turn, untold>>

CompactSilence ==
    /\ cmd.pc = "price"
    /\ MayBeSilent(cmd.pending, cmd.window)
    /\ Answer("failed")
    /\ UNCHANGED <<serverVars, memoryVars, shown, turn, untold>>

CompactPriced ==
    /\ cmd.pc = "price"
    /\ IF NothingToPour(cmd.pending, cmd.window)
       THEN Answer("unchanged")
       ELSE cmd' = [cmd EXCEPT !.pc = "commit", !.keep = KeepCount(cmd.pending, cmd.window)]
    /\ UNCHANGED <<serverVars, memoryVars, shown, turn, untold>>

CompactCommit ==
    /\ cmd.pc = "commit"
    /\ Unheard(cmd.keep)
    /\ IF Archives(cmd.keep)
       THEN cmd' = [IdleCommand EXCEPT !.pc = "askSession", !.kind = cmd.kind,
                                       !.archive = Len(ends) + 1]
       ELSE Answer("unchanged")
    /\ UNCHANGED <<pourDue, holdVars, shown, turn, untold>>

\* Mutant: a question that failed is taken for an answer although there is a task to ask.
AskSessionPresumes ==
    /\ cmd.pc = "askSession"
    /\ \/ (~SummaryPending \/ Fails("poll")) /\ Answer("compacted")
       \/ SummaryPending /\ cmd' = [cmd EXCEPT !.pc = "askTask"]
    /\ UNCHANGED <<serverVars, memoryVars, shown, turn, untold>>

\* waitForSummary with the task: the session is asked first, then the task.
AskSession ==
    /\ cmd.pc = "askSession"
    /\ \/ ServerCounts /\ Waiting = {} /\ Answer("compacted")
       \/ /\ SummaryPending \/ ~ServerCounts \/ Fails("poll")
          /\ cmd' = [cmd EXCEPT !.pc = "askTask"]
    /\ UNCHANGED <<serverVars, memoryVars, shown, turn, untold>>

AskTask ==
    /\ cmd.pc = "askTask"
    /\ \E status \in TaskStatuses(cmd.archive) \cup (IF Fails("poll") THEN {"unknown"} ELSE {}) :
          \/ status = "failed" /\ Answer("failed")
          \/ status = "completed" /\ Answer("compacted")
          \/ /\ status \in {"running", "unknown"}
             /\ IF cmd.polls < WaitPolls
                THEN cmd' = [cmd EXCEPT !.pc = "askSession", !.polls = @ + 1]
                ELSE Answer("failed")
    /\ UNCHANGED <<serverVars, memoryVars, shown, turn, untold>>

\* commitOpenVikingSession: everything is archived before the host resets.
Reset ==
    /\ CommandFree
    /\ "reset" \in Commands
    /\ Unheard(0)
    /\ UNCHANGED <<pourDue, holdVars, shown, turn, cmd, untold>>

---------------------------------------------------------------------------
(* Around the plugin *)

LanesFree == Serial => turn.pc = "idle" /\ cmd.pc = "idle"

\* The host's queue records a message of a closed turn; it names no window, so
\* nothing is poured (see TurnRecording for the whole path).
QueueRecords ==
    /\ LanesFree
    /\ Len(log) < MaxMessages
    /\ \E role \in Roles : Record(role)
    /\ UNCHANGED <<memoryVars, shown, turn, cmd, untold>>

ServerWrites ==
    /\ \/ WriteSummary("stands")
       \/ Fails("summary") /\ WriteSummary("failed")
    /\ UNCHANGED <<memoryVars, shown, turn, cmd, untold>>

\* The gateway restarts: the plugin's memory and the host's picture are gone.
Restart ==
    /\ Fails("restart")
    /\ Unmark
    /\ givenUp' = FALSE
    /\ gaveUpOn' = {}
    /\ shown' = FALSE
    /\ turn' = IdleTurn
    /\ cmd' = IdleCommand
    /\ untold' = 0
    /\ UNCHANGED serverVars

Init ==
    /\ ServerInit
    /\ pourDue = NoMark
    /\ givenUp = FALSE
    /\ gaveUpOn = {}
    /\ since = NothingSince
    /\ shown = FALSE
    /\ turn = IdleTurn
    /\ cmd = IdleCommand
    /\ untold = 0

AssembleStep ==
    \/ SettleRead \/ SettleReadFails \/ SettleSilence \/ SettlePriced
    \/ SettleCommit \/ SettleCommitFails
    \/ NothingWaits \/ HoldSkipped \/ HoldStarts \/ ContextReadFails
    \/ HoldStands \/ HoldWaits \/ HoldGivesUp \/ HoldReread \/ HoldRereadFails

HookStep ==
    \/ HookRecords \/ HookRecordFails \/ HookRead \/ HookReadFails
    \/ HookSilence \/ HookPriced \/ HookCommit \/ HookCommitFails

CompactStep ==
    \/ CompactRead \/ CompactFails \/ PreviousStands \/ PreviousWaits
    \/ CompactSilence \/ CompactPriced \/ CompactCommit \/ AskSession \/ AskTask

Next ==
    \/ StartAssemble \/ AssembleStep
    \/ StartHook \/ HookStep
    \/ StartCompact \/ CompactStep \/ Reset
    \/ QueueRecords \/ ServerWrites \/ Restart

Spec == Init /\ [][Next]_vars

\* Every call of the plugin goes on by itself: its awaits return, its deadlines pass.
Fairness == WF_vars(AssembleStep) /\ WF_vars(HookStep) /\ WF_vars(CompactStep)

FairSpec == Spec /\ Fairness

---------------------------------------------------------------------------
(* Properties *)

TurnStates ==
    [pc : TurnSteps, due : Nat \cup {NoMark}, window : Nat \cup {NoWindow},
     todo : Seq(Roles), pending : Seq(Roles), keep : Nat, polls : Nat, facts : BOOLEAN,
     measured : Nat, seen : Nat, archives : Nat]

CommandStates ==
    [pc : CommandSteps, kind : {"budget", "manual"}, window : Nat \cup {NoWindow},
     pending : Seq(Roles), keep : Nat, polls : Nat, archive : Nat, result : Results,
     measured : Nat, seen : Nat, archives : Nat]

TypeOK ==
    /\ ServerTypeOK
    /\ pourDue \in Nat \cup {NoMark}
    /\ givenUp \in BOOLEAN
    /\ gaveUpOn \subseteq Nat
    /\ since \in [archives : Nat, elsewhere : Nat, measured : Nat]
    /\ shown \in BOOLEAN
    /\ untold \in Nat
    /\ turn \in TurnStates
    /\ cmd \in CommandStates

\* Between turns the host shows no compaction: every start has had its end
\* ("One announcement for the whole wait: a start here, an end once the summary
\* stood (holdForSummary) or the wait is over", settleWindow).
NothingShownBetweenTurns == turn.pc = "idle" => ~shown

\* A pour-off made is told to the host by the time the turn goes on: the end
\* "carries `compacted` and `tokensAfter` when a pour-off was made", and never
\* more often than one was made.
EveryPourOffIsTold == untold \in {0, 1} /\ (turn.pc = "idle" => untold = 0)

\* The commits decided by weight, that make an archive: of the hook and of the held
\* turn, and of the host's own compaction.
TurnPours == ends' # ends /\ turn.pc \in {"hookCommit", "settleCommit"} /\ turn'.pc # turn.pc
CommandPours == ends' # ends /\ cmd.pc = "commit" /\ cmd'.pc # "commit" /\ cmd.kind = "budget"

\* What a lane weighed the tail by: the held turn's mark, the hook's number.
TurnWindow == IF turn.due # NoMark THEN turn.due ELSE turn.window

\* No archive is queued behind one whose summary was not written when the lane read the
\* context: the session's count is looked at before every pour-off ("Pouring again now
\* would only queue another archive").  What another lane archived since it does not see.
QueuedBehindNone(lane) == SummaryPending => \A a \in Waiting : a > lane.archives

NoArchiveQueuedBehindAnother ==
    [][/\ TurnPours => QueuedBehindNone(turn)
       /\ CommandPours => QueuedBehindNone(cmd)]_vars

\* What stays live after a pour-off is not shorter than the floor, and opens with a
\* user's message when nothing was recorded since the context was read ("a call is not
\* torn from its answer"; "Never fewer messages than this stay live").
KeptWhole(lane) ==
    /\ Len(Live') >= KeepFloor
    /\ Live' # <<>> /\ Len(log) = lane.seen => Head(Live') = "user"

KeepsWholeTurns == (TurnPours => KeptWhole(turn)) /\ (CommandPours => KeptWhole(cmd))

KeptTailIsWholeTurns == [][KeepsWholeTurns]_vars

\* A pour-off put off is made once: no archive the turn lane made itself and heard of
\* stands between the mark and the held turn's pour-off (pourDue.delete after each).
PutOffPourIsTheFirst ==
    turn.pc = "settleCommit" /\ ends' # ends => Len(ends) = since.archives + since.elsewhere

PutOffPourIsMadeOnce == [][PutOffPourIsTheFirst]_vars

\* "Poured meanwhile by another path of the host: nothing is due" (settleWindow): the
\* held turn pours nothing off when any archive was made since the mark.
NothingIsDueAfterAnother ==
    [][turn.pc = "settleCommit" /\ ends' # ends => Len(ends) = since.archives]_vars

\* What stays live weighs no more than K, and fits under X with the constant part of the
\* window, unless it is the shortest tail the floor allows ("never more than fits under
\* pourOffAtTokens with the rest of the window").  The window's number is of the last
\* request: messages recorded after it are taken for its constant part's, so X may be
\* exceeded by as many and by no more.
FitsUnderX(lane, window) ==
    \/ /\ Len(Live') <= KeepTokens
       /\ window # NoWindow => Base + Len(Live') <= PourAt + (lane.seen - lane.measured)
    \/ \A s \in EligibleStarts(lane.pending, KeepFloor) : s <= Len(lane.pending) - Len(Live')

TailFitsUnderX ==
    (TurnPours => FitsUnderX(turn, TurnWindow)) /\ (CommandPours => FitsUnderX(cmd, cmd.window))

KeptTailFitsUnderX == [][TailFitsUnderX]_vars

\* A turn goes on raw beside a pending summary only when a hold has run out for
\* that summary: "Waited once per pending summary" (holdForSummarySeconds).
HoldWaitedOncePerSummary ==
    [][turn.pc = "contextRead" /\ turn'.pc = "idle" /\ SummaryPending /\ HoldPolls > 0
          => gaveUpOn \cap Waiting # {}]_vars

\* The host is told that its compaction has compacted only when the summary of the
\* archive it made is no longer being written: it stands, or the server's count is nought
\* and so is no archive's summary being written, be it for a failure.  A question that
\* failed is taken for an answer only about a pour-off made before (waitForSummary).
CompactedIsTrue ==
    cmd.pc # "idle" =>
        /\ cmd'.result = "compacted" =>
              \/ Waiting = {} /\ (cmd.archive # 0 => ServerCounts)
              \/ cmd.archive \in 1 .. Len(verdicts) /\ verdicts[cmd.archive] = "stands"
        /\ cmd'.result = "presumed" => cmd.archive = 0

CompactedMeansSummaryIsOver == [][CompactedIsTrue]_vars

\* A held turn goes on: whatever the server and the handle do, its call returns.
HeldTurnGoesOn == turn.pc # "idle" ~> turn.pc = "idle"

\* A pour-off put off is not put off for good: "The next turn is held at its start
\* until the pour-off is made" (pourDue), and no mark stays that holds every turn.
PutOffPourIsMade == pourDue # NoMark ~> pourDue = NoMark

\* The host's compaction returns, whatever the server says and never says.
CompactionIsAnswered == cmd.pc # "idle" ~> cmd.pc = "idle"
===========================================================================
