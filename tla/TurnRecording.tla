-------------------------- MODULE TurnRecording --------------------------
(***************************************************************************)
(* How a turn of the host gets onto the server: context-engine.ts          *)
(* (claimTurn, afterTurn, commitTurn) and the recording half of            *)
(* afterTurnOpenVikingSession.                                             *)
(*                                                                         *)
(* Two paths bring the same turn.  The hook comes before each call of the  *)
(* model and brings what is new in the transcript: the question first,     *)
(* later the results of each round of calls, never the answer.  The host's *)
(* durable queue brings the closed turn whole, and brings it again when    *)
(* the first answer did not reach the host.  The queue's path skips the    *)
(* beginning of the turn that stands at the end of the server's messages   *)
(* already; claims, kept in the process, stop what was brought before.     *)
(*                                                                         *)
(* Two messages compare equal when their role and text do, or the ids of   *)
(* their calls: a question or an answer may repeat, a call's id may not.   *)
(***************************************************************************)
EXTENDS Integers, Sequences, FiniteSets

CONSTANTS
    Texts,       \* what a user may ask
    MaxTurns,    \* bound: turns in a behaviour
    MaxRounds,   \* bound: rounds of calls in a turn
    ClaimLimit,  \* CLAIMED_TURNS_PER_SESSION
    HostWaits,   \* whether the host starts a turn only when its queue is empty
    Faults       \* what may happen: "read", "write", "lost", "unheard", "impatient",
                 \* "restart", "pour", "compact"

\* Assumed where this module is instantiated.
TurnRecordingConstants ==
    /\ MaxTurns \in Nat
    /\ MaxRounds \in Nat
    /\ ClaimLimit \in Nat \ {0}
    /\ HostWaits \in BOOLEAN

Turns == 1 .. MaxTurns

VARIABLES
    script,   \* what each turn is: its question, its rounds of calls
    begun,    \* how many turns have begun
    open,     \* the open turn's number, 0 between turns
    hooked,   \* how many of the open turn's messages the hook has brought
    hook,     \* whether the hook's recording is under way
    queue,    \* the closed turns the host has no answer for, oldest first
    settled,  \* the turns the host has its answer for
    call,     \* the call of commitTurn under way
    claims,   \* claimedTurns of the session, oldest first
    stored,   \* every message recorded, with the turn and place it came from
    from      \* how many of them the server no longer hands out

pluginVars == <<hook, call, claims>>
hostVars == <<script, begun, open, hooked, queue, settled>>
serverVars == <<stored, from>>
vars == <<pluginVars, hostVars, serverVars>>

Roles == {"user", "tool", "assistant"}

\* The messages of a turn as recordedMessageKey tells them apart.
Messages(t) ==
    <<<<"user", script[t].question>>>>
        \o [i \in 1 .. script[t].rounds |-> <<"tool", t, i>>]
        \o <<<<"assistant", "done">>>>

\* What the hook ever sees of a turn.
HookedLength(t) == 1 + script[t].rounds

IdleCall == [pc |-> "idle", turn |-> 0, next |-> 0]

Fails(what) == what \in Faults

---------------------------------------------------------------------------
(* The plugin's memory and the server *)

\* claimTurn, for a key not seen: the oldest claim goes when there are too many.
Claimed(seen, key) ==
    LET more == Append(seen, key)
    IN  IF Len(more) > ClaimLimit THEN Tail(more) ELSE more

Has(seen, key) == \E i \in 1 .. Len(seen) : seen[i] = key

\* The keys: turnFingerprint of the hook's messages, of the queue's, and the
\* advancementKey.  A fingerprint tells the two paths apart: their boundaries differ.
HookKey(t, place) == <<"hook", t, place>>
QueueKey(t) == <<"queue", t, 0>>
AdvancementKey(t) == <<"advancement", t, 0>>

\* addSessionMessage.
Store(t, place) ==
    stored' = Append(stored, [turn |-> t, place |-> place, key |-> Messages(t)[place]])

\* getSessionContext's messages.
ServerTail == SubSeq(stored, from + 1, Len(stored))

\* recordedPrefixLength: the longest beginning of the turn the server's tail ends with.
EndsWithPrefix(tail, mine, k) ==
    \A i \in 1 .. k : tail[Len(tail) - k + i].key = mine[i]

\* Mutant: a message counts as recorded wherever it stands.
RecordedAnywhere(mine, tail) ==
    CHOOSE k \in 0 .. Len(mine) :
        /\ \A i \in 1 .. k : \E j \in 1 .. Len(tail) : tail[j].key = mine[i]
        /\ k < Len(mine) => \A j \in 1 .. Len(tail) : tail[j].key # mine[k + 1]

RecordedPrefixLength(mine, tail) ==
    CHOOSE k \in 0 .. Len(mine) :
        /\ k <= Len(tail) /\ EndsWithPrefix(tail, mine, k)
        /\ \A j \in k + 1 .. Len(mine) : j <= Len(tail) => ~EndsWithPrefix(tail, mine, j)

---------------------------------------------------------------------------
(* The host's turn and the hook *)

BeginTurn ==
    /\ open = 0
    /\ begun < MaxTurns
    /\ HostWaits => queue = <<>> /\ call.pc = "idle"
    /\ begun' = begun + 1
    /\ open' = begun'
    /\ hooked' = 0
    /\ UNCHANGED <<script, queue, settled, pluginVars, serverVars>>

\* The hook brings the next message; the claim comes before the recording.  What it brings
\* ends where the host's loop is, and no two of its fingerprints are alike: claimTurn is
\* never false here.
HookCalled ==
    /\ open # 0 /\ ~hook
    /\ hooked < HookedLength(open)
    /\ hooked' = hooked + 1
    /\ claims' = Claimed(claims, HookKey(open, hooked'))
    /\ hook' = TRUE
    /\ UNCHANGED <<script, begun, open, queue, settled, call, serverVars>>

HookRecords ==
    /\ hook
    /\ Store(open, hooked)
    /\ hook' = FALSE
    /\ UNCHANGED <<hostVars, call, claims, from>>

\* Whatever fails is logged and swallowed.
HookRecordFails ==
    /\ hook
    /\ \/ Fails("write") /\ UNCHANGED stored
       \/ Fails("lost") /\ Store(open, hooked)
    /\ hook' = FALSE
    /\ UNCHANGED <<hostVars, call, claims, from>>

\* The model has answered: the turn is closed and goes to the queue.
CloseTurn ==
    /\ open # 0 /\ ~hook
    /\ hooked = HookedLength(open)
    /\ queue' = Append(queue, open)
    /\ open' = 0
    /\ hooked' = 0
    /\ UNCHANGED <<script, begun, settled, pluginVars, serverVars>>

---------------------------------------------------------------------------
(* The queue: commitTurn *)

\* The host's queue goes from its head: a turn answered once is not there any more.
Without(turns, t) ==
    IF turns # <<>> /\ Head(turns) = t THEN Tail(turns) ELSE turns

\* The host has its answer, or does not hear it and will bring the turn again.
Answered(t) ==
    \/ /\ queue' = Without(queue, t)
       /\ settled' = settled \cup {t}
    \/ /\ Fails("unheard")
       /\ UNCHANGED <<queue, settled>>

\* Brought before by this key, or recorded before by this content: "duplicate".
IsDuplicate(t) ==
    \/ Has(claims, AdvancementKey(t))
    \/ Has(Claimed(claims, AdvancementKey(t)), QueueKey(t))

\* Mutant: a duplicate is not answered.
CommitDuplicateUnanswered ==
    /\ queue # <<>>
    /\ IsDuplicate(Head(queue))
    /\ UNCHANGED vars

CommitDuplicate ==
    /\ queue # <<>>
    /\ call.pc = "idle" \/ Fails("impatient")
    /\ LET key == AdvancementKey(Head(queue))
       IN  /\ IsDuplicate(Head(queue))
           /\ claims' = IF Has(claims, key) THEN claims ELSE Claimed(claims, key)
           /\ Answered(Head(queue))
    /\ UNCHANGED <<script, begun, open, hooked, hook, call, serverVars>>

CommitStarts ==
    /\ queue # <<>>
    /\ call.pc = "idle"
    /\ LET t == Head(queue)
           withKey == Claimed(claims, AdvancementKey(t))
       IN  /\ ~IsDuplicate(t)
           /\ claims' = Claimed(withKey, QueueKey(t))
           /\ call' = [IdleCall EXCEPT !.pc = "read", !.turn = t]
    /\ UNCHANGED <<hostVars, hook, serverVars>>

\* After the messages to skip: the first one to record, or the turn is recorded.
RecordFrom(place) ==
    IF place > Len(Messages(call.turn))
    THEN /\ call' = IdleCall
         /\ Answered(call.turn)
    ELSE /\ call' = [call EXCEPT !.pc = "write", !.next = place]
         /\ UNCHANGED <<queue, settled>>

\* Mutants: the turn is always recorded whole; what was recorded last is recorded
\* again; one message too many is skipped.
CommitReadsNothing ==
    /\ call.pc = "read"
    /\ RecordFrom(1)
    /\ UNCHANGED <<script, begun, open, hooked, hook, claims, serverVars>>

CommitRepeatsTheLast ==
    LET skipped == RecordedPrefixLength(Messages(call.turn), ServerTail)
    IN  /\ call.pc = "read"
        /\ RecordFrom(IF skipped = 0 THEN 1 ELSE skipped)
        /\ UNCHANGED <<script, begun, open, hooked, hook, claims, serverVars>>

CommitSkipsOneMore ==
    /\ call.pc = "read"
    /\ RecordFrom(RecordedPrefixLength(Messages(call.turn), ServerTail) + 2)
    /\ UNCHANGED <<script, begun, open, hooked, hook, claims, serverVars>>

CommitReads ==
    /\ call.pc = "read"
    /\ RecordFrom(RecordedPrefixLength(Messages(call.turn), ServerTail) + 1)
    /\ UNCHANGED <<script, begun, open, hooked, hook, claims, serverVars>>

\* No tail: the turn is recorded whole, "a repeat costs less than a loss".
CommitReadFails ==
    /\ call.pc = "read"
    /\ Fails("read")
    /\ RecordFrom(1)
    /\ UNCHANGED <<script, begun, open, hooked, hook, claims, serverVars>>

CommitRecords ==
    /\ call.pc = "write"
    /\ Store(call.turn, call.next)
    /\ RecordFrom(call.next + 1)
    /\ UNCHANGED <<script, begun, open, hooked, hook, claims, from>>

\* The exception is swallowed and commitTurn answers "committed" all the same.
CommitRecordFails ==
    /\ call.pc = "write"
    /\ \/ Fails("write") /\ UNCHANGED stored
       \/ Fails("lost") /\ Store(call.turn, call.next)
    /\ call' = IdleCall
    /\ Answered(call.turn)
    /\ UNCHANGED <<script, begun, open, hooked, hook, claims, from>>

---------------------------------------------------------------------------
(* Around the recording *)

\* A pour-off whose summary stands: the tail starts at a user's message (PourOff).
PourOffStands ==
    /\ Fails("pour")
    /\ \E s \in from + 1 .. Len(stored) - 1 :
          /\ stored[s + 1].key[1] = "user"
          /\ from' = s
    /\ UNCHANGED <<pluginVars, hostVars, stored>>

\* The user's compaction or a reset: nothing stays.
CompactionStands ==
    /\ Fails("compact")
    /\ from < Len(stored)
    /\ from' = Len(stored)
    /\ UNCHANGED <<pluginVars, hostVars, stored>>

\* The gateway restarts: the queue is durable, the claims and the open turn are not.
Restart ==
    /\ Fails("restart")
    /\ hook' = FALSE
    /\ call' = IdleCall
    /\ claims' = <<>>
    /\ open' = 0
    /\ hooked' = 0
    /\ UNCHANGED <<script, begun, queue, settled, serverVars>>

Init ==
    /\ script \in [Turns -> [question : Texts, rounds : 0 .. MaxRounds]]
    /\ begun = 0 /\ open = 0 /\ hooked = 0
    /\ hook = FALSE
    /\ queue = <<>>
    /\ settled = {}
    /\ call = IdleCall
    /\ claims = <<>>
    /\ stored = <<>>
    /\ from = 0

CommitStep ==
    \/ CommitDuplicate \/ CommitStarts \/ CommitReads \/ CommitReadFails
    \/ CommitRecords \/ CommitRecordFails

Next ==
    \/ BeginTurn \/ HookCalled \/ HookRecords \/ HookRecordFails \/ CloseTurn
    \/ CommitStep
    \/ PourOffStands \/ CompactionStands \/ Restart

Spec == Init /\ [][Next]_vars

\* The queue is durable: it brings a turn until it is answered, and hears in the end.
FairSpec ==
    /\ Spec
    /\ WF_vars(CommitStep)
    /\ SF_vars(CommitStep /\ settled' # settled)

---------------------------------------------------------------------------
(* Properties *)

TypeOK ==
    /\ script \in [Turns -> [question : Texts, rounds : 0 .. MaxRounds]]
    /\ begun \in 0 .. MaxTurns
    /\ open \in 0 .. begun
    /\ hooked \in 0 .. MaxRounds + 1
    /\ hook \in BOOLEAN
    /\ queue \in Seq(1 .. begun)
    /\ settled \subseteq 1 .. begun
    /\ call \in [pc : {"idle", "read", "write"}, turn : 0 .. begun, next : 0 .. MaxRounds + 2]
    /\ Len(claims) <= ClaimLimit
    /\ from \in 0 .. Len(stored)

\* A message of a turn stands on the server once, whichever paths brought it and how
\* often: "a restart or a replayed commit does not double it either".
EachMessageOnce ==
    \A i, j \in 1 .. Len(stored) :
        stored[i].turn = stored[j].turn /\ stored[i].place = stored[j].place => i = j

\* The session reads as the conversation went: the two paths do not tear a turn.
StoredInOrder ==
    \A i, j \in 1 .. Len(stored) :
        i < j => \/ stored[i].turn < stored[j].turn
                 \/ stored[i].turn = stored[j].turn /\ stored[i].place <= stored[j].place

IsStored(t, place) ==
    \E i \in 1 .. Len(stored) : stored[i].turn = t /\ stored[i].place = place

\* A turn the host has its answer for is on the server whole, or is being recorded:
\* an answered turn is never brought again (atomic-idempotent-v1).
SettledTurnsAreWhole ==
    \A t \in settled :
        call.turn # t => \A place \in 1 .. Len(Messages(t)) : IsStored(t, place)

\* The queue skips what is this turn's own: "an earlier identical message is not a
\* repeat".
SkipsItsOwn ==
    CommitReads =>
        \A place \in 1 .. (IF call'.pc = "write" THEN call'.next - 1
                                                 ELSE Len(Messages(call.turn))) :
            IsStored(call.turn, place)

SkippedIsOwn == [][SkipsItsOwn]_vars

\* A closed turn does not stay in the queue for good.
ClosedTurnIsSettled == \A t \in Turns : (\E i \in 1 .. Len(queue) : queue[i] = t) ~> t \in settled
===========================================================================
