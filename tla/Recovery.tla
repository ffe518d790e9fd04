------------------------------ MODULE Recovery ------------------------------
(***************************************************************************)
(* The window when the server has no fresh summary to give:                *)
(* assembleWithoutFreshSummary, findLastClosedArchive and                  *)
(* boundaryBeforeArchiveEnd.  The summary of the last archive the server   *)
(* hands out is sent with what the host's transcript has after it.         *)
(*                                                                         *)
(* Where that archive ends is told by moments alone: every message is      *)
(* stored under the moment of its batch's last message, and the transcript *)
(* knows the moment of each message, or does not.                          *)
(***************************************************************************)
EXTENDS TailByWeight, FiniteSets

CONSTANTS
    Conversations,   \* what may have been said: batch, moment and role of each message
    Archives,        \* where each of the archives may end
    Probes,          \* RECOVERY_ARCHIVE_PROBES
    Floor,           \* keepRecentFloor
    KeepTokens       \* K; a message weighs one

\* The message opens a batch.
Opens(c, i) == i = 1 \/ c[i - 1].batch # c[i].batch

\* Batches are recorded one after another: a message that opens none, if it has a moment,
\* is no older than what stands before it.  The one that opens a batch is a user's, and
\* its moment may be the host's, an earlier one.  No moment is written as 0.
IsConversation(c) ==
    /\ c \in Seq([batch : Nat, moment : Nat, role : Roles])
    /\ \A i, j \in DOMAIN c : i <= j => c[i].batch <= c[j].batch
    /\ \A i, j \in DOMAIN c :
          i < j /\ ~Opens(c, j) /\ c[j].moment # 0 => c[i].moment <= c[j].moment

ASSUME RecoveryConstants ==
    /\ \A c \in Conversations : IsConversation(c)
    /\ \A e \in Archives : e \in Seq(Nat)
    /\ Probes \in Nat \ {0} /\ Floor \in Nat /\ KeepTokens \in Nat

VARIABLES
    said,      \* the conversation, as it is on the server
    timed,     \* the messages whose moment the host's transcript still has
    ends,      \* ends[n]: how many messages the archives 1 .. n hold
    fate,      \* what has become of each archive's summary
    search,    \* where the search stands: the archive asked for next, and the one found
    sent       \* the first message sent of the transcript, and how many were dropped

recoveryVars == <<said, timed, ends, fate, search, sent>>

\* "failed": the server answers NOT_FOUND, as for a pending one, or with no overview.
Fates == {"pending", "failed", "closed"}

N == Len(said)

NotSent == [from |-> 0, dropped |-> 0]

\* pickLatestCreatedAt: the moment of the batch's last message that has one.
Stamp(i) ==
    LET batch == {j \in 1 .. N : said[j].batch = said[i].batch /\ said[j].moment # 0}
    IN  IF batch = {} THEN 0
        ELSE said[CHOOSE j \in batch : \A k \in batch : k <= j].moment

\* turnStamps: the moments of an archive's messages, each once.
Stamps(archive) ==
    LET start == IF archive = 1 THEN 0 ELSE ends[archive - 1]
    IN  {Stamp(i) : i \in start + 1 .. ends[archive]} \ {0}

\* placeOf: the first message of the transcript at a moment.
Places(moment) == {i \in 1 .. N : i \in timed /\ said[i].moment = moment}

\* Mutant: the turn the archive ends in counts too.
BoundaryAtArchiveEnd(archive) ==
    LET known == {m \in Stamps(archive) : Places(m) # {}}
    IN  IF known = {} THEN 0
        ELSE LET m == CHOOSE m \in known : \A k \in known : k <= m
             IN  CHOOSE i \in Places(m) : \A j \in Places(m) : i <= j

\* boundaryBeforeArchiveEnd: the latest turn before the archive's last one that the
\* transcript knows; 0 when there is none, and the tail is everything.
Boundary(archive) ==
    LET stamps == Stamps(archive)
        before == {m \in stamps : \E k \in stamps : m < k}
        known == {m \in before : Places(m) # {}}
    IN  IF known = {} THEN 0
        ELSE LET m == CHOOSE m \in known : \A k \in known : k <= m
             IN  CHOOSE i \in Places(m) : \A j \in Places(m) : i <= j

---------------------------------------------------------------------------

\* No message of another batch is of the same moment.
Alone(i) == \A j \in 1 .. N : said[j].moment = said[i].moment => said[j].batch = said[i].batch

\* The transcript may have lost a moment, but not one that two batches share: a message
\* of the one would stand for the other, and the comment in the code sees no such case.
RecoveryInit ==
    /\ said \in Conversations
    /\ timed \in {1 .. N} \cup {(1 .. N) \ {i} : i \in {i \in 1 .. N : Alone(i)}}
    /\ ends \in {e \in Archives : \A n \in DOMAIN e : e[n] <= N}
    /\ fate = [n \in DOMAIN ends |-> "pending"]
    /\ search = [pc |-> "idle", ask |-> 0, found |-> 0]
    /\ sent = NotSent

\* The server writes the oldest summary waiting, or fails at it.
SummaryEnds ==
    \E n \in DOMAIN fate, f \in Fates \ {"pending"} :
        /\ fate[n] = "pending"
        /\ \A k \in 1 .. n - 1 : fate[k] # "pending"
        /\ fate' = [fate EXCEPT ![n] = f]
        /\ UNCHANGED <<said, timed, ends, search, sent>>

\* At most the floor, or under K by the handle: the transcript goes as it is.
PassesThrough(priced) == N <= Floor \/ (priced /\ N <= KeepTokens)

\* Nothing fresh: how many archives there are may be unknown too.
Recover(priced, counted) ==
    /\ search.pc = "idle"
    /\ IF PassesThrough(priced)
       THEN /\ search' = [search EXCEPT !.pc = "sent"]
            /\ sent' = [from |-> 1, dropped |-> 0]
       ELSE /\ search' = [pc |-> IF counted THEN "ask" ELSE "cut",
                          ask |-> Len(ends), found |-> 0]
            /\ UNCHANGED sent
    /\ UNCHANGED <<said, timed, ends, fate>>

\* getSessionArchive, from the newest back.
Ask ==
    /\ search.pc = "ask"
    /\ LET n == search.ask
           oldest == IF Len(ends) > Probes THEN Len(ends) - Probes + 1 ELSE 1
       IN  search' = IF n < oldest THEN [search EXCEPT !.pc = "cut"]
                     ELSE IF fate[n] = "closed" THEN [search EXCEPT !.pc = "cut", !.found = n]
                     ELSE [search EXCEPT !.ask = n - 1]
    /\ UNCHANGED <<said, timed, ends, fate, sent>>

\* Any other trouble ends the search.
AskFails ==
    /\ search.pc = "ask"
    /\ search' = [search EXCEPT !.pc = "cut"]
    /\ UNCHANGED <<said, timed, ends, fate, sent>>

\* tailByWeight over the transcript after the boundary, by the handle's weights or by
\* the floor when it is silent; with no summary before it the tail opens with a user's.
Cut(priced) ==
    LET boundary == IF search.found = 0 THEN 0 ELSE Boundary(search.found)
        roles == [i \in 1 .. N - boundary |-> said[boundary + i].role]
        eligible == EligibleStarts(roles, Floor)
        weight == [s \in 0 .. Len(roles) |-> Len(roles) - s]
        start == IF priced THEN LongestWithin(eligible, weight, KeepTokens) ELSE FloorTail(eligible)
        kept == boundary + (IF start = NoTail THEN 0 ELSE start) + 1
        users == {i \in kept .. N : said[i].role = "user"}
        from == IF search.found # 0 THEN kept
                ELSE IF users = {} THEN N + 1
                ELSE CHOOSE i \in users : \A j \in users : i <= j
    IN  /\ search.pc = "cut"
        /\ search' = [search EXCEPT !.pc = "sent"]
        /\ sent' = [from |-> from, dropped |-> from - boundary - 1]
        /\ UNCHANGED <<said, timed, ends, fate>>

RecoveryNext ==
    \/ SummaryEnds
    \/ \E priced, counted \in BOOLEAN : Recover(priced, counted)
    \/ Ask \/ AskFails
    \/ \E priced \in BOOLEAN : Cut(priced)

RecoverySpec == RecoveryInit /\ [][RecoveryNext]_recoveryVars

---------------------------------------------------------------------------

\* Whatever the archive ends in the middle of, and whichever moments the transcript lost
\* or has twice, a message that is not sent is in the summary sent, or was dropped for its
\* weight and counted: "an overlap with the summary costs tokens, a gap costs the thread
\* of the conversation" (context-lifecycle-service.ts).
NothingFallsBetween ==
    search.pc = "sent" =>
        sent.from - sent.dropped - 1 <= (IF search.found = 0 THEN 0 ELSE ends[search.found])
===========================================================================
