--------------------------- MODULE VikingServer ---------------------------
(***************************************************************************)
(* One session as the OpenViking server keeps it, seen through the calls   *)
(* the plugin makes: messages recorded in order, archives that each take   *)
(* the oldest live messages, and a summary written for each archive in the *)
(* background, one after another.  Until an archive's summary stands its   *)
(* messages are handed out raw beside the live ones.                       *)
(*                                                                         *)
(* External: the server is another program; this is what the plugin and    *)
(* its tests take it to do.                                                *)
(***************************************************************************)
EXTENDS TailByWeight

CONSTANT
    ServerCounts  \* whether the server tells unsummarized archives (image .3 on)

ASSUME ServerCountsIsBoolean == ServerCounts \in BOOLEAN

VARIABLES
    log,       \* every message recorded, oldest first
    ends,      \* ends[i]: how many messages archives 1 .. i hold together
    verdicts   \* how the summaries written so far ended, in archive order

serverVars == <<log, ends, verdicts>>

Verdicts == {"stands", "failed"}

EndOf(n) == IF n = 0 THEN 0 ELSE ends[n]

Archived == EndOf(Len(ends))

\* The messages no archive has taken.
Live == SubSeq(log, Archived + 1, Len(log))

\* The archives whose summary is still being written.
Waiting == Len(verdicts) + 1 .. Len(ends)

\* getSessionContext: the raw messages of the waiting archives and the live ones.
HandedOut == SubSeq(log, EndOf(Len(verdicts)) + 1, Len(log))

\* stats.unsummarizedArchives of the context, unsummarized_archives of the session.
SummaryPending == ServerCounts /\ Waiting # {}

ServerTypeOK ==
    /\ log \in Seq(Roles)
    /\ ends \in Seq(1 .. Len(log))
    /\ \A i, j \in 1 .. Len(ends) : i < j => ends[i] < ends[j]
    /\ verdicts \in Seq(Verdicts)
    /\ Len(verdicts) <= Len(ends)

ServerInit == log = <<>> /\ ends = <<>> /\ verdicts = <<>>

\* addSessionMessage.
Record(role) ==
    /\ log' = Append(log, role)
    /\ UNCHANGED <<ends, verdicts>>

\* commitSession with keep_recent_count: all but the newest `keep` live messages
\* become an archive; nothing older, nothing archived.
Archives(keep) == Len(Live) > keep

Commit(keep) ==
    /\ ends' = IF Archives(keep) THEN Append(ends, Len(log) - keep) ELSE ends
    /\ UNCHANGED <<log, verdicts>>

\* The background task writes the oldest waiting summary, or fails at it.
WriteSummary(verdict) ==
    /\ Waiting # {}
    /\ verdicts' = Append(verdicts, verdict)
    /\ UNCHANGED <<log, ends>>

\* What getTask may say of an archive's task.  The extraction runs on beside the
\* summary, so a task whose summary stands may still run, or fail.
TaskStatuses(archive) ==
    IF archive > Len(verdicts) THEN {"running"}
    ELSE IF verdicts[archive] = "failed" THEN {"failed"}
    ELSE {"running", "completed", "failed"}
===========================================================================
