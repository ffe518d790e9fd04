----------------------------- MODULE RecallTrace -----------------------------
(***************************************************************************)
(* The traces of recall (recall-trace.ts, openviking-recall-trace-runtime):*)
(* the newest entries in memory, and when the configuration asks for it a  *)
(* file a day, to which an entry is appended in the background after the   *)
(* files past the retention are removed.  A query looks in memory first and*)
(* in the files only when memory has nothing; it waits for the appends it  *)
(* finds pending.  A session has three names, and an entry carries those   *)
(* that were known when it was recorded.  An entry's number is its time:   *)
(* two of one millisecond are not told apart, nor looked for.              *)
(***************************************************************************)
EXTENDS Naturals, Sequences

CONSTANTS Sessions,      \* sessions that recall
          NameSets,      \* the names of a session that an entry can know
          AskedNames,    \* those a query can know
          Queries,       \* queries that may run, each once
          MaxEntries,    \* traceRecallMaxEntries
          MaxRecorded,   \* entries recorded in all
          LastDay,       \* days that pass
          RetentionDays, QueryMaxDays,
          Fails          \* whether an append can fail

NameSet == {"key", "id", "ov"}   \* sessionKey, sessionId, ovSessionId


\* Assumed where this module is instantiated.
RecallTraceConstants ==
    /\ NameSets \cup AskedNames \subseteq SUBSET NameSet \ {{}}
    /\ MaxEntries \in Nat \ {0} /\ MaxRecorded \in Nat /\ LastDay \in Nat
    /\ RetentionDays \in Nat \ {0} /\ QueryMaxDays \in Nat \ {0} /\ Fails \in BOOLEAN

VARIABLES today,
          recorded,   \* the entries, by id: session, names, day
          memory,     \* RecallTraceMemoryStore.entries: ids
          append,     \* the append of each entry: "prune", "write", "done", "failed", "lost"
          pending,    \* RecallTraceJsonlStore.pending
          files,      \* day -> the ids appended to its file
          query,      \* the queries
          promised    \* history: what a query should know of

traceVars == <<today, recorded, memory, append, pending, files, query, promised>>

Ids == 1..MaxRecorded
Known == DOMAIN recorded
QueryPcs == {"idle", "memory", "flush", "files", "done"}
NoQuery == [pc |-> "idle", session |-> CHOOSE s \in Sessions : TRUE, turn |-> "latest",
            names |-> <<>>, waits |-> {}, found |-> {}, fallback |-> FALSE]

TracesInit ==
    /\ today = 0 /\ recorded = <<>> /\ memory = {} /\ append = <<>>
    /\ pending = {} /\ files = [d \in 0..LastDay |-> {}]
    /\ query = [q \in Queries |-> NoQuery] /\ promised = [q \in Queries |-> {}]

(***************************************************************************)
(* record: into memory, of which the oldest go, and the append is begun.   *)
(* What is in memory was recorded one after another, so that its numbers   *)
(* tell how many of it are newer.                                          *)
(***************************************************************************)
Newest(entries, last, n) == {e \in entries : e + n > last}

Record(s, names) ==
    /\ Len(recorded) < MaxRecorded
    /\ recorded' = Append(recorded, [session |-> s, names |-> names, day |-> today])
    /\ memory' = Newest(memory \cup {Len(recorded')}, Len(recorded'), MaxEntries)
    /\ append' = Append(append, "prune")
    /\ pending' = pending \cup {Len(recorded')}
    /\ UNCHANGED <<today, files, query, promised>>

\* The files of days before the retention are removed, reckoned from the entry's own time.
AppendPrunes(e) ==
    /\ append[e] = "prune"
    /\ files' = [d \in DOMAIN files |-> IF d + RetentionDays < recorded[e].day THEN {} ELSE files[d]]
    /\ append' = [append EXCEPT ![e] = "write"]
    /\ UNCHANGED <<today, recorded, memory, pending, query, promised>>

AppendWrites(e) ==
    /\ append[e] = "write"
    /\ \/ /\ files' = [files EXCEPT ![recorded[e].day] = @ \cup {e}]
          /\ append' = [append EXCEPT ![e] = "done"]
       \/ /\ Fails /\ append' = [append EXCEPT ![e] = "failed"]
          /\ UNCHANGED files
    /\ UNCHANGED <<today, recorded, memory, pending, query, promised>>

(***************************************************************************)
(* A query asks for one name of its session: the key, else the id, else the*)
(* server's name (parseRecallTraceInput).  When it asked for the key and   *)
(* nothing was found, the other names are asked for in their order.        *)
(***************************************************************************)
Carries(e, s, name) == recorded[e].session = s /\ name \in recorded[e].names

\* The names asked for, in order.
Order(names) ==
    IF "key" \in names
    THEN <<"key">> \o (IF "id" \in names THEN <<"id">> ELSE <<>>)
                   \o (IF "ov" \in names THEN <<"ov">> ELSE <<>>)
    ELSE IF "id" \in names THEN <<"id">> ELSE <<"ov">>

Asks(q, s, names, turn) ==
    /\ query[q].pc = "idle"
    /\ query' = [query EXCEPT ![q] = [@ EXCEPT !.pc = "memory", !.session = s,
                                      !.turn = turn, !.names = Order(names)]]
    /\ promised' = [promised EXCEPT ![q] =
         {e \in Known : /\ Carries(e, s, Order(names)[1])
                        /\ e \in pending \/ append[e] = "done" \/ e \in memory}]
    /\ UNCHANGED <<today, recorded, memory, append, pending, files>>

\* Of "latest" the newest alone.
Answer(entries, q) ==
    LET own == {e \in entries : Carries(e, query[q].session, Head(query[q].names))}
    IN IF query[q].turn = "latest" THEN {e \in own : \A d \in own : d <= e} ELSE own

\* What has been found ends the query; what has not goes on to the next name or to the end.
Ends(q, found) ==
    LET names == query[q].names
    IN query' = [query EXCEPT ![q] =
           IF found # {} \/ Len(names) = 1
           THEN [@ EXCEPT !.pc = "done", !.found = found, !.waits = {}]
           ELSE [@ EXCEPT !.pc = "memory", !.names = Tail(names), !.waits = {}, !.fallback = TRUE]]

\* Mutant: the appends under way are not waited for.
LooksInMemoryWithoutWaiting(q) ==
    /\ query[q].pc = "memory"
    /\ IF Answer(memory, q) # {}
       THEN Ends(q, Answer(memory, q))
       ELSE query' = [query EXCEPT ![q] = [@ EXCEPT !.pc = "flush", !.waits = {}]]
    /\ UNCHANGED <<today, recorded, memory, append, pending, files, promised>>

\* Memory first; files when it has nothing, after the pending appends taken out of the list.
LooksInMemory(q) ==
    /\ query[q].pc = "memory"
    /\ IF Answer(memory, q) # {}
       THEN Ends(q, Answer(memory, q)) /\ UNCHANGED pending
       ELSE /\ query' = [query EXCEPT ![q] = [@ EXCEPT !.pc = "flush", !.waits = pending]]
            /\ pending' = {}
    /\ UNCHANGED <<today, recorded, memory, append, files, promised>>

Flushed(q) ==
    /\ query[q].pc = "flush"
    /\ \A e \in query[q].waits : append[e] \in {"done", "failed"}
    /\ query' = [query EXCEPT ![q].pc = "files"]
    /\ UNCHANGED <<today, recorded, memory, append, pending, files, promised>>

\* The files of the last days.
InFiles == UNION {files[d] : d \in {d \in 0..today : d + QueryMaxDays >= today}}

LooksInFiles(q) ==
    /\ query[q].pc = "files"
    /\ Ends(q, Answer(InFiles, q))
    /\ UNCHANGED <<today, recorded, memory, append, pending, files, promised>>

(***************************************************************************)
(* A day passes; the gateway stops: memory and what was pending are gone.  *)
(***************************************************************************)
DayPasses ==
    /\ today < LastDay /\ today' = today + 1
    /\ UNCHANGED <<recorded, memory, append, pending, files, query, promised>>

Restart ==
    /\ \E e \in Known : append[e] \in {"prune", "write"} \/ memory # {}
    /\ memory' = {} /\ pending' = {}
    /\ append' = [e \in Known |-> IF append[e] \in {"prune", "write"} THEN "lost" ELSE append[e]]
    /\ query' = [q \in Queries |-> IF query[q].pc = "idle" THEN query[q]
                                   ELSE [NoQuery EXCEPT !.pc = "done"]]
    /\ promised' = [q \in Queries |-> {}]
    /\ UNCHANGED <<today, recorded, files>>

Appends == \E e \in Known : AppendPrunes(e) \/ AppendWrites(e)
Looks(q) == LooksInMemory(q) \/ Flushed(q) \/ LooksInFiles(q)

TracesNext ==
    \/ \E s \in Sessions, names \in NameSets : Record(s, names)
    \/ Appends \/ DayPasses \/ Restart
    \/ \E q \in Queries : \/ Looks(q)
                          \/ \E s \in Sessions, names \in AskedNames,
                                turn \in {"latest", "all"} : Asks(q, s, names, turn)

TracesSpec == TracesInit /\ [][TracesNext]_traceVars

\* Files are read and written in finite time, in success or not.
TracesFairness == WF_traceVars(Appends) /\ \A q \in Queries : WF_traceVars(Looks(q))
-----------------------------------------------------------------------------
(* "Latest" is the latest: a query for the newest trace answers with no    *)
(* older one than it could know of when it began -- in memory, in a file or*)
(* on its way to one -- whatever memory has dropped meanwhile, unless the  *)
(* append failed or the entry's day has passed out of the window           *)
(* (queryWithFallback, RecallTraceJsonlStore.query).                       *)
StillThere(e) == /\ append[e] # "failed"
                 /\ recorded[e].day + QueryMaxDays >= today
                 /\ recorded[e].day + RetentionDays >= today
LatestIsLatest ==
    \A q \in Queries :
        query[q].pc = "done" /\ query[q].turn = "latest" =>
            \A e \in promised[q] : StillThere(e) => \E d \in query[q].found : d >= e

(* A query always answers: each append it waits for ends.                  *)
QueryAnswers == \A q \in Queries : query[q].pc = "memory" ~> query[q].pc = "done"
=============================================================================
