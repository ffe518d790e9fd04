--------------------------- MODULE QueryConfigStore ---------------------------
(***************************************************************************)
(* The settings of recall that a command changes while the gateway runs    *)
(* (query-config.ts): records by claw or session in memory, a file, the    *)
(* file's time as it was last seen, and a queue of writes.  A command      *)
(* changes the records, waits for its write and then reads the settings in *)
(* force; every turn reads them too, and a read first loads the file when  *)
(* its time is another one.  The file can be edited by hand, the disk can  *)
(* refuse a write, the gateway can stop at any await.                      *)
(***************************************************************************)
EXTENDS Naturals, Sequences, FiniteSets

CONSTANTS Commands,   \* changes that may be made, each once
          Readers,    \* turns and answered commands, which read the settings
          Keys,       \* claws and sessions that have a record
          Values,     \* what a record can say
          MaxEdits,   \* edits of the file by hand
          MaxStops,   \* times the gateway stops
          DiskFails   \* whether a write can be refused

None == "none"
Torn == [k \in Keys |-> "torn"]       \* not JSON at all
Foreign == [k \in Keys |-> "foreign"] \* JSON, not of this schema

ByHand == {[k \in Keys |-> v] : v \in Values} \cup {Torn, Foreign}

\* Assumed where this module is instantiated.
QueryConfigConstants ==
    /\ Commands \cap Readers = {}
    /\ Values \cap {None, "torn", "foreign"} = {} /\ Values # {} /\ Keys # {}
    /\ DiskFails \in BOOLEAN
    /\ MaxEdits \in Nat /\ MaxStops \in Nat

VARIABLES file,     \* [time, says]: what stands under the path
          data,     \* this.data
          mark,     \* this.lastMtimeMs
          load,     \* loadFromDisk at the start: where it is, what it read
          queue,    \* writeQueue: the calls whose write is not over
          write,    \* the write under way: where it is, what it put beside
          call,     \* the commands
          reader,   \* the reads of the settings (reloadIfChanged)
          edits, stops,
          disturbed,\* history: calls whose change was overtaken
          raced     \* history: the file moved between being read and marked

storeVars == <<file, data, mark, load, queue, write, call, reader, edits, stops, disturbed, raced>>

Records == [Keys -> Values \cup {None}]
Empty == [k \in Keys |-> None]
Readable(says) == says \in Records
Times == 0..(MaxEdits + Cardinality(Commands) + 1)

CallPcs == {"idle", "called", "write", "done", "failed", "lost"}
IdleCall == [pc |-> "idle", op |-> "reset", key |-> CHOOSE k \in Keys : TRUE, value |-> None]
Resting == [pc |-> "rest", seen |-> 0, got |-> Torn]
NoWrite == [pc |-> "rest", beside |-> Empty]

StoreInit ==
    /\ file = [time |-> 1, says |-> Empty]
    /\ data = Empty /\ mark = 0
    /\ load = [pc |-> "read", got |-> Torn]
    /\ queue = <<>> /\ write = NoWrite
    /\ call = [c \in Commands |-> IdleCall]
    /\ reader = [r \in Readers |-> Resting]
    /\ edits = 0 /\ stops = 0 /\ disturbed = {} /\ raced = FALSE

(***************************************************************************)
(* load: the file is read, then asked for its time.  What cannot be parsed *)
(* leaves no records and no mark; another schema is marked and not taken.  *)
(***************************************************************************)
LoadReads ==
    /\ load.pc = "read"
    /\ IF file.says = Torn
       THEN /\ data' = Empty
            /\ load' = [load EXCEPT !.pc = "done"]
       ELSE /\ data' = IF Readable(file.says) THEN file.says ELSE data
            /\ load' = [pc |-> "stat", got |-> file.says]
    /\ UNCHANGED <<file, mark, queue, write, call, reader, edits, stops, disturbed, raced>>

LoadMarks ==
    /\ load.pc = "stat"
    /\ mark' = file.time
    /\ raced' = (raced \/ file.says # load.got)
    /\ load' = [load EXCEPT !.pc = "done"]
    /\ UNCHANGED <<file, data, queue, write, call, reader, edits, stops, disturbed>>

(***************************************************************************)
(* A call: set, unset and reset change the records once the first load is  *)
(* over (waitForInitialLoad) and join the queue of writes; unset of a      *)
(* record that is not there returns at once.  One value a record stands    *)
(* for all its fields.                                                     *)
(***************************************************************************)
Begins(c) ==
    /\ call[c].pc = "idle"
    /\ \E op \in {"set", "unset", "reset"}, k \in Keys, v \in Values \cup {None} :
        /\ op = "set" <=> v # None
        /\ call' = [call EXCEPT ![c] = [@ EXCEPT !.pc = "called", !.op = op,
                                         !.key = k, !.value = v]]
    /\ UNCHANGED <<file, data, mark, load, queue, write, reader, edits, stops, disturbed, raced>>

\* Mutant: a command does not wait for the first load.
ChangesBeforeLoad(c) ==
    /\ call[c].pc = "called"
    /\ data' = [data EXCEPT ![call[c].key] = call[c].value]
    /\ queue' = Append(queue, c)
    /\ call' = [call EXCEPT ![c].pc = "write"]
    /\ disturbed' = disturbed \cup
         {d \in Commands : call[d].pc = "write" /\ call[d].key = call[c].key}
    /\ UNCHANGED <<file, mark, load, write, reader, edits, stops, raced>>

Changes(c) ==
    /\ call[c].pc = "called" /\ load.pc = "done"
    /\ IF call[c].op = "unset" /\ data[call[c].key] = None
       THEN /\ call' = [call EXCEPT ![c].pc = "done"]
            /\ UNCHANGED <<data, queue, disturbed>>
       ELSE /\ data' = [data EXCEPT ![call[c].key] = call[c].value]
            /\ queue' = Append(queue, c)
            /\ call' = [call EXCEPT ![c].pc = "write"]
            /\ disturbed' = disturbed \cup
                 {d \in Commands : call[d].pc = "write" /\ call[d].key = call[c].key}
    /\ UNCHANGED <<file, mark, load, write, reader, edits, stops, raced>>

(***************************************************************************)
(* persist: writes run one at a time, each after the one before it whether *)
(* that failed or not.  The records are put beside the file as they are    *)
(* then, renamed over it, and the file's time is asked for.                *)
(***************************************************************************)
WritePutsBeside ==
    /\ queue # <<>> /\ write.pc = "rest"
    /\ write' = [pc |-> "beside", beside |-> data]
    /\ UNCHANGED <<file, data, mark, load, queue, call, reader, edits, stops, disturbed, raced>>

WriteRenames ==
    /\ write.pc = "beside"
    /\ file' = [time |-> file.time + 1, says |-> write.beside]
    /\ write' = [write EXCEPT !.pc = "renamed"]
    /\ UNCHANGED <<data, mark, load, queue, call, reader, edits, stops, disturbed, raced>>

WriteMarks ==
    /\ write.pc = "renamed"
    /\ mark' = file.time
    /\ raced' = (raced \/ file.says # write.beside)
    /\ call' = [call EXCEPT ![Head(queue)].pc = "done"]
    /\ queue' = Tail(queue) /\ write' = NoWrite
    /\ UNCHANGED <<file, data, load, reader, edits, stops, disturbed>>

\* The write is refused: the command fails, its change stays in memory.
WriteRefused ==
    /\ DiskFails /\ queue # <<>> /\ write.pc \in {"rest", "beside"}
    /\ call' = [call EXCEPT ![Head(queue)].pc = "failed"]
    /\ queue' = Tail(queue) /\ write' = NoWrite
    /\ UNCHANGED <<file, data, mark, load, reader, edits, stops, disturbed, raced>>

(***************************************************************************)
(* reloadIfChanged, then what the settings are (sync): the file's time, and*)
(* when it is not the mark the file and the mark it had before the read.   *)
(***************************************************************************)
GetLooks(r) ==
    /\ reader[r].pc = "rest" /\ load.pc = "done" /\ file.time # mark
    /\ reader' = [reader EXCEPT ![r] = [@ EXCEPT !.pc = "read", !.seen = file.time]]
    /\ UNCHANGED <<file, data, mark, load, queue, write, call, edits, stops, disturbed, raced>>

\* The bytes are read: what the file says now.
GetReads(r) ==
    /\ reader[r].pc = "read"
    /\ reader' = [reader EXCEPT ![r] = [@ EXCEPT !.pc = "take", !.got = file.says]]
    /\ UNCHANGED <<file, data, mark, load, queue, write, call, edits, stops, disturbed, raced>>

\* Mutant: the mark is the time the file has now, not the one it had before the read.
GetTakesMarkingNow(r) ==
    /\ reader[r].pc = "take"
    /\ IF Readable(reader[r].got)
       THEN /\ data' = reader[r].got /\ mark' = file.time
            /\ disturbed' = disturbed \cup {d \in Commands : call[d].pc = "write"}
            /\ raced' = (raced \/ write.pc # "rest")
       ELSE UNCHANGED <<data, mark, disturbed, raced>>
    /\ reader' = [reader EXCEPT ![r] = Resting]
    /\ UNCHANGED <<file, load, queue, write, call, edits, stops>>

\* They are taken; what is torn or of another schema changes nothing.
GetTakes(r) ==
    /\ reader[r].pc = "take"
    /\ IF Readable(reader[r].got)
       THEN /\ data' = reader[r].got /\ mark' = reader[r].seen
            /\ disturbed' = disturbed \cup {d \in Commands : call[d].pc = "write"}
            /\ raced' = (raced \/ write.pc # "rest")
       ELSE UNCHANGED <<data, mark, disturbed, raced>>
    /\ reader' = [reader EXCEPT ![r] = Resting]
    /\ UNCHANGED <<file, load, queue, write, call, edits, stops>>

(***************************************************************************)
(* Edits by hand, and a stop: memory is gone, the file stays as it is.     *)
(***************************************************************************)
Edited ==
    /\ edits < MaxEdits
    /\ \E s \in ByHand :
        file' = [time |-> file.time + 1, says |-> s]
    /\ edits' = edits + 1
    /\ UNCHANGED <<data, mark, load, queue, write, call, reader, stops, disturbed, raced>>

Stops ==
    /\ stops < MaxStops
    /\ stops' = stops + 1
    /\ data' = Empty /\ mark' = 0 /\ load' = [pc |-> "read", got |-> Torn]
    /\ queue' = <<>> /\ write' = NoWrite
    /\ call' = [c \in Commands |-> IF call[c].pc \in {"idle", "done", "failed"} THEN call[c]
                                   ELSE [call[c] EXCEPT !.pc = "lost"]]
    /\ reader' = [r \in Readers |-> Resting]
    /\ raced' = FALSE
    /\ UNCHANGED <<file, edits, disturbed>>

Gets(r) == GetLooks(r) \/ GetReads(r) \/ GetTakes(r)
Writer == WritePutsBeside \/ WriteRenames \/ WriteMarks \/ WriteRefused
Loader == LoadReads \/ LoadMarks

StoreNext ==
    \/ Loader \/ Writer \/ Edited \/ Stops
    \/ \E c \in Commands : Begins(c) \/ Changes(c)
    \/ \E r \in Readers : Gets(r)

StoreSpec == StoreInit /\ [][StoreNext]_storeVars

\* Every await returns: file operations end, in success or not.
StoreFairness ==
    /\ WF_storeVars(Loader) /\ WF_storeVars(Writer)
    /\ \A c \in Commands : WF_storeVars(Changes(c))
    /\ \A r \in Readers : WF_storeVars(GetReads(r)) /\ WF_storeVars(GetTakes(r))
-----------------------------------------------------------------------------
(* A call waiting for its write stands in the queue, once, and nothing     *)
(* else does: no write is forgotten and none is made for nobody (persist). *)
QueueIsThoseWaiting ==
    /\ \A c \in Commands : call[c].pc = "write" <=> \E i \in 1..Len(queue) : queue[i] = c
    /\ \A i, j \in 1..Len(queue) : queue[i] = queue[j] => i = j
    /\ write.pc # "rest" => queue # <<>>

(* A change that is acknowledged stands in the file that was renamed into  *)
(* place, unless a reload or a later change of the record came between the *)
(* change in memory and the write (set, persist, reloadIfChanged).         *)
WrittenAsSaid ==
    \A c \in Commands : /\ write.pc = "beside" /\ write'.pc = "renamed" /\ c = Head(queue)
                        /\ c \notin disturbed
                        => file'.says[call[c].key] = call[c].value
AcknowledgedChangeIsWritten == [][WrittenAsSaid]_storeVars

(* When nothing is under way and the mark is the file's time, memory is    *)
(* what the file says: the store never takes its own stale records for     *)
(* current, unless the file moved between being read and being marked or a *)
(* reload fell into a write (loadFromDisk, reloadIfChanged, persist).      *)
AtRest == load.pc = "done" /\ queue = <<>> /\ \A r \in Readers : reader[r].pc = "rest"
MarkMeansMemoryIsFile ==
    AtRest /\ ~raced /\ mark = file.time /\ Readable(file.says)
        /\ (\A c \in Commands : call[c].pc # "failed")
    => data = file.says

(* A command and a read of the settings always return, also after a write  *)
(* that was refused (the queue goes on after a failure).                   *)
CallReturns ==
    \A c \in Commands : call[c].pc = "called" ~> call[c].pc \in {"done", "failed", "lost"}
=============================================================================
