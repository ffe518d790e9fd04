---------------------------- MODULE ClientRequest ----------------------------
(***************************************************************************)
(* One request of OpenVikingClient (src/client.ts): sent over a connection *)
(* that may be dropped or refused, under the caller's own timer, a read    *)
(* repeated once after a drop, the answer's body read after its headers.   *)
(* A copy of the request may reach the server when nobody waits any more.  *)
(***************************************************************************)
EXTENDS Naturals, FiniteSets

CONSTANT Operations           \* the operations of the client that are called

VARIABLES op,         \* the operation called
          requestPc,  \* "build", "wire", "body" or "over"
          sends,      \* how many copies went out
          travelling, \* the copies the server may still come to handle
          handled,    \* copy -> what the server made of it, see Verdicts
          aborted,    \* the caller's timer fired
          outcome     \* what the caller got

requestVars == <<op, requestPc, sends, travelling, handled, aborted, outcome>>

\* GET: repeated after a dropped connection.
ContentReads == {"read", "list", "readToolResult", "searchToolResult", "listToolResults"}
SessionState == {"getSession"}
SessionReads == {"getTask", "getSessionContext", "getSessionArchive"}
Reads == {"health"} \cup ContentReads \cup SessionState \cup SessionReads

\* POSTs that only look, never repeated all the same.
Finds == {"find"}
Searches == Finds \cup {"grepSessionArchives"}

Openings == {"createSession"}
MessageWrites == {"addSessionMessage"}
Commits == {"commitSession"}
Imports == {"uploadTempFile", "addResource", "addSkill"}
Removals == {"deleteSession", "removeResource", "deleteUri"}
Writes == Openings \cup MessageWrites \cup Commits \cup Imports \cup Removals

\* Assumed where this module is instantiated.
OperationsAssumption == Operations \subseteq Reads \cup Searches \cup Writes

\* Done, refused by the status of the answer, or refused in what a 200 carries.
Verdicts == {"ok", "status", "payload"}

RequestInit ==
    /\ op \in Operations
    /\ requestPc = "build" /\ sends = 0 /\ travelling = {} /\ handled = [c \in {} |-> "ok"]
    /\ aborted = FALSE /\ outcome = "none"

Sends == /\ sends' = sends + 1
         /\ travelling' = travelling \cup {sends + 1}

\* The headers are set and the first copy goes out; the timer is running.
Begin == /\ requestPc = "build" /\ requestPc' = "wire"
         /\ Sends
         /\ UNCHANGED <<op, handled, aborted, outcome>>

\* The server takes a copy, whoever still waits for it.  A write it has done
\* once it would do twice.
Handle(c, verdict) ==
    /\ c \in travelling
    /\ travelling' = travelling \ {c}
    /\ handled' = [d \in DOMAIN handled \cup {c} |-> IF d = c THEN verdict ELSE handled[d]]
    /\ UNCHANGED <<op, requestPc, sends, aborted, outcome>>

\* Mutant: the timer is cleared when the headers are there.
TimerStopsAtHeaders == /\ requestPc = "wire" /\ ~aborted /\ aborted' = TRUE
                       /\ UNCHANGED <<op, requestPc, sends, travelling, handled, outcome>>

TimerFires == /\ requestPc \in {"wire", "body"} /\ ~aborted /\ aborted' = TRUE
              /\ UNCHANGED <<op, requestPc, sends, travelling, handled, outcome>>

Over(said) == requestPc' = "over" /\ outcome' = said

Trouble == IF aborted THEN "timeout" ELSE "trouble"

\* The connection goes under the request: closed by the other side or reset.
Dropped == /\ requestPc = "wire" /\ ~aborted
           /\ IF op \in Reads /\ sends = 1
              THEN Sends /\ UNCHANGED <<requestPc, outcome>>
              ELSE Over(Trouble) /\ UNCHANGED <<sends, travelling>>
           /\ UNCHANGED <<op, handled, aborted>>

\* No connection at all: this copy does not reach the server.
Refused == /\ requestPc = "wire" /\ ~aborted /\ sends \in travelling
           /\ travelling' = travelling \ {sends}
           /\ Over(Trouble)
           /\ UNCHANGED <<op, sends, handled, aborted>>

\* The timer's signal ends the wait for the headers.
GivenUp == /\ requestPc = "wire" /\ aborted
           /\ Over(Trouble)
           /\ UNCHANGED <<op, sends, travelling, handled, aborted>>

HeadersArrive == /\ requestPc = "wire" /\ ~aborted /\ sends \in DOMAIN handled
                 /\ requestPc' = "body"
                 /\ UNCHANGED <<op, sends, travelling, handled, aborted, outcome>>

BodyArrives == /\ requestPc = "body" /\ ~aborted
               /\ Over(IF handled[sends] = "ok" THEN "result" ELSE "error")
               /\ UNCHANGED <<op, sends, travelling, handled, aborted>>

\* Mutant: a body that cannot be read is the result like another.
BrokenBodyIsTheResult == /\ requestPc = "body"
                         /\ Over(IF handled[sends] = "status" THEN "error" ELSE "result")
                         /\ UNCHANGED <<op, sends, travelling, handled, aborted>>

\* Whatever ends the reading of the body, the timer included, an empty object
\* stands for it: nothing but the status of the answer is left to judge by, and
\* what was refused in the body is returned like what was done.
BodyBreaks == /\ requestPc = "body"
              /\ Over(IF handled[sends] = "status" THEN "error" ELSE "empty")
              /\ UNCHANGED <<op, sends, travelling, handled, aborted>>

RequestNext ==
    \/ Begin
    \/ \E c \in travelling, verdict \in Verdicts : Handle(c, verdict)
    \/ TimerFires \/ Dropped \/ Refused \/ GivenUp
    \/ HeadersArrive \/ BodyArrives \/ BodyBreaks

RequestSpec == RequestInit /\ [][RequestNext]_requestVars

\* Only the client's own steps are owed: the timer runs, and its signal ends
\* what is waited for.  The server and the network owe nothing.
RequestFairness == WF_requestVars(Begin) /\ WF_requestVars(TimerFires) /\ WF_requestVars(GivenUp)
            /\ WF_requestVars(aborted /\ BodyBreaks)
-----------------------------------------------------------------------------
(***************************************************************************)
(* The request as an abstract call.  A write is a call of its own whatever *)
(* number of copies went out; of a read, the copy sent last is meant.      *)
(***************************************************************************)
Once == op \notin Reads

LastHandled == IF sends \notin DOMAIN handled THEN "open"
               ELSE IF handled[sends] = "ok" THEN "done" ELSE "turned down"

Work == IF Once /\ Cardinality(DOMAIN handled) > 1 THEN "done twice" ELSE LastHandled

AnswerTold == CASE outcome = "none" -> "nothing"
          [] outcome = "result" -> "answered"
          [] outcome = "empty" -> "blank"
          [] outcome = "error" -> "refused"
          [] OTHER -> "unheard"

Call == INSTANCE RemoteCall WITH once <- Once, work <- Work, told <- AnswerTold

(* The request implements the abstract call: a write is done at most once, *)
(* also long after the caller left, whatever becomes of the connection;    *)
(* an answer with content is true of the server, and one whose content was *)
(* lost tells no more than that the server has settled the call.  The      *)
(* repeat of src/client.ts:480 must stay with the reads for this, and a    *)
(* body that breaks must not pass for one that was read (:499-:505).       *)
RequestImplementsCall == Call!Spec

(* A call comes back although the server says nothing or stops in the      *)
(* middle of a body: the one timer covers the repeat and the body.         *)
RequestReturns == <>(outcome # "none")

=============================================================================
