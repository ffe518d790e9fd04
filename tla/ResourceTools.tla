---------------------------- MODULE ResourceTools ----------------------------
(***************************************************************************)
(* The agent's tools that change the server: add_resource, remove_resource *)
(* (src/plugin/openviking-import-tools.ts), add_skill, and the packing and *)
(* the two requests of an import (src/client.ts, src/adapters/             *)
(* resource-packager.ts).  A request is an abstract call (RemoteCall,      *)
(* which ClientRequest implements): a mutation nobody waits for any more   *)
(* may still be done.                                                      *)
(***************************************************************************)
EXTENDS ResourceRouter, FiniteSets

CONSTANTS Taxonomies,     \* what a gateway may be configured with
          Retrieval,      \* the limits of automatic routing
          Scores, Ranks,  \* what embedder and reranker may answer
          Names,          \* what a resource is called in its category
          Selectors,      \* what a user may name as a category
          MaxCalls        \* bound on the calls of tools

\* Assumed where this module is instantiated.
ToolsAssumption == /\ \A t \in Taxonomies : Compiles(t)
                   /\ MaxCalls \in Nat

VARIABLES held,       \* the gateway's taxonomy, for good once loaded
          tree,       \* the paths that stand on the server
          tool,       \* the running call of a tool
          toolPc,     \* where it is
          request,    \* its mutation on its way, with what became of it
          late,       \* mutations nobody waits for, still to be done or lost
          packed,     \* a packed directory stands in the temporary directory
          past,       \* what became of the call's mutations before this one
          answer,     \* what the agent is told
          calls

toolVars == <<held, tree, tool, toolPc, request, late, packed, past, answer, calls>>

NoTool == [name |-> "none"]
NoRequest == [does |-> "nothing", became |-> "nothing"]
Below(path, other) == Len(path) < Len(other) /\ SubSeq(other, 1, Len(path)) = path
\* A document of the server is a folder of its parts.
PartOf(path) == Append(path, "part")
Above(path) == {SubSeq(path, 1, n) : n \in 1..Len(path)}

ToolsInit == /\ held \in Taxonomies
             /\ tree = UNION {Above(PartOf(Append(c.path, n))) : c \in Semantic(held), n \in Names}
             /\ tool = NoTool /\ toolPc = "rest" /\ request = NoRequest /\ late = {}
             /\ packed = FALSE
             /\ past = <<>> /\ answer = "none" /\ calls = 0

Called(t) == /\ toolPc \in {"rest", "told"} /\ calls < MaxCalls
             /\ calls' = calls + 1 /\ tool' = t /\ past' = <<>> /\ request' = NoRequest
             /\ UNCHANGED <<held, tree, late, packed>>

Ends(said) == toolPc' = "told" /\ answer' = said
GoesOn(next) == toolPc' = next /\ UNCHANGED answer
Mutates(r) == request' = [does |-> r.does, path |-> r.path, recursive |-> r.recursive,
                          became |-> "open", of |-> calls']

(***************************************************************************)
(* add_resource: a category the user named, or one found by the summary.   *)
(* What is not settled is not imported.                                    *)
(***************************************************************************)
AddNamed(selector, name, source) ==
    LET r == CategoryOrFallback(held, selector) IN
    /\ Called([name |-> "add", parent |-> r.category.path, low |-> FALSE,
               source |-> source, called |-> name])
    /\ IF r.reason # "none" THEN Ends("rejected") ELSE GoesOn("prepares")

AddRouted(scores, ranks, name, source) ==
    /\ Called([name |-> "add", parent |-> Decide(held, scores, ranks, Retrieval).path,
               low |-> \A c \in Semantic(held) : scores[c] < Retrieval.minScore,
               source |-> source, called |-> name])
    /\ GoesOn("prepares")

\* No summary, one in another language, no source: "rejected"; and whatever
\* RoutingService tells of a failure.
AddUnsettled == /\ Called([name |-> "add", source |-> "none"])
                /\ \E said \in {"rejected", "unrouted"} : Ends(said)

\* A skill comes from a path or as data, never as both or neither.
AddSkill(name, source) ==
    /\ Called([name |-> "skill", parent |-> <<"skills">>, low |-> FALSE,
               source |-> source, called |-> name])
    /\ IF source = "none" THEN Ends("error") ELSE GoesOn("prepares")

Imported == [does |-> "add", path |-> Append(tool.parent, tool.called), recursive |-> FALSE]

\* A directory is packed into a file of its own, a remote source or data not at
\* all.  Packing that fails clears what it made.
Prepares ==
    /\ toolPc = "prepares"
    /\ UNCHANGED <<held, tree, tool, late, past, calls>>
    /\ IF tool.source = "remote"
       THEN Mutates(Imported) /\ GoesOn("waits") /\ UNCHANGED packed
       ELSE /\ UNCHANGED request
            /\ \/ GoesOn("uploads") /\ packed' = (tool.source = "directory")
               \/ Ends("error") /\ UNCHANGED packed

\* The upload is a write of nothing that lasts.  An answer of it that is lost is
\* told as an import of unknown outcome, any other trouble as an error.  The
\* packed file is cleared once the import is sent, and when the upload failed.
Uploads == /\ toolPc = "uploads" /\ packed' = FALSE
           /\ UNCHANGED <<held, tree, tool, late, past, calls>>
           /\ \/ Mutates(Imported) /\ GoesOn("waits")
              \/ UNCHANGED request /\ \E said \in {"unknown", "error"} : Ends(said)

(***************************************************************************)
(* remove_resource: below the resources' root and no category of the       *)
(* taxonomy; without the folder's contents first, with them only once the  *)
(* server has said that it takes that.                                     *)
(***************************************************************************)
Protected(path) ==
    \/ path = Root
    \/ CategoryOrFallback(held, path).reason \in {"none", "organizational_category"}

RemoveResource(path) ==
    /\ toolPc \in {"rest", "told"} /\ calls < MaxCalls
    /\ calls' = calls + 1 /\ tool' = [name |-> "remove", path |-> path] /\ past' = <<>>
    /\ IF Protected(path)
       THEN Ends("rejected") /\ request' = NoRequest
       ELSE GoesOn("waits") /\ Mutates([does |-> "remove", path |-> path, recursive |-> FALSE])
    /\ UNCHANGED <<held, tree, late, packed>>
-----------------------------------------------------------------------------
(* The server at a mutation.  What it turns down leaves the tree alone.    *)
Verdict(r) ==
    IF r.does = "add" THEN "done"
    ELSE IF r.path \notin tree THEN "absent"
    ELSE IF ~r.recursive /\ \E p \in tree : Below(r.path, p) THEN "nonempty"
    ELSE "done"

Effect(r) == IF r.does = "add" THEN tree \cup Above(PartOf(r.path))
             ELSE {p \in tree : p # r.path /\ ~Below(r.path, p)}

Serves == /\ toolPc = "waits" /\ request.became = "open"
          /\ \E verdict \in {Verdict(request), "denied"} :
                /\ request' = [request EXCEPT !.became = verdict]
                /\ tree' = IF verdict = "done" THEN Effect(request) ELSE tree
          /\ UNCHANGED <<held, tool, toolPc, late, packed, past, answer, calls>>

ServesLate(r) == /\ r \in late /\ late' = late \ {r}
                 /\ tree' \in IF Verdict(r) = "done" THEN {tree, Effect(r)} ELSE {tree}
                 /\ request' = IF r = request /\ tree' # tree
                               THEN [request EXCEPT !.became = "done"] ELSE request
                 /\ UNCHANGED <<held, tool, toolPc, packed, past, answer, calls>>

\* The answer is heard, or its status alone: then nothing is known of why.
Heard ==
    /\ toolPc = "waits" /\ request.became # "open"
    /\ UNCHANGED <<held, tree, tool, late, packed, calls>>
    /\ CASE request.became = "done" ->
              /\ Ends(IF request.does = "add" THEN "accepted" ELSE "removed")
              /\ UNCHANGED <<request, past>>
         [] request.became = "denied" ->
              Ends("error") /\ UNCHANGED <<request, past>>
         [] request.became = "absent" ->
              /\ \E said \in {"absent", "error"} : Ends(said)
              /\ UNCHANGED <<request, past>>
         [] request.became = "nonempty" ->
              \/ /\ Mutates([request EXCEPT !.recursive = TRUE])
                 /\ past' = Append(past, request.became) /\ GoesOn("waits")
              \/ Ends("error") /\ UNCHANGED <<request, past>>

\* The answer's body breaks off.  A refusal that stood in it is read by nobody, and the
\* call is told like one that was done.
HeardBlank ==
    /\ toolPc = "waits" /\ request.became # "open"
    /\ request' = IF request.became = "done" THEN request
                  ELSE [request EXCEPT !.became = "unread"]
    /\ Ends(IF request.does = "add" THEN "accepted" ELSE "removed")
    /\ UNCHANGED <<held, tree, tool, late, packed, past, calls>>

\* Mutant: a timeout is an error like another.
IsAmbiguousWithoutTimeout(trouble) == trouble \in {"dropped", "refused"}

\* A transport failure: the caller's own timeout, a dropped connection, whether
\* the server was at it or not.
IsAmbiguous(trouble) == trouble \in {"timeout", "dropped", "refused"}

\* Mutant: what was not answered is sent again.
UnheardSendsAgain ==
    /\ toolPc = "waits"
    /\ UNCHANGED <<held, tree, tool, packed, calls>>
    /\ late' = IF request.became = "open" THEN late \cup {request} ELSE late
    /\ Mutates(request) /\ past' = Append(past, request.became)
    /\ GoesOn("waits")

Unheard ==
    /\ toolPc = "waits"
    /\ \E trouble \in {"timeout", "dropped", "refused"} :
          /\ trouble = "refused" => request.became = "open"
          /\ late' = IF request.became = "open" /\ trouble # "refused"
                     THEN late \cup {request} ELSE late
          /\ request' = IF trouble = "refused" THEN [request EXCEPT !.became = "denied"]
                                               ELSE request
          /\ Ends(IF IsAmbiguous(trouble) THEN "unknown" ELSE "error")
    /\ UNCHANGED <<held, tree, tool, packed, past, calls>>

Sources == {"remote", "file", "directory"}

ToolsNext == \/ \E n \in Names, source \in Sources :
                   \/ \E s \in Selectors : AddNamed(s, n, source)
                   \/ \E scores \in [Semantic(held) -> Scores],
                         ranks \in [Semantic(held) -> Ranks] : AddRouted(scores, ranks, n, source)
                   \/ AddSkill(n, source)
             \/ \E n \in Names : AddSkill(n, "none")
             \/ AddUnsettled
             \/ Prepares \/ Uploads
             \/ \E path \in tree \cup {Root} : RemoveResource(path)
             \/ Serves \/ \E r \in late : ServesLate(r)
             \/ Heard \/ HeardBlank \/ Unheard

ToolsSpec == ToolsInit /\ [][ToolsNext]_toolVars
-----------------------------------------------------------------------------
Attempts == Append(past, request.became)
IsDone(attempts) == \E i \in DOMAIN attempts : attempts[i] = "done"
MayBeDone(attempts) == \E i \in DOMAIN attempts : attempts[i] \in {"done", "open"}

(* A definite word is true of the server, now and whatever lands later:    *)
(* "accepted" and "removed" of what is done, save a refusal whose body was *)
(* lost, "not imported", "absent" and an error of what is neither done nor *)
(* still on its way.  All else is said to be unknown                       *)
(* (src/plugin/openviking-import-tools.ts:106-122).                        *)
AnswerIsTrue ==
    toolPc = "told" =>
       /\ answer \in {"accepted", "removed"} => IsDone(Attempts) \/ request.became = "unread"
       /\ answer \in {"rejected", "unrouted", "error", "absent"} => ~MayBeDone(Attempts)

(* One call of a tool changes the server once at the most: the removal is  *)
(* tried again only after the server turned the first one down             *)
(* (src/plugin/openviking-import-tools.ts:436-452).                        *)
ChangedOnceAtMost ==
    Cardinality({i \in DOMAIN Attempts : Attempts[i] \in {"done", "open"}}) <= 1
=============================================================================
