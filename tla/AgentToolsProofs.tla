--------------------------- MODULE AgentToolsProofs ---------------------------
(***************************************************************************)
(* What the agent's tools say and do, for every taxonomy, memory, answer   *)
(* of the server and number of calls.                                      *)
(***************************************************************************)
EXTENDS AgentTools, MemoryRankingProofs, FiniteSetTheorems, SequenceTheorems, TLAPS

---------------------------------------------------------------------------
(* Importing and removing *)

Became == {"open", "done", "absent", "nonempty", "denied", "unread"}

\* The call's own request, unless none was sent; one that stands open after the call is
\* told as unknown.
RequestIsOwn ==
    \/ request = NoRequest /\ toolPc # "waits"
    \/ /\ {"became", "of"} \subseteq DOMAIN request
       /\ request.became \in Became /\ request.of = calls
       /\ request.became = "unread" => toolPc = "told"
       /\ request.became = "open" => toolPc = "waits" \/ (toolPc = "told" /\ answer = "unknown")

\* What may still land is of an earlier call, or of this one when it is told as unknown.
LateIsUnknown ==
    \A r \in late :
        /\ r.became = "open" /\ r.of \in Nat /\ r.of <= calls
        /\ r.of = calls => toolPc = "told" /\ answer = "unknown"

AnswerFits ==
    toolPc = "told" =>
       /\ answer \in {"accepted", "removed"} => request.became \in {"done", "unread"}
       /\ answer \in {"rejected", "unrouted", "error", "absent"}
             => request.became \notin {"done", "open"}

ToolsInv ==
    /\ calls \in Nat /\ past \in Seq({"nonempty"})
    /\ toolPc \in {"rest", "prepares", "uploads", "waits", "told"}
    /\ toolPc \in {"prepares", "uploads"} => request = NoRequest
    /\ RequestIsOwn /\ LateIsUnknown /\ AnswerFits

LEMMA NothingIsAsked == NoRequest.became = "nothing"
  BY DEF NoRequest

LEMMA ToolsStart == ToolsInit => ToolsInv
  BY DEF ToolsInit, ToolsInv, RequestIsOwn, LateIsUnknown, AnswerFits

\* A call begins with nothing sent, whatever else it does at once.
LEMMA CallStarts ==
    ASSUME ToolsInv, NEW t, Called(t), toolPc' = "prepares" \/ (toolPc' = "told" /\ answer' \in
              {"rejected", "unrouted", "error"})
    PROVE  ToolsInv'
  <1>1. calls' = calls + 1 /\ calls \in Nat /\ past' = <<>> /\ request' = NoRequest /\ late' = late
    BY DEF Called, ToolsInv
  <1>2. \A r \in late : r.became = "open" /\ r.of \in Nat /\ r.of <= calls /\ r.of # calls'
    BY <1>1 DEF ToolsInv, LateIsUnknown
  <1>3. LateIsUnknown'
    BY <1>1, <1>2 DEF LateIsUnknown
  <1>4. RequestIsOwn' /\ AnswerFits'
    BY <1>1, NothingIsAsked DEF RequestIsOwn, AnswerFits
  <1>5. QED
    BY <1>1, <1>3, <1>4 DEF ToolsInv

\* A request of the running call goes out while nothing of this call is late.
LEMMA RequestGoesOut ==
    ASSUME ToolsInv, NEW r, Mutates(r), toolPc' = "waits", toolPc # "told",
           past' \in Seq({"nonempty"}), UNCHANGED <<late, calls>>
    PROVE  ToolsInv'
  <1>1. /\ request'.became = "open" /\ request'.of = calls'
        /\ {"became", "of"} \subseteq DOMAIN request'
    BY DEF Mutates
  <1>2. RequestIsOwn' /\ AnswerFits'
    BY <1>1 DEF RequestIsOwn, AnswerFits, Became
  <1>3. LateIsUnknown'
    BY DEF ToolsInv, LateIsUnknown
  <1>4. QED
    BY <1>2, <1>3 DEF ToolsInv

LEMMA RemovalStarts ==
    ASSUME ToolsInv, NEW path, RemoveResource(path)
    PROVE  ToolsInv'
  <1>1. calls' = calls + 1 /\ calls \in Nat /\ past' = <<>> /\ late' = late
    BY DEF RemoveResource, ToolsInv
  <1>2. \A r \in late : r.became = "open" /\ r.of \in Nat /\ r.of <= calls /\ r.of # calls'
    BY <1>1 DEF ToolsInv, LateIsUnknown
  <1>3. LateIsUnknown'
    BY <1>1, <1>2 DEF LateIsUnknown
  <1>4. CASE Protected(path)
    <2>1. toolPc' = "told" /\ answer' = "rejected" /\ request' = NoRequest
      BY <1>4 DEF RemoveResource, Ends
    <2>2. QED
      BY <1>1, <1>3, <2>1, NothingIsAsked DEF ToolsInv, RequestIsOwn, AnswerFits
  <1>5. CASE ~Protected(path)
    <2>1. /\ toolPc' = "waits" /\ request'.became = "open" /\ request'.of = calls'
          /\ {"became", "of"} \subseteq DOMAIN request'
      BY <1>5 DEF RemoveResource, GoesOn, Mutates
    <2>2. QED
      BY <1>1, <1>3, <2>1 DEF ToolsInv, RequestIsOwn, AnswerFits, Became
  <1>6. QED
    BY <1>4, <1>5

LEMMA ServingKeeps ==
    ASSUME ToolsInv, Serves
    PROVE  ToolsInv'
  <1>1. toolPc = "waits" /\ UNCHANGED <<toolPc, late, past, answer, calls>>
    BY DEF Serves
  <1>2. PICK verdict \in {Verdict(request), "denied"} :
            request' = [request EXCEPT !.became = verdict]
    BY DEF Serves
  <1>3. verdict \in Became \ {"open", "unread"}
    BY DEF Verdict, Became
  <1>4. {"became", "of"} \subseteq DOMAIN request /\ request.of = calls
    BY <1>1 DEF ToolsInv, RequestIsOwn
  <1>5. /\ request'.became = verdict /\ request'.of = calls'
        /\ {"became", "of"} \subseteq DOMAIN request'
    BY <1>1, <1>2, <1>4
  <1>6. RequestIsOwn' /\ AnswerFits' /\ LateIsUnknown'
    BY <1>1, <1>3, <1>5 DEF ToolsInv, RequestIsOwn, AnswerFits, LateIsUnknown
  <1>7. QED
    BY <1>1, <1>6 DEF ToolsInv

\* What lands late is nothing the call has told of.
LEMMA ServingLateKeeps ==
    ASSUME ToolsInv, NEW r \in late, ServesLate(r)
    PROVE  ToolsInv'
  <1>1. late' \subseteq late /\ UNCHANGED <<toolPc, past, answer, calls>>
    BY DEF ServesLate
  <1>2. LateIsUnknown'
    BY <1>1 DEF ToolsInv, LateIsUnknown
  <1>3. CASE request' = request
    BY <1>1, <1>2, <1>3 DEF ToolsInv, RequestIsOwn, AnswerFits
  <1>4. CASE r = request /\ request' = [request EXCEPT !.became = "done"]
    <2>1. request.became = "open"
      BY <1>4 DEF ToolsInv, LateIsUnknown
    <2>2. {"became", "of"} \subseteq DOMAIN request /\ request.of = calls
      BY <2>1, NothingIsAsked DEF ToolsInv, RequestIsOwn
    <2>3. toolPc = "told" /\ answer = "unknown"
      BY <1>4, <2>2 DEF ToolsInv, LateIsUnknown
    <2>4. /\ request'.became = "done" /\ request'.of = calls
          /\ {"became", "of"} \subseteq DOMAIN request'
      BY <1>4, <2>2
    <2>5. RequestIsOwn' /\ AnswerFits'
      BY <1>1, <2>3, <2>4 DEF RequestIsOwn, AnswerFits, Became
    <2>6. QED
      BY <1>1, <1>2, <2>3, <2>5 DEF ToolsInv
  <1>5. QED
    BY <1>3, <1>4 DEF ServesLate

LEMMA HearingKeeps ==
    ASSUME ToolsInv, Heard
    PROVE  ToolsInv'
  <1>1. toolPc = "waits" /\ request.became # "open" /\ UNCHANGED <<late, calls>>
    BY DEF Heard
  <1>2. /\ {"became", "of"} \subseteq DOMAIN request /\ request.became \in Became \ {"unread"}
        /\ request.of = calls
    BY <1>1 DEF ToolsInv, RequestIsOwn
  <1>3. \A r \in late : r.of # calls
    BY <1>1 DEF ToolsInv, LateIsUnknown
  <1>4. LateIsUnknown'
    BY <1>1, <1>3 DEF ToolsInv, LateIsUnknown
  <1>5. CASE /\ toolPc' = "told" /\ UNCHANGED <<request, past>>
             /\ answer' \in {"accepted", "removed"} /\ request.became = "done"
    BY <1>1, <1>2, <1>4, <1>5 DEF ToolsInv, RequestIsOwn, AnswerFits
  <1>6. CASE /\ toolPc' = "told" /\ UNCHANGED <<request, past>>
             /\ answer' \in {"absent", "error"} /\ request.became # "done"
    BY <1>1, <1>2, <1>4, <1>6 DEF ToolsInv, RequestIsOwn, AnswerFits
  <1>7. CASE /\ Mutates([request EXCEPT !.recursive = TRUE]) /\ toolPc' = "waits"
             /\ past' = Append(past, request.became) /\ request.became = "nonempty"
    <2>1. past' \in Seq({"nonempty"})
      BY <1>7 DEF ToolsInv
    <2>2. QED
      BY <1>1, <1>7, <2>1, RequestGoesOut
  <1>8. QED
    BY <1>1, <1>2, <1>5, <1>6, <1>7 DEF Heard, Ends, GoesOn, Became

LEMMA HearingNothingKeeps ==
    ASSUME ToolsInv, HeardBlank
    PROVE  ToolsInv'
  <1>1. /\ toolPc = "waits" /\ request.became # "open" /\ UNCHANGED <<late, past, calls>>
        /\ toolPc' = "told" /\ answer' \in {"accepted", "removed"}
    BY DEF HeardBlank, Ends
  <1>2. {"became", "of"} \subseteq DOMAIN request /\ request.of = calls
    BY <1>1 DEF ToolsInv, RequestIsOwn
  <1>3. /\ {"became", "of"} \subseteq DOMAIN request' /\ request'.of = calls'
        /\ request'.became \in {"done", "unread"}
    BY <1>1, <1>2 DEF HeardBlank
  <1>4. \A r \in late : r.of # calls
    BY <1>1 DEF ToolsInv, LateIsUnknown
  <1>5. RequestIsOwn' /\ AnswerFits' /\ LateIsUnknown'
    BY <1>1, <1>3, <1>4 DEF ToolsInv, RequestIsOwn, AnswerFits, LateIsUnknown, Became
  <1>6. QED
    BY <1>1, <1>5 DEF ToolsInv

LEMMA NotHearingKeeps ==
    ASSUME ToolsInv, Unheard
    PROVE  ToolsInv'
  <1>1. /\ toolPc = "waits" /\ toolPc' = "told" /\ answer' = "unknown"
        /\ UNCHANGED <<past, calls>>
    BY DEF Unheard, Ends, IsAmbiguous
  <1>2. {"became", "of"} \subseteq DOMAIN request /\ request.became \in Became /\ request.of = calls
    BY <1>1 DEF ToolsInv, RequestIsOwn
  <1>3. /\ {"became", "of"} \subseteq DOMAIN request' /\ request'.became \in Became
        /\ request'.of = calls'
    BY <1>1, <1>2 DEF Unheard, Became
  <1>4. \A r \in late' : r \in late \/ (r = request /\ request.became = "open")
    BY DEF Unheard
  <1>5. LateIsUnknown'
    BY <1>1, <1>2, <1>4 DEF ToolsInv, LateIsUnknown
  <1>6. RequestIsOwn' /\ AnswerFits'
    BY <1>1, <1>3 DEF RequestIsOwn, AnswerFits
  <1>7. QED
    BY <1>1, <1>5, <1>6 DEF ToolsInv

LEMMA PreparingKeeps ==
    ASSUME ToolsInv, Prepares \/ Uploads
    PROVE  ToolsInv'
  <1>1. toolPc \in {"prepares", "uploads"} /\ request = NoRequest /\ UNCHANGED <<late, past, calls>>
    BY DEF Prepares, Uploads, ToolsInv
  <1>2. CASE Mutates(Imported) /\ toolPc' = "waits"
    BY <1>1, <1>2, RequestGoesOut DEF ToolsInv
  <1>3. CASE toolPc' = "uploads" /\ UNCHANGED <<request, answer>>
    BY <1>1, <1>3 DEF ToolsInv, RequestIsOwn, LateIsUnknown, AnswerFits
  <1>4. CASE toolPc' = "told" /\ answer' \in {"unknown", "error"} /\ UNCHANGED request
    <2>1. \A r \in late : r.of # calls
      BY <1>1 DEF ToolsInv, LateIsUnknown
    <2>2. QED
      BY <1>1, <1>4, <2>1, NothingIsAsked DEF ToolsInv, RequestIsOwn, LateIsUnknown, AnswerFits
  <1>5. QED
    BY <1>2, <1>3, <1>4 DEF Prepares, Uploads, Ends, GoesOn

LEMMA ToolsGoOn == ToolsInv /\ [ToolsNext]_toolVars => ToolsInv'
  <1> SUFFICES ASSUME ToolsInv, [ToolsNext]_toolVars PROVE ToolsInv'
    OBVIOUS
  <1>1. ASSUME NEW s, NEW n, NEW source, AddNamed(s, n, source) PROVE ToolsInv'
    BY <1>1, CallStarts DEF AddNamed, Ends, GoesOn
  <1>2. ASSUME NEW scores, NEW ranks, NEW n, NEW source, AddRouted(scores, ranks, n, source)
        PROVE  ToolsInv'
    BY <1>2, CallStarts DEF AddRouted, GoesOn
  <1>3. ASSUME NEW n, NEW source, AddSkill(n, source) PROVE ToolsInv'
    BY <1>3, CallStarts DEF AddSkill, Ends, GoesOn
  <1>4. CASE AddUnsettled
    BY <1>4, CallStarts DEF AddUnsettled, Ends
  <1>5. CASE UNCHANGED toolVars
    BY <1>5 DEF toolVars, ToolsInv, RequestIsOwn, LateIsUnknown, AnswerFits
  <1>6. QED
    BY <1>1, <1>2, <1>3, <1>4, <1>5, PreparingKeeps, RemovalStarts, ServingKeeps, ServingLateKeeps,
       HearingKeeps, HearingNothingKeeps, NotHearingKeeps DEF ToolsNext

LEMMA ToolsInvariant == ToolsSpec => []ToolsInv
  BY ToolsStart, ToolsGoOn, PTL DEF ToolsSpec

\* Of the attempts all but the last were turned down as needing more.
LEMMA AttemptsBeforeTheLast ==
    ASSUME ToolsInv
    PROVE  /\ Len(past) + 1 \in DOMAIN Attempts /\ Attempts[Len(past) + 1] = request.became
           /\ \A i \in DOMAIN Attempts :
                 Attempts[i] \in {"done", "open"} => i = Len(past) + 1
  <1> DEFINE P == past
             b == request.became
  <1>1. P \in Seq({"nonempty"})
    BY DEF ToolsInv
  <1>2. Attempts = Append(P, b)
    BY DEF Attempts
  <1> HIDE DEF P, b
  <1>3. Len(P) \in Nat /\ \A i \in 1 .. Len(P) : P[i] = "nonempty"
    BY <1>1
  <1>4. /\ DOMAIN Append(P, b) = 1 .. (Len(P) + 1) /\ Append(P, b)[Len(P) + 1] = b
        /\ \A i \in 1 .. Len(P) : Append(P, b)[i] = P[i]
    BY <1>1, AppendProperties
  <1>5. \A i \in 1 .. (Len(P) + 1) : i \in 1 .. Len(P) \/ i = Len(P) + 1
    BY <1>3
  <1>6. Len(P) + 1 \in 1 .. (Len(P) + 1)
    BY <1>3
  <1>7. QED
    BY <1>2, <1>3, <1>4, <1>5, <1>6 DEF P, b

LEMMA ToolsTellTrue == ToolsInv => AnswerIsTrue
  BY AttemptsBeforeTheLast DEF ToolsInv, AnswerFits, AnswerIsTrue, IsDone, MayBeDone

LEMMA ToolsChangeOnce == ToolsInv => ChangedOnceAtMost
  <1> SUFFICES ASSUME ToolsInv PROVE ChangedOnceAtMost
    OBVIOUS
  <1> DEFINE changes == {i \in DOMAIN Attempts : Attempts[i] \in {"done", "open"}}
             last == Len(past) + 1
  <1>1. changes \subseteq {last}
    BY AttemptsBeforeTheLast
  <1>2. IsFiniteSet({last}) /\ Cardinality({last}) = 1
    BY FS_Singleton
  <1>3. Cardinality(changes) <= 1
    <2> HIDE DEF changes, last
    <2>1. QED
      BY <1>1, <1>2, FS_Subset
  <1>4. QED
    BY <1>3 DEF ChangedOnceAtMost
---------------------------------------------------------------------------
(* Storing and forgetting *)

MemorySessions == 0 .. MaxUses
Archives == [of : MemorySessions, texts : SUBSET Nat, task : {"running", "completed", "failed"},
             extracted : SUBSET Nat]

KeeperTypes ==
    /\ MaxUses \in Nat /\ uses \in 0 .. MaxUses
    /\ live \in [MemorySessions -> SUBSET Nat] /\ archives \in Seq(Archives)
    /\ \A i \in DOMAIN archives : /\ archives[i].extracted \subseteq archives[i].texts
                                  /\ archives[i].task = "running" => archives[i].extracted = {}

\* A call's text, and the session of its own, are used by no call before it.
CallsAreFresh ==
    /\ \A s \in MemorySessions : /\ \A t \in live[s] : t <= uses
                                 /\ s > uses => live[s] = {}
    /\ \A i \in DOMAIN archives : \A t \in archives[i].texts : t <= uses

\* A write is one of its call's: of its text, to the conversation or a session of its own.
IsWrite(w) ==
    /\ {"asks", "became", "archive", "call", "body"} \subseteq DOMAIN w
    /\ w.became \in {"open", "done", "skipped", "denied"} /\ w.body \in {"read", "lost"}
    /\ w.call \in MemorySessions /\ w.call > 0
    /\ w.asks.does \in {"add", "commit", "delete"}
    /\ w.asks.does \in {"add", "commit"} => w.asks.session \in {Conversation, w.call}
    /\ w.asks.does = "add" => w.asks.text = w.call

LateWritesAreUnheard ==
    \A w \in lateWrites :
        /\ IsWrite(w) /\ w.became = "open" /\ w.call <= uses
        /\ w.call = uses => Said("error")

WriteIsOwn ==
    \/ write = NoWrite /\ keeperPc \notin {"waits", "polls"} /\ keeper.name # "store"
    \/ /\ IsWrite(write) /\ write.call = uses
       /\ write.asks.does = "delete" => keeper.name = "forget"
       /\ write.asks.does # "delete" => /\ keeper.name = "store" /\ keeper.text = uses
                                        /\ keeper.session = write.asks.session
       /\ keeperPc = "polls" => write.asks.does = "commit" /\ write.became = "done"

\* Where the text t of a call in session s is: not written yet, in its session, in an
\* archive, and told of.
Nowhere(t, s) ==
    /\ \A q \in MemorySessions : t \notin live[q]
    /\ Holding(t) = {}
    /\ s # Conversation => live[s] = {}

Waiting(t, s) ==
    IF s = Conversation THEN t \in live[Conversation] \/ Holding(t) # {}
    ELSE /\ live[s] = {t} /\ Holding(t) = {}
         /\ \A q \in MemorySessions : t \in live[q] => q = s

Taken(t, s, i) ==
    IF s = Conversation THEN Holding(t) # {}
    ELSE /\ i \in DOMAIN archives /\ archives[i].texts = {t} /\ Holding(t) = {i}
         /\ \A q \in MemorySessions : t \notin live[q]

Stored(t, s, n) ==
    /\ Holding(t) # {}
    /\ n > 0 /\ s # Conversation => \E i \in Holding(t) : t \in archives[i].extracted

Failed(t, s) ==
    s # Conversation =>
       /\ \A q \in MemorySessions : t \notin live[q]
       /\ \A i \in Holding(t) : archives[i].task = "failed"

\* A session of its call's own has the text to itself.
AtHome(t, s) == s # Conversation => \A q \in MemorySessions : t \in live[q] => q = s

Waits(does, became) == keeperPc = "waits" /\ write.asks.does = does /\ write.became = became
Polls == keeperPc = "polls"

\* While no refusal of the call was lost.
TextStands ==
    keeper.name = "store" /\ write.body = "read" =>
       /\ Waits("add", "open") => Nowhere(uses, keeper.session)
       /\ Waits("add", "done") \/ Waits("commit", "open") => Waiting(uses, keeper.session)
       /\ Waits("commit", "done") \/ Polls => Taken(uses, keeper.session, write.archive)
       /\ Waits("commit", "skipped") => Stored(uses, keeper.session, 0)
       /\ Said("stored") => Stored(uses, keeper.session, word.counted)
       /\ Said("failed") => Failed(uses, keeper.session)
       /\ ~Said("error") => AtHome(uses, keeper.session)
       /\ ~Waits("add", "skipped")

MemoryIsGone ==
    /\ Waits("delete", "done") \/ SaidKnowing("forgotten") => write.asks.item \notin memories
    /\ ~Waits("delete", "skipped")

WordIsOfItsTool ==
    /\ Said("stored") \/ Said("failed") => keeper.name = "store"
    /\ Said("forgotten") => keeper.name = "forget"

KeeperInv ==
    /\ KeeperTypes /\ CallsAreFresh /\ LateWritesAreUnheard /\ WriteIsOwn /\ TextStands
    /\ MemoryIsGone /\ WordIsOfItsTool
    /\ keeperPc \in {"rest", "waits", "finds", "polls", "told"}
    /\ keeperPc = "finds" => keeper.name = "forget" /\ ~keeper.named
    /\ keeperPc # "rest" => uses > 0

LEMMA KeeperStarts == ASSUME MemoryToolsAssumption PROVE KeeperInit => KeeperInv
  <1> SUFFICES ASSUME KeeperInit PROVE KeeperInv
    OBVIOUS
  <1>1. KeeperTypes /\ CallsAreFresh
    BY DEF KeeperInit, KeeperTypes, CallsAreFresh, MemorySessions, MemoryToolsAssumption
  <1>2. keeper.name = "none" /\ keeperPc = "rest" /\ lateWrites = {} /\ write = NoWrite
    BY DEF KeeperInit, NoUse
  <1>3. QED
    BY <1>1, <1>2 DEF KeeperInv, LateWritesAreUnheard, WriteIsOwn, TextStands, MemoryIsGone, SaidKnowing,
       WordIsOfItsTool, Waits, Said

\* What another's move on the server leaves of a text and its session: its own session
\* gets nothing and is not archived, no other gets the text, archives stay and their
\* tasks may end.
LeavesBe(t, s) ==
    /\ \A q \in MemorySessions : t \in live'[q] => t \in live[q]
    /\ s # Conversation => live'[s] = live[s]
    /\ s = Conversation /\ t \in live[Conversation] => t \in live'[Conversation] \/ Holding(t)' # {}
    /\ s # Conversation => Holding(t)' = Holding(t)
    /\ Holding(t) \subseteq Holding(t)'
    /\ \A i \in DOMAIN archives :
          /\ i \in DOMAIN archives' /\ archives'[i].texts = archives[i].texts
          /\ archives[i].task # "running" => archives'[i] = archives[i]

LEMMA LeftBeStands ==
    ASSUME KeeperTypes, NEW t, NEW s \in MemorySessions, LeavesBe(t, s),
           NEW k, Nowhere(t, s) => Holding(t)' = {}
    PROVE  /\ Nowhere(t, s) => Nowhere(t, s)'
           /\ Waiting(t, s) => Waiting(t, s)'
           /\ Taken(t, s, k) => Taken(t, s, k)'
           /\ \A n : Stored(t, s, n) => Stored(t, s, n)'
           /\ Failed(t, s) => Failed(t, s)'
           /\ AtHome(t, s) => AtHome(t, s)'
  <1>1. Nowhere(t, s) => Nowhere(t, s)'
    BY DEF LeavesBe, Nowhere
  <1>2. Waiting(t, s) => Waiting(t, s)'
    BY DEF LeavesBe, Waiting
  <1>3. Taken(t, s, k) => Taken(t, s, k)'
    BY DEF LeavesBe, Taken
  <1>4. ASSUME NEW n, Stored(t, s, n) PROVE Stored(t, s, n)'
    <2>1. \A i \in Holding(t) : i \in DOMAIN archives
      BY DEF Holding
    <2>2. \A i \in Holding(t) : t \in archives[i].extracted => archives'[i] = archives[i]
      BY <2>1 DEF LeavesBe, KeeperTypes
    <2>3. QED
      BY <1>4, <2>2 DEF Stored, LeavesBe
  <1>5. Failed(t, s) => Failed(t, s)'
    <2>1. \A i \in Holding(t) : i \in DOMAIN archives
      BY DEF Holding
    <2>2. \A i \in Holding(t) : archives[i].task = "failed" => archives'[i] = archives[i]
      BY <2>1 DEF LeavesBe
    <2>3. QED
      BY <2>2 DEF Failed, LeavesBe
  <1>6. AtHome(t, s) => AtHome(t, s)'
    BY DEF LeavesBe, AtHome
  <1>7. QED
    BY <1>1, <1>2, <1>3, <1>4, <1>5, <1>6

\* The three things a server does to texts.
Adds(q, u) == live' = [live EXCEPT ![q] = @ \cup {u}] /\ UNCHANGED archives
Archives1(q) == /\ archives' = Append(archives, Archived(q))
                /\ live' = [live EXCEPT ![q] = {}]

LEMMA AddingLeavesBe ==
    ASSUME KeeperTypes, NEW q \in MemorySessions, NEW u, Adds(q, u), NEW t, t # u,
           NEW s \in MemorySessions, s = Conversation \/ s # q
    PROVE  LeavesBe(t, s) /\ Holding(t)' = Holding(t)
  <1>1. archives' = archives /\ Holding(t)' = Holding(t)
    BY DEF Adds, Holding
  <1>2. /\ \A p \in MemorySessions : p # q => live'[p] = live[p]
        /\ live'[q] = live[q] \cup {u}
    BY DEF Adds, KeeperTypes
  <1>3. Conversation \in MemorySessions
    BY DEF Conversation, MemorySessions, KeeperTypes
  <1>4. QED
    BY <1>1, <1>2, <1>3 DEF LeavesBe

LEMMA ArchiveIsAdded ==
    ASSUME KeeperTypes, NEW q \in MemorySessions, Archives1(q)
    PROVE  /\ Len(archives) + 1 \in DOMAIN archives' /\ Len(archives') = Len(archives) + 1
           /\ archives'[Len(archives) + 1] = Archived(q)
           /\ \A i \in DOMAIN archives : i \in DOMAIN archives' /\ archives'[i] = archives[i]
           /\ \A i \in DOMAIN archives' : i \in DOMAIN archives \/ i = Len(archives) + 1
           /\ Len(archives) + 1 \notin DOMAIN archives
           /\ \A t : Holding(t)' = Holding(t) \cup
                                     IF t \in live[q] THEN {Len(archives) + 1} ELSE {}
  <1> DEFINE A == archives
             a == Archived(q)
             B == Append(A, a)
             n == Len(A) + 1
  <1>1. A \in Seq(Archives) /\ archives' = B
    BY DEF KeeperTypes, Archives1
  <1>2. a.texts = live[q]
    BY DEF Archived
  <1> HIDE DEF A, a
  <1>3. Len(A) \in Nat /\ DOMAIN A = 1 .. Len(A)
    BY <1>1
  <1>4. /\ Len(B) = Len(A) + 1 /\ B[n] = a
        /\ \A i \in 1 .. Len(A) : B[i] = A[i]
        /\ DOMAIN B = 1 .. (Len(A) + 1)
    BY <1>1
  <1> HIDE DEF B
  <1>5. n \in DOMAIN B /\ n \notin DOMAIN A
    BY <1>3, <1>4
  <1>6. \A i \in DOMAIN B : i \in DOMAIN A \/ i = n
    BY <1>3, <1>4
  <1>7. \A i \in DOMAIN A : i \in DOMAIN B
    BY <1>3, <1>4
  <1> HIDE DEF n
  <1>8. \A i \in DOMAIN A : B[i] = A[i]
    BY <1>3, <1>4
  <1>9. \A t : {i \in DOMAIN B : t \in B[i].texts} =
               {i \in DOMAIN A : t \in A[i].texts} \cup IF t \in live[q] THEN {n} ELSE {}
    BY <1>2, <1>4, <1>5, <1>6, <1>7, <1>8
  <1>10. \A t : /\ Holding(t) = {i \in DOMAIN A : t \in A[i].texts}
                /\ Holding(t)' = {i \in DOMAIN B : t \in B[i].texts}
    BY <1>1 DEF Holding, A
  <1>11. QED
    BY <1>1, <1>4, <1>5, <1>6, <1>7, <1>8, <1>9, <1>10 DEF A, a, n

LEMMA ArchivingLeavesBe ==
    ASSUME KeeperTypes, NEW q \in MemorySessions, Archives1(q), NEW t,
           NEW s \in MemorySessions, s = Conversation \/ (s # q /\ (t \in live[q] => q = s))
    PROVE  LeavesBe(t, s) /\ (t \notin live[q] => Holding(t)' = Holding(t))
  <1>1. /\ \A p \in MemorySessions : p # q => live'[p] = live[p]
        /\ live'[q] = {}
    BY DEF Archives1, KeeperTypes
  <1>2. Holding(t)' = Holding(t) \cup IF t \in live[q] THEN {Len(archives) + 1} ELSE {}
    BY ArchiveIsAdded
  <1>3. \A i \in DOMAIN archives : i \in DOMAIN archives' /\ archives'[i] = archives[i]
    BY ArchiveIsAdded
  <1>4. Conversation \in MemorySessions
    BY DEF Conversation, MemorySessions, KeeperTypes
  <1>5. QED
    BY <1>1, <1>2, <1>3, <1>4 DEF LeavesBe

LEMMA TaskEndMeans ==
    ASSUME KeeperTypes, NEW i \in DOMAIN archives, TaskEnds(i)
    PROVE  /\ archives' \in Seq(Archives) /\ DOMAIN archives' = DOMAIN archives
           /\ \A j \in DOMAIN archives :
                 /\ archives'[j].texts = archives[j].texts
                 /\ archives[j].task # "running" => archives'[j] = archives[j]
                 /\ archives'[j].extracted \subseteq archives'[j].texts
                 /\ archives'[j].task = "running" => archives'[j].extracted = {}
           /\ \A t : Holding(t)' = Holding(t)
  <1>1. archives[i] \in Archives /\ archives[i].task = "running" /\ archives \in Seq(Archives)
    <2>1. archives \in Seq(Archives)
      BY DEF KeeperTypes
    <2>2. archives[i].task = "running"
      BY DEF TaskEnds
    <2>3. QED
      BY <2>1, <2>2
  <1>2. PICK b : archives' = [archives EXCEPT ![i] = b]
              /\ \/ \E made \in SUBSET archives[i].texts :
                       b = [archives[i] EXCEPT !.task = "completed", !.extracted = made]
                 \/ b = [archives[i] EXCEPT !.task = "failed"]
    BY DEF TaskEnds
  <1>3. /\ b \in Archives /\ b.texts = archives[i].texts /\ b.extracted \subseteq b.texts
        /\ b.task # "running"
    BY <1>1, <1>2 DEF Archives, KeeperTypes
  <1>4. /\ archives' \in Seq(Archives) /\ DOMAIN archives' = DOMAIN archives
        /\ archives'[i] = b /\ \A j \in DOMAIN archives : j # i => archives'[j] = archives[j]
    <2> DEFINE A == archives
    <2>1. A \in Seq(Archives) /\ i \in DOMAIN A /\ archives' = [A EXCEPT ![i] = b]
      BY <1>1, <1>2
    <2> HIDE DEF A
    <2>2. /\ [A EXCEPT ![i] = b] \in Seq(Archives) /\ DOMAIN [A EXCEPT ![i] = b] = DOMAIN A
          /\ [A EXCEPT ![i] = b][i] = b
          /\ \A j \in DOMAIN A : j # i => [A EXCEPT ![i] = b][j] = A[j]
      BY <1>3, <2>1
    <2>3. QED
      BY <2>1, <2>2 DEF A
  <1>5. \A j \in DOMAIN archives :
           /\ archives'[j].texts = archives[j].texts
           /\ archives[j].task # "running" => archives'[j] = archives[j]
           /\ archives'[j].extracted \subseteq archives'[j].texts
           /\ archives'[j].task = "running" => archives'[j].extracted = {}
    BY <1>1, <1>3, <1>4 DEF KeeperTypes
  <1>6. \A t : Holding(t)' = Holding(t)
    BY <1>4, <1>5 DEF Holding
  <1>7. QED
    BY <1>4, <1>5, <1>6

LEMMA AddingKeepsTypes ==
    ASSUME KeeperTypes, CallsAreFresh, NEW q \in MemorySessions, NEW u \in Nat, Adds(q, u),
           q <= uses, u <= uses, UNCHANGED uses
    PROVE  KeeperTypes' /\ CallsAreFresh'
  <1>1. /\ live' \in [MemorySessions -> SUBSET Nat]
        /\ \A p \in MemorySessions : p # q => live'[p] = live[p]
        /\ live'[q] = live[q] \cup {u}
    BY DEF Adds, KeeperTypes
  <1>2. archives' = archives
    BY DEF Adds
  <1>3. KeeperTypes'
    BY <1>1, <1>2 DEF KeeperTypes
  <1>4. ASSUME NEW s \in MemorySessions
        PROVE  (\A t \in live'[s] : t <= uses) /\ (s > uses => live'[s] = {})
    <2>1. CASE s = q
      <3>1. ~(s > uses)
        BY <2>1 DEF MemorySessions, KeeperTypes
      <3>2. QED
        BY <1>1, <2>1, <3>1 DEF CallsAreFresh
    <2>2. CASE s # q
      BY <1>1, <2>2 DEF CallsAreFresh
    <2>3. QED
      BY <2>1, <2>2
  <1>5. QED
    BY <1>2, <1>3, <1>4 DEF CallsAreFresh

LEMMA ArchivingKeepsTypes ==
    ASSUME KeeperTypes, CallsAreFresh, NEW q \in MemorySessions, Archives1(q), UNCHANGED uses
    PROVE  KeeperTypes' /\ CallsAreFresh'
  <1>1. /\ live' \in [MemorySessions -> SUBSET Nat]
        /\ \A p \in MemorySessions : p # q => live'[p] = live[p]
        /\ live'[q] = {}
    BY DEF Archives1, KeeperTypes
  <1>2. /\ Archived(q) \in Archives /\ Archived(q).texts = live[q]
        /\ Archived(q).extracted = {}
    BY DEF Archived, Archives, KeeperTypes
  <1>3. archives' \in Seq(Archives)
    <2>1. archives \in Seq(Archives)
      BY DEF KeeperTypes
    <2>2. QED
      BY <1>2, <2>1 DEF Archives1
  <1>4. \A i \in DOMAIN archives' : \/ i \in DOMAIN archives /\ archives'[i] = archives[i]
                                    \/ archives'[i] = Archived(q)
    BY ArchiveIsAdded
  <1>5. KeeperTypes'
    BY <1>1, <1>2, <1>3, <1>4 DEF KeeperTypes
  <1>6. \A i \in DOMAIN archives' : \A t \in archives'[i].texts : t <= uses
    BY <1>2, <1>4 DEF CallsAreFresh
  <1>7. \A s \in MemorySessions : /\ \A t \in live'[s] : t <= uses
                                  /\ s > uses => live'[s] = {}
    BY <1>1 DEF CallsAreFresh
  <1>8. QED
    BY <1>5, <1>6, <1>7 DEF CallsAreFresh

\* Who moves beside the running call leaves its word true.
LEMMA BesideKeeps ==
    ASSUME KeeperInv, UNCHANGED <<keeper, keeperPc, write, word, uses>>,
           lateWrites' \subseteq lateWrites, memories' \subseteq memories,
           KeeperTypes', CallsAreFresh',
           \/ Said("error") \/ keeper.name # "store" \/ write.body # "read"
           \/ \E t \in Nat, s \in MemorySessions :
                 /\ t = uses /\ s = keeper.session /\ LeavesBe(t, s)
                 /\ Nowhere(t, s) => Holding(t)' = {}
    PROVE  KeeperInv'
  <1>1. LateWritesAreUnheard' /\ WriteIsOwn' /\ MemoryIsGone' /\ WordIsOfItsTool'
    BY DEF KeeperInv, LateWritesAreUnheard, WriteIsOwn, MemoryIsGone, SaidKnowing, WordIsOfItsTool, IsWrite,
       Said, Waits
  <1>2. TextStands'
    <2>1. CASE Said("error")
      BY <2>1 DEF TextStands, Said, Waits, Polls
    <2>2. CASE keeper.name # "store" \/ write.body # "read"
      BY <2>2 DEF TextStands
    <2>3. ASSUME NEW t \in Nat, NEW s \in MemorySessions, t = uses, s = keeper.session,
                 LeavesBe(t, s), Nowhere(t, s) => Holding(t)' = {}
          PROVE  TextStands'
      <3>1. PICK k : k = write.archive
        OBVIOUS
      <3>2. PICK n : n = word.counted
        OBVIOUS
      <3>3. /\ Nowhere(t, s) => Nowhere(t, s)'
            /\ Waiting(t, s) => Waiting(t, s)'
            /\ Taken(t, s, k) => Taken(t, s, k)'
            /\ \A m : Stored(t, s, m) => Stored(t, s, m)'
            /\ Failed(t, s) => Failed(t, s)'
            /\ AtHome(t, s) => AtHome(t, s)'
        BY <2>3, LeftBeStands DEF KeeperInv
      <3>4. /\ t' = uses' /\ s' = keeper'.session /\ k' = write'.archive /\ n' = word'.counted
            /\ t' = t /\ s' = s /\ k' = k /\ n' = n
        BY <2>3, <3>1, <3>2
      <3>5. keeper.name = "store" /\ write.body = "read" =>
               /\ Waits("add", "open") => Nowhere(t, s)
               /\ Waits("add", "done") \/ Waits("commit", "open") => Waiting(t, s)
               /\ Waits("commit", "done") \/ Polls => Taken(t, s, k)
               /\ Waits("commit", "skipped") => Stored(t, s, 0)
               /\ Said("stored") => Stored(t, s, n)
               /\ Said("failed") => Failed(t, s)
               /\ ~Said("error") => AtHome(t, s)
               /\ ~Waits("add", "skipped")
        BY <2>3, <3>1, <3>2 DEF KeeperInv, TextStands
      <3>6. /\ \A d, b : Waits(d, b)' <=> Waits(d, b)
            /\ \A w : Said(w)' <=> Said(w)
            /\ Polls' <=> Polls
        BY DEF Waits, Said, Polls
      <3>7. QED
        BY <3>3, <3>4, <3>5, <3>6 DEF TextStands
    <2>4. QED
      BY <2>1, <2>2, <2>3
  <1>3. QED
    BY <1>1, <1>2 DEF KeeperInv

LEMMA EffectMeans ==
    ASSUME NEW w, w.does \in {"add", "commit", "delete"}, EffectOf(w)
    PROVE  \/ w.does = "add" /\ Adds(w.session, w.text) /\ UNCHANGED memories
           \/ w.does = "commit" /\ Archives1(w.session) /\ UNCHANGED memories
           \/ w.does = "delete" /\ memories' = memories \ {w.item} /\ UNCHANGED <<live, archives>>
  BY DEF EffectOf, Adds, Archives1

LEMMA RestingLeavesBe ==
    ASSUME UNCHANGED <<live, archives>>, NEW t, NEW s
    PROVE  LeavesBe(t, s) /\ Holding(t)' = Holding(t)
  BY DEF LeavesBe, Holding

LEMMA RestingKeepsTypes ==
    ASSUME KeeperTypes, CallsAreFresh, UNCHANGED <<live, archives, uses>>
    PROVE  KeeperTypes' /\ CallsAreFresh'
  BY DEF KeeperTypes, CallsAreFresh

\* The call's own text and session.
LEMMA OwnTextAndSession ==
    ASSUME KeeperInv, keeper.name = "store"
    PROVE  /\ uses \in Nat /\ uses > 0 /\ uses \in MemorySessions
           /\ keeper.session \in {Conversation, uses} /\ keeper.session \in MemorySessions
           /\ IsWrite(write) /\ write.call = uses /\ write.asks.does # "delete"
           /\ keeper.session = write.asks.session /\ keeper.text = uses
  <1>1. IsWrite(write) /\ write.call = uses /\ write.asks.does # "delete"
    BY DEF KeeperInv, WriteIsOwn
  <1>2. /\ keeper.session = write.asks.session /\ keeper.text = uses
        /\ write.asks.session \in {Conversation, uses}
    BY <1>1 DEF KeeperInv, WriteIsOwn, IsWrite
  <1>3. uses \in Nat /\ uses > 0 /\ uses \in MemorySessions /\ Conversation \in MemorySessions
    BY <1>1 DEF KeeperInv, KeeperTypes, IsWrite, Conversation, MemorySessions
  <1>4. QED
    BY <1>1, <1>2, <1>3

LEMMA LateWriteKeeps ==
    ASSUME KeeperInv, NEW r \in lateWrites, ServesLateWrite(r)
    PROVE  KeeperInv'
  <1>1. UNCHANGED <<keeper, keeperPc, write, word, uses>> /\ lateWrites' \subseteq lateWrites
    BY DEF ServesLateWrite
  <1>2. KeeperTypes /\ CallsAreFresh /\ uses \in Nat
    BY DEF KeeperInv, KeeperTypes
  <1>3. /\ IsWrite(r) /\ r.call \in MemorySessions /\ r.call \in Nat /\ r.call > 0 /\ r.call <= uses
        /\ r.call = uses => Said("error")
    BY DEF KeeperInv, LateWritesAreUnheard, IsWrite, MemorySessions
  <1>4. CASE UNCHANGED sessionVars
    <2>1. KeeperTypes' /\ CallsAreFresh' /\ memories' = memories
      BY <1>1, <1>2, <1>4, RestingKeepsTypes DEF sessionVars
    <2>2. keeper.name = "store" =>
             \E t \in Nat, s \in MemorySessions :
                /\ t = uses /\ s = keeper.session /\ LeavesBe(t, s)
                /\ Nowhere(t, s) => Holding(t)' = {}
      BY <1>4, OwnTextAndSession, RestingLeavesBe DEF sessionVars, Nowhere
    <2>3. QED
      BY <1>1, <2>1, <2>2, BesideKeeps
  <1>5. ASSUME r.asks.does = "add", Adds(r.asks.session, r.asks.text), UNCHANGED memories
        PROVE  KeeperInv'
    <2>1. PICK q \in MemorySessions, u \in Nat :
             /\ q = r.asks.session /\ u = r.asks.text
             /\ q \in {Conversation, u} /\ u = r.call /\ q <= uses
      <3>1. /\ r.asks.session \in {Conversation, r.call} /\ r.asks.text = r.call
        BY <1>3, <1>5 DEF IsWrite
      <3>2. Conversation \in MemorySessions /\ Conversation <= uses
        BY <1>2 DEF KeeperTypes, MemorySessions, Conversation
      <3>3. QED
        BY <1>3, <3>1, <3>2
    <2>2. Adds(q, u) /\ u <= uses
      BY <1>3, <1>5, <2>1
    <2>3. KeeperTypes' /\ CallsAreFresh'
      BY <1>1, <1>2, <2>1, <2>2, AddingKeepsTypes
    <2>4. ASSUME keeper.name = "store", ~Said("error"), write.body = "read"
          PROVE  \E t \in Nat, s \in MemorySessions :
                    /\ t = uses /\ s = keeper.session /\ LeavesBe(t, s)
                    /\ Nowhere(t, s) => Holding(t)' = {}
      <3>1. PICK t \in Nat, s \in MemorySessions :
               t = uses /\ s = keeper.session /\ s \in {Conversation, t} /\ t > 0
        BY <2>4, OwnTextAndSession
      <3>2. t # u /\ (s = Conversation \/ s # q)
        BY <1>3, <2>1, <2>4, <3>1 DEF Conversation
      <3>3. LeavesBe(t, s) /\ Holding(t)' = Holding(t)
        BY <1>2, <2>1, <2>2, <3>2, AddingLeavesBe
      <3>4. QED
        BY <3>1, <3>3 DEF Nowhere
    <2>5. QED
      BY <1>1, <1>5, <2>3, <2>4, BesideKeeps
  <1>6. ASSUME r.asks.does = "commit", Archives1(r.asks.session), UNCHANGED memories
        PROVE  KeeperInv'
    <2>1. PICK q \in MemorySessions : q = r.asks.session /\ q \in {Conversation, r.call}
      <3>1. r.asks.session \in {Conversation, r.call}
        BY <1>3, <1>6 DEF IsWrite
      <3>2. Conversation \in MemorySessions
        BY <1>2 DEF KeeperTypes, MemorySessions, Conversation
      <3>3. QED
        BY <1>3, <3>1, <3>2
    <2>2. Archives1(q)
      BY <1>6, <2>1
    <2>3. KeeperTypes' /\ CallsAreFresh'
      BY <1>1, <1>2, <2>2, ArchivingKeepsTypes
    <2>4. ASSUME keeper.name = "store", ~Said("error"), write.body = "read"
          PROVE  \E t \in Nat, s \in MemorySessions :
                    /\ t = uses /\ s = keeper.session /\ LeavesBe(t, s)
                    /\ Nowhere(t, s) => Holding(t)' = {}
      <3>1. PICK t \in Nat, s \in MemorySessions :
               t = uses /\ s = keeper.session /\ s \in {Conversation, t} /\ t > 0
        BY <2>4, OwnTextAndSession
      <3>2. s = Conversation \/ s # q
        BY <1>3, <2>1, <2>4, <3>1 DEF Conversation
      <3>3. AtHome(t, s)
        BY <2>4, <3>1 DEF KeeperInv, TextStands
      <3>4. s = Conversation \/ (s # q /\ (t \in live[q] => q = s))
        BY <3>2, <3>3 DEF AtHome
      <3>5. LeavesBe(t, s) /\ (t \notin live[q] => Holding(t)' = Holding(t))
        BY <1>2, <2>2, <3>4, ArchivingLeavesBe
      <3>6. QED
        BY <3>1, <3>5 DEF Nowhere
    <2>5. QED
      BY <1>1, <1>6, <2>3, <2>4, BesideKeeps
  <1>7. ASSUME memories' = memories \ {r.asks.item}, UNCHANGED <<live, archives>>
        PROVE  KeeperInv'
    <2>1. KeeperTypes' /\ CallsAreFresh' /\ memories' \subseteq memories
      BY <1>1, <1>2, <1>7, RestingKeepsTypes
    <2>2. keeper.name = "store" =>
             \E t \in Nat, s \in MemorySessions :
                /\ t = uses /\ s = keeper.session /\ LeavesBe(t, s)
                /\ Nowhere(t, s) => Holding(t)' = {}
      BY <1>7, OwnTextAndSession, RestingLeavesBe DEF Nowhere
    <2>3. QED
      BY <1>1, <2>1, <2>2, BesideKeeps
  <1>8. UNCHANGED sessionVars \/ EffectOf(r.asks)
    BY DEF ServesLateWrite
  <1>9. r.asks.does \in {"add", "commit", "delete"}
    BY <1>3 DEF IsWrite
  <1>10. QED
    BY <1>4, <1>5, <1>6, <1>7, <1>8, <1>9, EffectMeans

LEMMA TaskEndKeeps ==
    ASSUME KeeperInv, NEW i \in DOMAIN archives, TaskEnds(i)
    PROVE  KeeperInv'
  <1>1. /\ UNCHANGED <<keeper, keeperPc, write, word, uses>> /\ lateWrites' = lateWrites
        /\ memories' = memories /\ live' = live
    BY DEF TaskEnds
  <1>2. KeeperTypes /\ CallsAreFresh
    BY DEF KeeperInv
  <1>3. /\ archives' \in Seq(Archives) /\ DOMAIN archives' = DOMAIN archives
        /\ \A j \in DOMAIN archives :
              /\ archives'[j].texts = archives[j].texts
              /\ archives[j].task # "running" => archives'[j] = archives[j]
              /\ archives'[j].extracted \subseteq archives'[j].texts
              /\ archives'[j].task = "running" => archives'[j].extracted = {}
        /\ \A t : Holding(t)' = Holding(t)
    BY <1>2, TaskEndMeans
  <1>4. KeeperTypes' /\ CallsAreFresh'
    BY <1>1, <1>2, <1>3 DEF KeeperTypes, CallsAreFresh
  <1>5. ASSUME NEW t, NEW s PROVE LeavesBe(t, s) /\ Holding(t)' = Holding(t)
    BY <1>1, <1>3 DEF LeavesBe
  <1>6. keeper.name = "store" =>
           \E t \in Nat, s \in MemorySessions :
              /\ t = uses /\ s = keeper.session /\ LeavesBe(t, s)
              /\ Nowhere(t, s) => Holding(t)' = {}
    BY <1>5, OwnTextAndSession DEF Nowhere
  <1>7. QED
    BY <1>1, <1>4, <1>6, BesideKeeps

LEMMA ConversationKeeps ==
    ASSUME KeeperInv, ConversationSays \/ ConversationPours
    PROVE  KeeperInv'
  <1>1. UNCHANGED <<keeper, keeperPc, write, word, uses>> /\ lateWrites' = lateWrites
    BY DEF ConversationSays, ConversationPours
  <1>2. KeeperTypes /\ CallsAreFresh /\ uses \in Nat
    BY DEF KeeperInv, KeeperTypes
  <1>3. /\ Conversation \in MemorySessions /\ Conversation \in Nat /\ Conversation <= uses
        /\ Conversation = 0
    BY <1>2 DEF KeeperTypes, MemorySessions, Conversation
  <1>4. CASE ConversationSays
    <2>1. Adds(Conversation, Conversation) /\ memories' = memories
      BY <1>4 DEF ConversationSays, Adds
    <2>2. KeeperTypes' /\ CallsAreFresh'
      BY <1>1, <1>2, <1>3, <2>1, AddingKeepsTypes
    <2>3. ASSUME keeper.name = "store"
          PROVE  \E t \in Nat, s \in MemorySessions :
                    /\ t = uses /\ s = keeper.session /\ LeavesBe(t, s)
                    /\ Nowhere(t, s) => Holding(t)' = {}
      <3>1. PICK t \in Nat, s \in MemorySessions :
               t = uses /\ s = keeper.session /\ s \in {Conversation, t} /\ t > 0
        BY <2>3, OwnTextAndSession
      <3>2. t # Conversation
        BY <1>3, <3>1
      <3>3. LeavesBe(t, s) /\ Holding(t)' = Holding(t)
        BY <1>2, <1>3, <2>1, <3>2, AddingLeavesBe
      <3>4. QED
        BY <3>1, <3>3 DEF Nowhere
    <2>4. QED
      BY <1>1, <2>1, <2>2, <2>3, BesideKeeps
  <1>5. CASE ConversationPours
    <2>1. Archives1(Conversation) /\ memories' = memories
      BY <1>5 DEF ConversationPours, EffectOf, Archives1
    <2>2. KeeperTypes' /\ CallsAreFresh'
      BY <1>1, <1>2, <1>3, <2>1, ArchivingKeepsTypes
    <2>3. ASSUME keeper.name = "store", ~Said("error"), write.body = "read"
          PROVE  \E t \in Nat, s \in MemorySessions :
                    /\ t = uses /\ s = keeper.session /\ LeavesBe(t, s)
                    /\ Nowhere(t, s) => Holding(t)' = {}
      <3>1. PICK t \in Nat, s \in MemorySessions :
               t = uses /\ s = keeper.session /\ s \in {Conversation, t} /\ t > 0
        BY <2>3, OwnTextAndSession
      <3>2. AtHome(t, s)
        BY <2>3, <3>1 DEF KeeperInv, TextStands
      <3>3. s = Conversation \/ (s # Conversation /\ (t \in live[Conversation] => Conversation = s))
        BY <1>3, <3>2 DEF AtHome
      <3>4. LeavesBe(t, s) /\ (t \notin live[Conversation] => Holding(t)' = Holding(t))
        BY <1>2, <1>3, <2>1, <3>3, ArchivingLeavesBe
      <3>5. QED
        BY <1>3, <3>1, <3>4 DEF Nowhere
    <2>4. QED
      BY <1>1, <2>1, <2>2, <2>3, BesideKeeps
  <1>6. QED
    BY <1>4, <1>5

---------------------------------------------------------------------------
(* The steps of the call itself *)

\* A call begins: its text and session are new, what is late belongs to others.
LEMMA NewCallIsFresh ==
    ASSUME KeeperInv, NEW c, Used(c)
    PROVE  /\ KeeperTypes' /\ CallsAreFresh' /\ uses' > 0 /\ uses' \in MemorySessions
           /\ \A w \in lateWrites' :
                 IsWrite(w) /\ w.became = "open" /\ w.call <= uses' /\ w.call # uses'
           /\ \A q \in MemorySessions : uses' \notin live'[q]
           /\ \A i \in DOMAIN archives' : uses' \notin archives'[i].texts
           /\ live'[uses'] = {}
  <1>1. /\ uses' = uses + 1 /\ uses < MaxUses /\ uses \in Nat /\ MaxUses \in Nat
        /\ UNCHANGED <<live, archives, memories, lateWrites>>
    BY DEF Used, KeeperInv, KeeperTypes
  <1>2. KeeperTypes /\ CallsAreFresh
    BY DEF KeeperInv
  <1>3. uses' \in Nat /\ uses' \in 0 .. MaxUses /\ uses' > uses /\ uses' > 0
    BY <1>1
  <1>4. KeeperTypes'
    BY <1>1, <1>2, <1>3 DEF KeeperTypes
  <1>5. \A t \in Nat : t <= uses => t <= uses' /\ t # uses'
    BY <1>1
  <1>6. /\ \A s \in MemorySessions : live[s] \subseteq Nat
        /\ \A i \in DOMAIN archives : archives[i].texts \subseteq Nat
    <2>1. archives \in Seq(Archives) /\ live \in [MemorySessions -> SUBSET Nat]
      BY <1>2 DEF KeeperTypes
    <2>2. \A i \in DOMAIN archives : archives[i] \in Archives
      BY <2>1
    <2>3. QED
      BY <2>1, <2>2 DEF Archives
  <1>7. /\ \A s \in MemorySessions : \A t \in live[s] : t <= uses' /\ t # uses'
        /\ \A i \in DOMAIN archives : \A t \in archives[i].texts : t <= uses' /\ t # uses'
    BY <1>2, <1>5, <1>6 DEF CallsAreFresh
  <1>8. \A s \in MemorySessions : s >= uses' => live[s] = {}
    BY <1>1, <1>2 DEF CallsAreFresh, MemorySessions
  <1>9. CallsAreFresh'
    BY <1>1, <1>3, <1>7, <1>8 DEF CallsAreFresh, MemorySessions
  <1>10. \A w \in lateWrites : IsWrite(w) /\ w.became = "open" /\ w.call <= uses /\ w.call \in Nat
    BY DEF KeeperInv, LateWritesAreUnheard, IsWrite, MemorySessions
  <1>11. QED
    BY <1>1, <1>3, <1>4, <1>5, <1>7, <1>8, <1>9, <1>10 DEF MemorySessions

LEMMA StoringStarts ==
    ASSUME KeeperInv, NEW s, s = Conversation \/ s = uses + 1, MemoryStore(s)
    PROVE  KeeperInv'
  <1> DEFINE n == uses + 1
  <1>1. /\ uses' = n /\ keeper' = [name |-> "store", text |-> n, session |-> s]
        /\ write' = [asks |-> [does |-> "add", session |-> s, text |-> n],
                     became |-> "open", archive |-> 0, call |-> n, body |-> "read"]
        /\ keeperPc' = "waits" /\ word' = word
    BY DEF MemoryStore, Used, Submits
  <1>2. /\ KeeperTypes' /\ CallsAreFresh' /\ uses' > 0 /\ uses' \in MemorySessions
        /\ \A w \in lateWrites' :
              IsWrite(w) /\ w.became = "open" /\ w.call <= uses' /\ w.call # uses'
        /\ \A q \in MemorySessions : uses' \notin live'[q]
        /\ \A i \in DOMAIN archives' : uses' \notin archives'[i].texts
        /\ live'[uses'] = {}
    BY NewCallIsFresh DEF MemoryStore
  <1>3. /\ IsWrite(write)' /\ write'.call = uses'
        /\ write'.asks.does = "add" /\ write'.asks.session = s
    BY <1>1, <1>2 DEF IsWrite
  <1>4. /\ keeper'.name = "store" /\ keeper'.text = uses' /\ keeper'.session = s
        /\ s \in {Conversation, uses'} /\ write'.became = "open"
    BY <1>1
  <1> HIDE DEF n
  <1>5. LateWritesAreUnheard' /\ WriteIsOwn'
    BY <1>1, <1>2, <1>3, <1>4 DEF LateWritesAreUnheard, WriteIsOwn
  <1>6. PICK t : t = uses'
    OBVIOUS
  <1>7. Nowhere(t, s)' /\ AtHome(t, s)'
    <2>1. Holding(t)' = {}
      BY <1>2, <1>6 DEF Holding
    <2>2. QED
      BY <1>2, <1>4, <1>6, <2>1 DEF Nowhere, AtHome
  <1>8. TextStands'
    BY <1>1, <1>3, <1>4, <1>6, <1>7 DEF TextStands, Waits, Said, Polls, Nowhere, AtHome
  <1>9. MemoryIsGone' /\ WordIsOfItsTool'
    BY <1>1, <1>3 DEF MemoryIsGone, SaidKnowing, WordIsOfItsTool, Waits, Said
  <1>10. QED
    BY <1>1, <1>2, <1>4, <1>5, <1>8, <1>9 DEF KeeperInv

\* A call to forget: nothing is written, or the memory's deletion.
LEMMA ForgettingStarts ==
    ASSUME KeeperInv,
           \/ \E m \in Items : ForgetByUri(m)
           \/ \E found \in SUBSET Items : ForgetByQuery(found)
    PROVE  KeeperInv'
  <1>1. PICK found, named : Used([name |-> "forget", found |-> found, named |-> named])
    BY DEF ForgetByUri, ForgetByQuery
  <1>2. /\ KeeperTypes' /\ CallsAreFresh' /\ uses' > 0 /\ uses' \in MemorySessions
        /\ \A w \in lateWrites' :
              IsWrite(w) /\ w.became = "open" /\ w.call <= uses' /\ w.call # uses'
    BY <1>1, NewCallIsFresh
  <1>3. LateWritesAreUnheard'
    BY <1>2 DEF LateWritesAreUnheard
  <1>4. keeper'.name = "forget"
    BY <1>1 DEF Used
  <1>5. /\ keeperPc' \in {"waits", "finds", "told"}
        /\ \/ write' = NoWrite /\ keeperPc' \in {"finds", "told"}
           \/ /\ keeperPc' = "waits"
              /\ \E m : write' = [asks |-> [does |-> "delete", item |-> m],
                                  became |-> "open", archive |-> 0, call |-> uses',
                                  body |-> "read"]
        /\ keeperPc' = "finds" => ~keeper'.named
        /\ keeperPc' = "told" => word'.said = "rejected"
    BY DEF ForgetByUri, ForgetByQuery, Submits, Says, Used
  <1>6. WriteIsOwn' /\ MemoryIsGone'
    <2>1. CASE write' = NoWrite /\ keeperPc' \in {"finds", "told"}
      BY <1>4, <1>5, <2>1 DEF WriteIsOwn, MemoryIsGone, SaidKnowing, Waits, Said
    <2>2. CASE keeperPc' = "waits"
      <3>1. /\ IsWrite(write)' /\ write'.call = uses' /\ write'.asks.does = "delete"
            /\ write'.became = "open"
        BY <1>2, <1>5, <2>2 DEF IsWrite
      <3>2. QED
        BY <1>4, <2>2, <3>1 DEF WriteIsOwn, MemoryIsGone, SaidKnowing, Waits, Said
    <2>3. QED
      BY <1>5, <2>1, <2>2
  <1>7. TextStands' /\ WordIsOfItsTool'
    BY <1>4, <1>5 DEF TextStands, WordIsOfItsTool, Said
  <1>8. QED
    BY <1>2, <1>3, <1>4, <1>5, <1>6, <1>7 DEF KeeperInv

\* A call that ends in no word of what it did: an error, a refusal, nothing found.
LEMMA EndingWithoutAWord ==
    ASSUME KeeperInv, keeperPc \in {"finds", "waits", "polls"}, NEW said, NEW n, Says(said, n),
           said \notin {"stored", "failed", "forgotten"},
           UNCHANGED <<sessionVars, keeper, write, uses>>,
           \/ lateWrites' = lateWrites
           \/ write.became = "open" /\ keeperPc = "waits" /\ said = "error"
              /\ lateWrites' = lateWrites \cup {write}
    PROVE  KeeperInv'
  <1>1. keeperPc' = "told" /\ word'.said = said
    BY DEF Says
  <1>2. KeeperTypes' /\ CallsAreFresh'
    BY RestingKeepsTypes DEF KeeperInv, sessionVars
  <1>3. ~Said("error")
    BY DEF Said
  <1>4. LateWritesAreUnheard'
    <2>1. \A w \in lateWrites : w.call # uses
      BY <1>3 DEF KeeperInv, LateWritesAreUnheard
    <2>2. write.became = "open" /\ keeperPc = "waits" => IsWrite(write) /\ write.call = uses
      BY DEF KeeperInv, WriteIsOwn
    <2>3. write.became = "open" /\ keeperPc = "waits" => write.call <= uses
      BY <2>2 DEF KeeperInv, KeeperTypes
    <2>4. QED
      BY <1>1, <2>1, <2>2, <2>3 DEF KeeperInv, LateWritesAreUnheard, Said
  <1>5. WriteIsOwn' /\ WordIsOfItsTool' /\ MemoryIsGone'
    BY <1>1 DEF KeeperInv, WriteIsOwn, WordIsOfItsTool, MemoryIsGone, SaidKnowing, Said, Waits
  <1>6. TextStands'
    <2>1. keeper.name = "store" /\ write.body = "read" => AtHome(uses, keeper.session)
      BY <1>3 DEF KeeperInv, TextStands
    <2>2. keeper.name = "store" /\ write.body = "read" => AtHome(uses, keeper.session)'
      BY <2>1 DEF AtHome, sessionVars
    <2>3. QED
      BY <1>1, <2>2 DEF TextStands, Said, Waits, Polls
  <1>7. QED
    BY <1>1, <1>2, <1>4, <1>5, <1>6 DEF KeeperInv

LEMMA EndsBeforeAWord ==
    ASSUME KeeperInv, FindFails \/ WriteUnheard \/ PollGivesUp
    PROVE  KeeperInv'
  <1>1. CASE FindFails
    BY <1>1, EndingWithoutAWord DEF FindFails
  <1>2. CASE WriteUnheard
    <2>1. /\ keeperPc = "waits" /\ Says("error", 0)
          /\ UNCHANGED <<sessionVars, keeper, write, uses>>
          /\ \/ lateWrites' = lateWrites
             \/ write.became = "open" /\ lateWrites' = lateWrites \cup {write}
      BY <1>2 DEF WriteUnheard
    <2>2. QED
      BY <2>1, EndingWithoutAWord
  <1>3. CASE PollGivesUp
    BY <1>3, EndingWithoutAWord DEF PollGivesUp
  <1>4. QED
    BY <1>1, <1>2, <1>3

LEMMA FindingKeeps ==
    ASSUME KeeperInv, NEW order, FindAnswers(order)
    PROVE  KeeperInv'
  <1> DEFINE candidates == ForgetCandidates(order)
  <1>1. keeperPc = "finds" /\ UNCHANGED <<sessionVars, keeper, lateWrites, uses>>
    BY DEF FindAnswers
  <1>2. keeper.name = "forget"
    BY <1>1 DEF KeeperInv
  <1>3. CASE (\E said, n : said \in {"none", "candidates"} /\ Says(said, n)) /\ UNCHANGED write
    BY <1>1, <1>3, EndingWithoutAWord
  <1>4. CASE Submits([does |-> "delete", item |-> candidates[1]], "read")
    <2>1. /\ write' = [asks |-> [does |-> "delete", item |-> candidates[1]], became |-> "open",
                       archive |-> 0, call |-> uses', body |-> "read"]
          /\ keeperPc' = "waits" /\ word' = word
      BY <1>4 DEF Submits
    <2>2. uses \in MemorySessions /\ uses > 0
      BY <1>1 DEF KeeperInv, KeeperTypes, MemorySessions
    <2>3. /\ IsWrite(write)' /\ write'.call = uses' /\ write'.asks.does = "delete"
          /\ write'.became = "open"
      BY <1>1, <2>1, <2>2 DEF IsWrite
    <2>4. KeeperTypes' /\ CallsAreFresh'
      BY <1>1, RestingKeepsTypes DEF KeeperInv, sessionVars
    <2>5. LateWritesAreUnheard'
      BY <1>1 DEF KeeperInv, LateWritesAreUnheard, Said
    <2>6. WriteIsOwn' /\ MemoryIsGone' /\ TextStands' /\ WordIsOfItsTool'
      BY <1>1, <1>2, <2>1, <2>3
         DEF WriteIsOwn, MemoryIsGone, SaidKnowing, TextStands, WordIsOfItsTool, Waits, Said
    <2>7. QED
      BY <1>1, <2>1, <2>2, <2>4, <2>5, <2>6 DEF KeeperInv
  <1>5. QED
    BY <1>3, <1>4 DEF FindAnswers

\* The end of the wait for the task: what it made is of the text alone.
LEMMA PollingKeeps ==
    ASSUME KeeperInv, PollEnds
    PROVE  KeeperInv'
  <1> DEFINE i == write.archive
             a == archives[i]
  <1>1. /\ keeperPc = "polls" /\ a.task # "running"
        /\ UNCHANGED <<sessionVars, keeper, write, lateWrites, uses>>
        /\ keeperPc' = "told"
        /\ \/ a.task = "failed" /\ word' = [said |-> "failed", counted |-> 0]
           \/ a.task # "failed" /\ word' = [said |-> "stored", counted |-> Cardinality(a.extracted)]
    BY DEF PollEnds, Says
  <1>2. PICK t \in Nat, s \in MemorySessions : t = uses /\ s = keeper.session
    <2>1. keeper.name = "store"
      BY <1>1 DEF KeeperInv, WriteIsOwn
    <2>2. QED
      BY <2>1, OwnTextAndSession
  <1>3. /\ keeper.name = "store"
        /\ write.body = "read" => Taken(t, s, i) /\ AtHome(t, s)
    BY <1>1, <1>2 DEF KeeperInv, WriteIsOwn, TextStands, Polls, Said
  <1>0. PICK n : n = word'.counted
    OBVIOUS
  <1>4. ASSUME write.body = "read" PROVE Said("stored")' => Stored(t, s, n)
    <2>1. CASE s = Conversation
      BY <1>3, <1>4, <2>1 DEF Taken, Stored
    <2>2. CASE s # Conversation
      <3>1. i \in DOMAIN archives /\ a.texts = {t} /\ Holding(t) = {i}
        BY <1>3, <1>4, <2>2 DEF Taken
      <3>2. a.extracted \subseteq {t}
        BY <3>1 DEF KeeperInv, KeeperTypes
      <3>3. Cardinality(a.extracted) > 0 => a.extracted # {}
        BY FS_EmptySet
      <3>4. Said("stored")' => n = Cardinality(a.extracted)
        BY <1>0, <1>1 DEF Said
      <3>5. Said("stored")' /\ n > 0 => t \in archives[i].extracted
        BY <3>2, <3>3, <3>4
      <3>6. QED
        BY <3>1, <3>5 DEF Stored
    <2>3. QED
      BY <2>1, <2>2
  <1>5. ASSUME write.body = "read" PROVE Said("failed")' => Failed(t, s)
    BY <1>1, <1>3, <1>5 DEF Said, Failed, Taken
  <1>6. UNCHANGED <<live, archives, memories>>
    BY <1>1 DEF sessionVars
  <1>7. KeeperTypes' /\ CallsAreFresh'
    BY <1>1, <1>6, RestingKeepsTypes DEF KeeperInv
  <1>8. write.body = "read" =>
           /\ Said("stored")' => Stored(t, s, n)'
           /\ Said("failed")' => Failed(t, s)'
           /\ AtHome(t, s)'
    BY <1>3, <1>4, <1>5, <1>6 DEF Stored, Failed, AtHome, Holding
  <1>9. TextStands'
    <2>1. t' = uses' /\ s' = keeper'.session /\ n' = word'.counted
      BY <1>0, <1>1, <1>2
    <2>2. ~Polls' /\ \A d, b : ~Waits(d, b)'
      BY <1>1 DEF Polls, Waits
    <2>3. write' = write
      BY <1>1
    <2>4. QED
      BY <1>8, <2>1, <2>2, <2>3 DEF TextStands
  <1>10. LateWritesAreUnheard' /\ WriteIsOwn'
    BY <1>1 DEF KeeperInv, LateWritesAreUnheard, WriteIsOwn, Said
  <1>11. WordIsOfItsTool' /\ MemoryIsGone'
    BY <1>1, <1>3 DEF WordIsOfItsTool, MemoryIsGone, SaidKnowing, Said, Waits
  <1>12. QED
    BY <1>1, <1>7, <1>9, <1>10, <1>11 DEF KeeperInv

\* A call one of whose refusals was lost goes on, or ends, and nothing is said knowing.
LEMMA LosingARefusalKeeps ==
    ASSUME KeeperInv, keeperPc = "waits", write.became # "open",
           UNCHANGED <<sessionVars, keeper, lateWrites, uses>>,
           \/ write.asks.does = "add"
              /\ Submits([does |-> "commit", session |-> write.asks.session], "lost")
           \/ write.body = "lost" /\ write.asks.does = "commit" /\ write.became = "done"
              /\ keeperPc' = "polls" /\ UNCHANGED <<write, word>>
           \/ /\ keeperPc' = "told"
              /\ \/ write.body = "lost" /\ write' = write
                 \/ write' = [write EXCEPT !.body = "lost"]
              /\ word'.said = IF write.asks.does = "delete" THEN "forgotten" ELSE "stored"
    PROVE  KeeperInv'
  <1>1. /\ IsWrite(write) /\ write.call = uses /\ uses > 0 /\ uses \in MemorySessions
        /\ write.asks.does # "delete" =>
              keeper.name = "store" /\ keeper.session = write.asks.session /\ keeper.text = uses
        /\ write.asks.does = "delete" => keeper.name = "forget"
    BY DEF KeeperInv, WriteIsOwn, KeeperTypes, MemorySessions
  <1>2. KeeperTypes' /\ CallsAreFresh'
    BY RestingKeepsTypes DEF KeeperInv, sessionVars
  <1>3. LateWritesAreUnheard'
    BY DEF KeeperInv, LateWritesAreUnheard, Said
  <1>4. /\ IsWrite(write)' /\ write'.call = uses' /\ write'.body = "lost"
        /\ write'.asks.does = "delete" <=> write.asks.does = "delete"
        /\ write'.asks.does # "delete" => write'.asks.session = write.asks.session
        /\ keeperPc' = "polls" => write'.asks.does = "commit" /\ write'.became = "done"
        /\ keeperPc' = "waits" => write'.asks.does = "commit"
        /\ keeperPc' \in {"waits", "polls", "told"}
    <2>1. CASE /\ write.asks.does = "add"
               /\ Submits([does |-> "commit", session |-> write.asks.session], "lost")
      BY <1>1, <2>1 DEF Submits, IsWrite
    <2>2. CASE /\ write.body = "lost" /\ UNCHANGED write /\ keeperPc' \in {"polls", "told"}
               /\ keeperPc' = "polls" => write.asks.does = "commit" /\ write.became = "done"
      BY <1>1, <2>2 DEF IsWrite
    <2>3. CASE keeperPc' = "told" /\ write' = [write EXCEPT !.body = "lost"]
      <3>1. /\ write'.asks = write.asks /\ write'.became = write.became /\ write'.call = write.call
            /\ write'.body = "lost" /\ DOMAIN write' = DOMAIN write
        BY <1>1, <2>3 DEF IsWrite
      <3>2. QED
        BY <1>1, <2>3, <3>1 DEF IsWrite
    <2>4. QED
      BY <2>1, <2>2, <2>3
  <1>5. WriteIsOwn' /\ TextStands'
    BY <1>1, <1>4 DEF WriteIsOwn, TextStands
  <1>6. MemoryIsGone'
    BY <1>4 DEF MemoryIsGone, SaidKnowing, Waits
  <1>7. WordIsOfItsTool'
    BY <1>1 DEF WordIsOfItsTool, Said, Submits, KeeperInv
  <1>8. QED
    BY <1>1, <1>2, <1>3, <1>4, <1>5, <1>6, <1>7 DEF KeeperInv

LEMMA HearingOfAWriteKeeps ==
    ASSUME KeeperInv, WriteHeard
    PROVE  KeeperInv'
  <1>1. /\ keeperPc = "waits" /\ write.became # "open"
        /\ UNCHANGED <<sessionVars, keeper, lateWrites, uses>>
    BY DEF WriteHeard
  <1>2. /\ IsWrite(write) /\ write.call = uses /\ uses > 0 /\ uses \in MemorySessions
        /\ write.asks.does # "delete" =>
              keeper.name = "store" /\ keeper.session = write.asks.session /\ keeper.text = uses
        /\ write.asks.does = "delete" => keeper.name = "forget"
    BY <1>1 DEF KeeperInv, WriteIsOwn, KeeperTypes, MemorySessions
  <1>3. KeeperTypes' /\ CallsAreFresh'
    BY <1>1, RestingKeepsTypes DEF KeeperInv, sessionVars
  <1>4. LateWritesAreUnheard'
    BY <1>1 DEF KeeperInv, LateWritesAreUnheard, Said
  <1>5. CASE write.became = "denied"
    BY <1>1, <1>5, EndingWithoutAWord DEF WriteHeard
  <1>0. CASE write.became # "denied" /\ write.body = "lost"
    BY <1>0, <1>1, <1>2, LosingARefusalKeeps DEF WriteHeard, Says, IsWrite
  <1>6. CASE write.became # "denied" /\ write.asks.does = "delete"
    <2>1. write.became = "done" /\ write.asks.item \notin memories
      BY <1>1, <1>2, <1>6 DEF KeeperInv, MemoryIsGone, SaidKnowing, Waits, IsWrite
    <2>2. keeperPc' = "told" /\ word'.said = "forgotten" /\ write' = write
      BY <1>1, <1>6, <2>1 DEF WriteHeard, Says
    <2>3. WriteIsOwn' /\ MemoryIsGone' /\ WordIsOfItsTool' /\ TextStands'
      BY <1>1, <1>2, <1>6, <2>1, <2>2
         DEF WriteIsOwn, MemoryIsGone, SaidKnowing, WordIsOfItsTool, TextStands, Waits, Said, sessionVars,
             KeeperInv
    <2>4. QED
      BY <1>1, <1>2, <1>3, <1>4, <2>2, <2>3 DEF KeeperInv
  <1>7. CASE write.became # "denied" /\ write.asks.does # "delete" /\ write.body = "read"
    <2>1. PICK t \in Nat, s \in MemorySessions : t = uses /\ s = keeper.session
      BY <1>2, <1>7, OwnTextAndSession
    <2>2. /\ keeper.name = "store" /\ AtHome(t, s)
          /\ Waits("add", "done") => Waiting(t, s)
          /\ Waits("commit", "done") => Taken(t, s, write.archive)
          /\ Waits("commit", "skipped") => Stored(t, s, 0)
          /\ ~Waits("add", "skipped")
      BY <1>1, <1>2, <1>7, <2>1 DEF KeeperInv, TextStands, Said
    <2>3. UNCHANGED <<live, archives, memories>>
      BY <1>1 DEF sessionVars
    <2>4. PICK k : k = write.archive
      OBVIOUS
    <2>5. /\ AtHome(t, s)' /\ (Waiting(t, s) => Waiting(t, s)')
          /\ (Taken(t, s, k) => Taken(t, s, k)') /\ (Stored(t, s, 0) => Stored(t, s, 0)')
      BY <2>2, <2>3 DEF AtHome, Waiting, Taken, Stored, Holding
    <2>6. CASE write.asks.does = "add"
      <3>1. write.became = "done"
        BY <1>1, <1>2, <1>7, <2>2, <2>6 DEF IsWrite, Waits
      <3>2. /\ write' = [asks |-> [does |-> "commit", session |-> write.asks.session],
                         became |-> "open", archive |-> 0, call |-> uses', body |-> "read"]
            /\ keeperPc' = "waits" /\ word' = word
        BY <1>1, <1>7, <2>6 DEF WriteHeard, Submits
      <3>3. /\ IsWrite(write)' /\ write'.call = uses' /\ write'.asks.does = "commit"
            /\ write'.became = "open" /\ write'.asks.session = write.asks.session
        BY <1>1, <1>2, <2>6, <3>2 DEF IsWrite
      <3>4. Waiting(t, s)'
        BY <1>1, <2>2, <2>5, <2>6, <3>1 DEF Waits
      <3>5. t' = uses' /\ s' = keeper'.session
        BY <1>1, <2>1
      <3>6. TextStands'
        BY <2>5, <3>2, <3>3, <3>4, <3>5 DEF TextStands, Waits, Said, Polls
      <3>7. WriteIsOwn' /\ MemoryIsGone' /\ WordIsOfItsTool'
        BY <1>1, <1>2, <2>2, <2>6, <3>2, <3>3
           DEF WriteIsOwn, MemoryIsGone, SaidKnowing, WordIsOfItsTool, Waits, Said
      <3>8. QED
        BY <1>1, <1>2, <1>3, <1>4, <3>2, <3>6, <3>7 DEF KeeperInv
    <2>7. CASE write.asks.does = "commit" /\ write.became = "done"
      <3>1. keeperPc' = "polls" /\ UNCHANGED <<write, word>>
        BY <1>1, <2>7 DEF WriteHeard
      <3>2. Taken(t, s, k)'
        BY <1>1, <2>2, <2>4, <2>5, <2>7 DEF Waits
      <3>3. t' = uses' /\ s' = keeper'.session /\ k' = write'.archive
        BY <1>1, <2>1, <2>4, <3>1
      <3>4. TextStands'
        BY <2>5, <2>7, <3>1, <3>2, <3>3 DEF TextStands, Waits, Said, Polls
      <3>5. WriteIsOwn' /\ MemoryIsGone' /\ WordIsOfItsTool'
        BY <1>1, <1>2, <2>7, <3>1
           DEF WriteIsOwn, MemoryIsGone, SaidKnowing, WordIsOfItsTool, Waits, Said, IsWrite
      <3>6. QED
        BY <1>1, <1>2, <1>3, <1>4, <3>1, <3>4, <3>5 DEF KeeperInv
    <2>8. CASE write.asks.does = "commit" /\ write.became = "skipped"
      <3>1. keeperPc' = "told" /\ word' = [said |-> "stored", counted |-> 0] /\ write' = write
        BY <1>1, <2>8 DEF WriteHeard, Says
      <3>2. Stored(t, s, 0)'
        BY <1>1, <2>2, <2>5, <2>8 DEF Waits
      <3>3. t' = uses' /\ s' = keeper'.session
        BY <1>1, <2>1
      <3>4. TextStands'
        BY <2>5, <3>1, <3>2, <3>3 DEF TextStands, Waits, Said, Polls
      <3>5. WriteIsOwn' /\ MemoryIsGone' /\ WordIsOfItsTool'
        BY <1>1, <1>2, <2>2, <2>8, <3>1
           DEF WriteIsOwn, MemoryIsGone, SaidKnowing, WordIsOfItsTool, Waits, Said, IsWrite
      <3>6. QED
        BY <1>1, <1>2, <1>3, <1>4, <3>1, <3>4, <3>5 DEF KeeperInv
    <2>9. QED
      BY <1>1, <1>2, <1>7, <2>6, <2>7, <2>8 DEF IsWrite
  <1>8. QED
    BY <1>0, <1>2, <1>5, <1>6, <1>7 DEF IsWrite

\* An answer without content is one that was heard, a refusal that is lost, or a commit
\* told before its task is over.
LEMMA HearingBlankKeeps ==
    ASSUME KeeperInv, WriteHeardBlank
    PROVE  KeeperInv'
  <1>1. /\ keeperPc = "waits" /\ write.became # "open"
        /\ UNCHANGED <<sessionVars, keeper, lateWrites, uses>>
    BY DEF WriteHeardBlank
  <1>2. /\ IsWrite(write) /\ write.call = uses /\ uses > 0 /\ uses \in MemorySessions
        /\ write.asks.does # "delete" => keeper.name = "store"
    BY <1>1 DEF KeeperInv, WriteIsOwn, KeeperTypes, MemorySessions
  <1>3. CASE write.became = "denied"
    BY <1>1, <1>2, <1>3, LosingARefusalKeeps DEF WriteHeardBlank, Says, IsWrite
  <1>4. CASE write.became # "denied" /\ write.body = "lost"
    BY <1>1, <1>2, <1>4, LosingARefusalKeeps DEF WriteHeardBlank, Says, IsWrite
  <1>5. CASE /\ write.became # "denied"
             /\ write.asks.does # "commit" \/ write.became = "skipped"
    BY <1>1, <1>2, <1>5, HearingOfAWriteKeeps DEF WriteHeardBlank, WriteHeard, IsWrite
  <1>6. CASE /\ write.asks.does = "commit" /\ write.became = "done" /\ write.body = "read"
    <2>1. keeperPc' = "told" /\ word' = [said |-> "stored", counted |-> 0] /\ write' = write
      BY <1>6 DEF WriteHeardBlank, Says
    <2>2. PICK t \in Nat, s \in MemorySessions : t = uses /\ s = keeper.session
      BY <1>2, <1>6, OwnTextAndSession
    <2>3. PICK k : k = write.archive
      OBVIOUS
    <2>4. keeper.name = "store" /\ AtHome(t, s) /\ Taken(t, s, k)
      BY <1>1, <1>2, <1>6, <2>2, <2>3 DEF KeeperInv, TextStands, Said, Waits
    <2>5. UNCHANGED <<live, archives, memories>>
      BY <1>1 DEF sessionVars
    <2>6. AtHome(t, s)' /\ Stored(t, s, 0)'
      BY <2>4, <2>5 DEF AtHome, Taken, Stored, Holding
    <2>7. t' = uses' /\ s' = keeper'.session
      BY <1>1, <2>2
    <2>8. TextStands'
      BY <2>1, <2>6, <2>7 DEF TextStands, Waits, Said, Polls
    <2>9. KeeperTypes' /\ CallsAreFresh'
      BY <1>1, RestingKeepsTypes DEF KeeperInv, sessionVars
    <2>10. LateWritesAreUnheard'
      BY <1>1 DEF KeeperInv, LateWritesAreUnheard, Said
    <2>11. WriteIsOwn' /\ MemoryIsGone' /\ WordIsOfItsTool'
      BY <1>1, <1>2, <1>6, <2>1, <2>4
         DEF KeeperInv, WriteIsOwn, MemoryIsGone, SaidKnowing, WordIsOfItsTool, Waits, Said, IsWrite
    <2>12. QED
      BY <1>1, <1>2, <2>1, <2>8, <2>9, <2>10, <2>11 DEF KeeperInv
  <1>7. QED
    BY <1>1, <1>2, <1>3, <1>4, <1>5, <1>6 DEF IsWrite

\* What the server does with the call's write.
LEMMA ServedWriteStands ==
    ASSUME KeeperTypes, NEW t \in Nat, NEW s \in MemorySessions
    PROVE  /\ Adds(s, t) /\ Nowhere(t, s) => Waiting(t, s)'
           /\ Archives1(s) /\ Waiting(t, s) =>
                 \E n : n = Len(archives') /\ Taken(t, s, n)'
           /\ live[s] = {} /\ Waiting(t, s) => Stored(t, s, 0)
  <1>1. ASSUME Adds(s, t), Nowhere(t, s) PROVE Waiting(t, s)'
    <2>1. Holding(t)' = {} /\ t \in live'[s]
      BY <1>1 DEF Adds, Nowhere, Holding, KeeperTypes
    <2>2. \A q \in MemorySessions : t \in live'[q] => q = s
      BY <1>1 DEF Adds, Nowhere, KeeperTypes
    <2>3. s # Conversation => live'[s] = {t}
      BY <1>1 DEF Adds, Nowhere, KeeperTypes
    <2>4. QED
      BY <2>1, <2>2, <2>3 DEF Waiting
  <1>2. ASSUME Archives1(s), Waiting(t, s) PROVE \E n : n = Len(archives') /\ Taken(t, s, n)'
    <2>1. PICK n : n = Len(archives) + 1
      OBVIOUS
    <2>2. /\ n \in DOMAIN archives' /\ archives'[n] = Archived(s) /\ n = Len(archives')
          /\ Holding(t)' = Holding(t) \cup IF t \in live[s] THEN {n} ELSE {}
      BY <1>2, <2>1, ArchiveIsAdded
    <2>3. /\ \A p \in MemorySessions : p # s => live'[p] = live[p]
          /\ live'[s] = {}
      BY <1>2 DEF Archives1, KeeperTypes
    <2>4. archives'[n].texts = live[s]
      BY <2>2 DEF Archived
    <2>5. Taken(t, s, n)'
      BY <1>2, <2>2, <2>3, <2>4 DEF Taken, Waiting
    <2>6. QED
      BY <2>2, <2>5
  <1>3. ASSUME live[s] = {}, Waiting(t, s) PROVE Stored(t, s, 0)
    BY <1>3 DEF Waiting, Stored
  <1>4. QED
    BY <1>1, <1>2, <1>3

LEMMA ServingAWriteKeeps ==
    ASSUME KeeperInv, ServesWrite
    PROVE  KeeperInv'
  <1>1. /\ keeperPc = "waits" /\ write.became = "open"
        /\ UNCHANGED <<keeper, keeperPc, lateWrites, word, uses>>
    BY DEF ServesWrite
  <1>2. /\ IsWrite(write) /\ write.call = uses /\ uses > 0 /\ uses \in MemorySessions
        /\ write.asks.does # "delete" =>
              keeper.name = "store" /\ keeper.session = write.asks.session /\ keeper.text = uses
        /\ write.asks.does = "delete" => keeper.name = "forget"
    BY <1>1 DEF KeeperInv, WriteIsOwn, KeeperTypes, MemorySessions
  <1>3. KeeperTypes /\ CallsAreFresh /\ uses \in Nat
    BY DEF KeeperInv, KeeperTypes
  <1>4. PICK verdict \in {VerdictOn(write.asks), "denied"} :
            /\ IF verdict = "done" THEN EffectOf(write.asks) ELSE UNCHANGED sessionVars
            /\ write' = [write EXCEPT !.became = verdict, !.archive = Len(archives')]
    BY DEF ServesWrite
  <1>5. /\ {"asks", "became", "archive", "call", "body"} \subseteq DOMAIN write'
        /\ write'.asks = write.asks /\ write'.call = write.call /\ write'.body = write.body
        /\ write'.became = verdict /\ write'.archive = Len(archives')
    BY <1>2, <1>4 DEF IsWrite
  <1>6. verdict \in {"done", "skipped", "denied"}
    BY <1>4 DEF VerdictOn
  <1>7. IsWrite(write)' /\ WriteIsOwn'
    BY <1>1, <1>2, <1>5, <1>6 DEF IsWrite, WriteIsOwn
  <1>8. LateWritesAreUnheard' /\ WordIsOfItsTool'
    BY <1>1 DEF KeeperInv, LateWritesAreUnheard, WordIsOfItsTool, Said
  <1>9. ASSUME KeeperTypes', CallsAreFresh', TextStands', MemoryIsGone' PROVE KeeperInv'
    BY <1>1, <1>2, <1>7, <1>8, <1>9 DEF KeeperInv
  <1>10. CASE write.asks.does = "delete"
    <2>1. verdict # "skipped"
      BY <1>4, <1>10 DEF VerdictOn
    <2>2. /\ UNCHANGED <<live, archives>>
          /\ verdict = "done" => memories' = memories \ {write.asks.item}
      BY <1>4, <1>10 DEF EffectOf, sessionVars
    <2>3. KeeperTypes' /\ CallsAreFresh'
      BY <1>1, <1>3, <2>2, RestingKeepsTypes
    <2>4. TextStands' /\ MemoryIsGone'
      BY <1>1, <1>2, <1>5, <1>10, <2>1, <2>2 DEF TextStands, MemoryIsGone, SaidKnowing, Waits, Said
    <2>5. QED
      BY <1>9, <2>3, <2>4
  <1>11. CASE write.asks.does # "delete"
    <2>1. PICK t \in Nat, s \in MemorySessions :
             t = uses /\ s = keeper.session /\ s = write.asks.session /\ t > 0
             /\ s \in {Conversation, t}
      BY <1>2, <1>11, OwnTextAndSession
    <2>0. write.body # "read" => TextStands'
      BY <1>5 DEF TextStands
    <2>2. write.body = "read" =>
             /\ keeper.name = "store" /\ AtHome(t, s)
             /\ write.asks.does = "add" => Nowhere(t, s)
             /\ write.asks.does = "commit" => Waiting(t, s)
      BY <1>1, <1>2, <1>11, <2>1 DEF KeeperInv, TextStands, Said, Waits, IsWrite
    <2>3. t' = uses' /\ s' = keeper'.session
      BY <1>1, <2>1
    <2>4. MemoryIsGone'
      BY <1>1, <1>5, <1>11 DEF MemoryIsGone, SaidKnowing, Waits, Said
    <2>5. CASE verdict = "denied"
      <3>1. UNCHANGED <<live, archives, memories>>
        BY <1>4, <2>5 DEF sessionVars
      <3>2. KeeperTypes' /\ CallsAreFresh' /\ (write.body = "read" => AtHome(t, s)')
        BY <1>1, <1>3, <2>2, <3>1, RestingKeepsTypes DEF AtHome
      <3>3. TextStands'
        BY <1>1, <1>5, <2>0, <2>3, <2>5, <3>2 DEF TextStands, Waits, Said, Polls
      <3>4. QED
        BY <1>9, <2>4, <3>2, <3>3
    <2>6. CASE verdict # "denied" /\ write.asks.does = "add"
      <3>1. verdict = "done" /\ Adds(s, t)
        <4>1. verdict = "done" /\ EffectOf(write.asks)
          BY <1>4, <2>6 DEF VerdictOn
        <4>2. write.asks.text = t
          BY <1>2, <2>1, <2>6 DEF IsWrite
        <4>3. QED
          BY <2>1, <2>6, <4>1, <4>2 DEF EffectOf, Adds
      <3>2. t <= uses /\ s <= uses
        BY <1>3, <2>1 DEF Conversation
      <3>3. KeeperTypes' /\ CallsAreFresh'
        BY <1>1, <1>3, <3>1, <3>2, AddingKeepsTypes
      <3>4. write.body = "read" => Waiting(t, s)'
        BY <1>3, <2>2, <2>6, <3>1, ServedWriteStands
      <3>5. write.body = "read" => AtHome(t, s)'
        BY <3>4 DEF AtHome, Waiting
      <3>6. TextStands'
        BY <1>1, <1>5, <2>0, <2>3, <2>6, <3>1, <3>4, <3>5 DEF TextStands, Waits, Said, Polls
      <3>7. QED
        BY <1>9, <2>4, <3>3, <3>6
    <2>7. CASE verdict # "denied" /\ write.asks.does = "commit" /\ live[s] = {}
      <3>1. verdict = "skipped" /\ UNCHANGED <<live, archives, memories>>
        BY <1>4, <2>1, <2>7 DEF VerdictOn, sessionVars
      <3>2. KeeperTypes' /\ CallsAreFresh' /\ (write.body = "read" => AtHome(t, s)')
        BY <1>1, <1>3, <2>2, <3>1, RestingKeepsTypes DEF AtHome
      <3>3. write.body = "read" => Stored(t, s, 0)
        BY <1>3, <2>2, <2>7, ServedWriteStands
      <3>4. write.body = "read" => Stored(t, s, 0)'
        BY <3>1, <3>3 DEF Stored, Holding
      <3>5. TextStands'
        BY <1>1, <1>5, <2>0, <2>3, <2>7, <3>1, <3>2, <3>4 DEF TextStands, Waits, Said, Polls
      <3>6. QED
        BY <1>9, <2>4, <3>2, <3>5
    <2>8. CASE verdict # "denied" /\ write.asks.does = "commit" /\ live[s] # {}
      <3>1. verdict = "done" /\ Archives1(s)
        BY <1>4, <2>1, <2>8 DEF VerdictOn, EffectOf, Archives1
      <3>2. KeeperTypes' /\ CallsAreFresh'
        BY <1>1, <1>3, <3>1, ArchivingKeepsTypes
      <3>3. PICK n : n = Len(archives') /\ (write.body = "read" => Taken(t, s, n)')
        BY <1>3, <2>2, <2>8, <3>1, ServedWriteStands
      <3>4. write.body = "read" => AtHome(t, s)'
        BY <3>3 DEF AtHome, Taken
      <3>5. n' = write'.archive
        BY <1>5, <3>3
      <3>6. TextStands'
        BY <1>1, <1>5, <2>0, <2>3, <2>8, <3>1, <3>3, <3>4, <3>5 DEF TextStands, Waits, Said, Polls
      <3>7. QED
        BY <1>9, <2>4, <3>2, <3>6
    <2>9. QED
      BY <1>2, <1>11, <2>5, <2>6, <2>7, <2>8 DEF IsWrite
  <1>12. QED
    BY <1>10, <1>11

LEMMA KeeperGoesOn == KeeperInv /\ [KeeperNext]_keeperVars => KeeperInv'
  <1> SUFFICES ASSUME KeeperInv, [KeeperNext]_keeperVars PROVE KeeperInv'
    OBVIOUS
  <1>1. CASE MemoryStore(Conversation) \/ MemoryStore(uses + 1)
    <2>1. PICK s : (s = Conversation \/ s = uses + 1) /\ MemoryStore(s)
      BY <1>1
    <2>2. QED
      BY <2>1, StoringStarts
  <1>2. CASE UNCHANGED keeperVars
    <2>1. UNCHANGED <<live, archives, memories, keeper, keeperPc, write, lateWrites, word, uses>>
      BY <1>2 DEF keeperVars
    <2>2. KeeperTypes' /\ CallsAreFresh'
      BY <2>1, RestingKeepsTypes DEF KeeperInv
    <2>3. keeper.name = "store" =>
             \E t \in Nat, s \in MemorySessions :
                /\ t = uses /\ s = keeper.session /\ LeavesBe(t, s)
                /\ Nowhere(t, s) => Holding(t)' = {}
      BY <2>1, OwnTextAndSession, RestingLeavesBe DEF Nowhere
    <2>4. QED
      BY <2>1, <2>2, <2>3, BesideKeeps
  <1>3. QED
    BY <1>1, <1>2, ForgettingStarts, FindingKeeps, EndsBeforeAWord, ServingAWriteKeeps,
       LateWriteKeeps, TaskEndKeeps, ConversationKeeps, HearingOfAWriteKeeps,
       HearingBlankKeeps, PollingKeeps
       DEF KeeperNext

LEMMA KeeperInvariant == ASSUME MemoryToolsAssumption PROVE KeeperSpec => []KeeperInv
  <1>1. KeeperInit => KeeperInv
    BY KeeperStarts
  <1>2. QED
    BY <1>1, KeeperGoesOn, PTL DEF KeeperSpec

LEMMA KeeperTells == KeeperInv => KeeperTellsTrue
  <1> SUFFICES ASSUME KeeperInv PROVE KeeperTellsTrue
    OBVIOUS
  <1>1. ASSUME SaidKnowing("stored") \/ SaidKnowing("failed")
        PROVE  /\ keeper.name = "store" /\ keeper.text = uses
               /\ Said("stored") => Stored(uses, keeper.session, word.counted)
               /\ Said("failed") => Failed(uses, keeper.session)
               /\ keeper.session \in MemorySessions
    BY <1>1, OwnTextAndSession DEF KeeperInv, WordIsOfItsTool, TextStands, SaidKnowing
  <1>2. SaidKnowing("forgotten") => write.asks.item \notin memories
    BY DEF KeeperInv, MemoryIsGone, SaidKnowing
  <1>3. QED
    BY <1>1, <1>2 DEF KeeperTellsTrue, Stored, Failed, SaidKnowing
---------------------------------------------------------------------------
(* Forgetting by a search *)

\* An order of what was found is a list of it that has all of it.
LEMMA OrderIsOfAll ==
    ASSUME NEW found, IsFiniteSet(found), NEW order \in SetToSeqs(found)
    PROVE  /\ order \in Seq(found)
           /\ \A m \in found : \E i \in DOMAIN order : order[i] = m
  <1> DEFINE n == Cardinality(found)
  <1>1. n \in Nat
    BY FS_CardinalityType
  <1>2. order \in [1 .. n -> found] /\ \A i, j \in 1 .. n : i # j => order[i] # order[j]
    BY DEF SetToSeqs
  <1>3. order \in Injection(1 .. n, found)
    BY <1>2 DEF Injection, IsInjective
  <1>4. IsFiniteSet(1 .. n) /\ Cardinality(1 .. n) = n
    BY <1>1, FS_Interval
  <1>5. order \in Surjection(1 .. n, found)
    BY <1>3, <1>4, FS_Injection
  <1> HIDE DEF n
  <1>6. order \in Seq(found)
    BY <1>1, <1>2
  <1>7. QED
    BY <1>2, <1>5, <1>6 DEF Surjection

\* What a search may forget is a memory it found, and every candidate has a twin there.
LEMMA CandidatesToForget ==
    ASSUME MemoryToolsAssumption, TwinsAreAlike, NEW found \in SUBSET Items,
           NEW order \in SetToSeqs(found)
    PROVE  /\ ForgetCandidates(order) \in Seq({m \in found : m.memory})
           /\ \A m \in found :
                 m.memory /\ m.level = "leaf" /\ m.score >= Threshold =>
                    \E k \in DOMAIN ForgetCandidates(order) :
                       TwinKey(ForgetCandidates(order)[k]) = TwinKey(m)
  <1> DEFINE places == {i \in DOMAIN order : order[i].level = "leaf"}
             leaves == Only(order, places)
             passed == {m \in found : m.score >= Threshold}
             processed == PostProcessed(leaves, Len(order), Threshold)
             P == {i \in DOMAIN processed : processed[i].memory}
             candidates == Only(processed, P)
             memory == {m \in found : m.memory}
  <1>1. /\ IsFiniteSet(found) /\ \A m \in found : m.score \in Int
    BY FS_Subset DEF MemoryToolsAssumption
  <1>2. /\ order \in Seq(found)
        /\ \A m \in found : \E i \in DOMAIN order : order[i] = m
    BY <1>1, OrderIsOfAll
  <1>3. ForgetCandidates(order) = candidates
    BY DEF ForgetCandidates, Leaves
  <1>4. places \in SUBSET DOMAIN order
    OBVIOUS
  <1>5. /\ leaves \in Seq(found) /\ Len(leaves) <= Len(order)
        /\ HasAll(leaves, order, places)
    <2>1. \A i \in places : order[i] \in found
      BY <1>2
    <2> HIDE DEF places
    <2>2. QED
      BY <1>2, <1>4, <2>1, OnlyPicks, OnlyIsFromThere
  <1>6. Len(order) \in Nat
    BY <1>2
  <1> HIDE DEF leaves
  <1>7. processed \in Seq(passed)
    BY <1>1, <1>5, <1>6, ProcessedPass
  <1>8. \A i \in DOMAIN leaves : leaves[i].score >= Threshold =>
           \E k \in DOMAIN processed : TwinKey(processed[k]) = TwinKey(leaves[i])
    BY <1>1, <1>5, <1>6, ProcessedKeepsATwin
  <1> HIDE DEF processed
  <1>9. /\ P \in SUBSET DOMAIN processed /\ \A i \in P : processed[i] \in memory
        /\ \A i \in DOMAIN processed : processed[i] \in found
    BY <1>7
  <1>10. candidates \in Seq(memory) /\ HasAll(candidates, processed, P)
    <2> HIDE DEF P, memory, passed
    <2>1. QED
      BY <1>7, <1>9, OnlyPicks, OnlyIsFromThere
  <1> HIDE DEF candidates
  <1>11. ASSUME NEW m \in found, m.memory, m.level = "leaf", m.score >= Threshold
         PROVE  \E k \in DOMAIN candidates : TwinKey(candidates[k]) = TwinKey(m)
    <2>1. PICK i \in DOMAIN order : order[i] = m
      BY <1>2
    <2>2. PICK j \in 1 .. Len(leaves) : leaves[j] = m
      BY <1>5, <1>11, <2>1 DEF HasAll
    <2>3. j \in DOMAIN leaves
      BY <1>5
    <2>4. PICK k \in DOMAIN processed : TwinKey(processed[k]) = TwinKey(m)
      BY <1>8, <1>11, <2>2, <2>3
    <2>5. k \in P
      <3>1. processed[k] \in Items /\ m \in Items
        BY <1>9
      <3>2. processed[k].memory
        BY <1>11, <2>4, <3>1 DEF TwinsAreAlike
      <3>3. QED
        BY <3>2
    <2>6. PICK l \in 1 .. Len(candidates) : candidates[l] = processed[k]
      BY <1>10, <2>5 DEF HasAll
    <2>7. l \in DOMAIN candidates
      BY <1>10
    <2>8. QED
      BY <2>4, <2>6, <2>7
  <1>12. QED
    BY <1>3, <1>10, <1>11

\* One candidate that is strong enough is the memory that was meant.
LEMMA OneCandidateIsMeant ==
    ASSUME MemoryToolsAssumption, TwinsAreAlike, NEW found \in SUBSET Items,
           NEW order \in SetToSeqs(found), IsTheOne(ForgetCandidates(order))
    PROVE  LET m == ForgetCandidates(order)[1]
           IN  /\ m \in found /\ m.memory /\ m.score >= Strong
               /\ \A n \in found : n.memory /\ n.level = "leaf" /\ n.score >= Threshold =>
                                      TwinKey(n) = TwinKey(m)
  <1> DEFINE c == ForgetCandidates(order)
  <1>1. c \in Seq({m \in found : m.memory}) /\ Len(c) = 1 /\ c[1].score >= Strong
    BY CandidatesToForget DEF IsTheOne
  <1>2. \A n \in found : n.memory /\ n.level = "leaf" /\ n.score >= Threshold =>
            \E k \in DOMAIN c : TwinKey(c[k]) = TwinKey(n)
    BY CandidatesToForget
  <1> HIDE DEF c
  <1>3. DOMAIN c = {1} /\ c[1] \in {m \in found : m.memory}
    BY <1>1
  <1>4. QED
    BY <1>1, <1>2, <1>3 DEF c

\* What a call may forget it found among the memories of the server.
ForgetInv ==
    /\ keeper.name = "forget" => keeper.found \in SUBSET Items
    /\ ForgetsTheOneMeant

\* A step that lets the call and what its write asks be.
LEMMA SameCallForgetsTheSame ==
    ASSUME ForgetInv, UNCHANGED keeper,
           write' = write \/ (write # NoWrite /\ write'.asks = write.asks)
    PROVE  ForgetInv'
  BY DEF ForgetInv, ForgetsTheOneMeant

LEMMA ForgetGoesOn ==
    ASSUME MemoryToolsAssumption, TwinsAreAlike
    PROVE  KeeperInv /\ ForgetInv /\ [KeeperNext]_keeperVars => ForgetInv'
  <1> SUFFICES ASSUME KeeperInv, ForgetInv, [KeeperNext]_keeperVars PROVE ForgetInv'
    OBVIOUS
  <1>1. ASSUME NEW s, MemoryStore(s) PROVE ForgetInv'
    <2>1. keeper'.name = "store"
      BY <1>1 DEF MemoryStore, Used
    <2>2. QED
      BY <2>1 DEF ForgetInv, ForgetsTheOneMeant
  <1>2. ASSUME NEW m \in Items, ForgetByUri(m) PROVE ForgetInv'
    <2>1. keeper'.found = {m} /\ keeper'.named
      BY <1>2 DEF ForgetByUri, Used
    <2>2. write' # NoWrite => m.memory /\ write'.asks.item = m
      BY <1>2 DEF ForgetByUri, Submits
    <2>3. QED
      BY <2>1, <2>2 DEF ForgetInv, ForgetsTheOneMeant
  <1>3. ASSUME NEW found \in SUBSET Items, ForgetByQuery(found) PROVE ForgetInv'
    <2>1. keeper'.found = found /\ write' = NoWrite
      BY <1>3 DEF ForgetByQuery, Used
    <2>2. QED
      BY <2>1 DEF ForgetInv, ForgetsTheOneMeant
  <1>4. ASSUME keeperPc = "finds", NEW order \in SetToSeqs(keeper.found), FindAnswers(order)
        PROVE  ForgetInv'
    <2>1. keeper' = keeper /\ keeper.name = "forget" /\ keeper.found \in SUBSET Items
      BY <1>4 DEF FindAnswers, KeeperInv, ForgetInv
    <2>2. CASE IsTheOne(ForgetCandidates(order))
      <3>1. PICK m : /\ m = ForgetCandidates(order)[1]
                     /\ m \in keeper.found /\ m.memory /\ m.score >= Strong
                     /\ \A n \in keeper.found :
                           n.memory /\ n.level = "leaf" /\ n.score >= Threshold =>
                              TwinKey(n) = TwinKey(m)
        BY <1>4, <2>1, <2>2, OneCandidateIsMeant
      <3>2. write'.asks.item = m
        BY <1>4, <2>2, <3>1 DEF FindAnswers, Submits, IsTheOne
      <3>3. QED
        BY <2>1, <3>1, <3>2 DEF ForgetInv, ForgetsTheOneMeant
    <2>3. CASE ~IsTheOne(ForgetCandidates(order))
      <3>1. write' = write
        BY <1>4, <2>3 DEF FindAnswers
      <3>2. QED
        BY <2>1, <3>1, SameCallForgetsTheSame
    <2>4. QED
      BY <2>2, <2>3
  <1>5. ASSUME ServesWrite PROVE ForgetInv'
    <2>1. IsWrite(write) /\ keeper' = keeper
      BY <1>5 DEF ServesWrite, KeeperInv, WriteIsOwn
    <2>2. PICK verdict : write' = [write EXCEPT !.became = verdict, !.archive = Len(archives')]
      BY <1>5 DEF ServesWrite
    <2>3. write'.asks = write.asks
      BY <2>1, <2>2 DEF IsWrite
    <2>4. write # NoWrite
      BY <2>1 DEF IsWrite, NoWrite
    <2>5. QED
      BY <2>1, <2>3, <2>4, SameCallForgetsTheSame
  <1>6. ASSUME WriteHeard PROVE ForgetInv'
    <2>1. keeper' = keeper /\ IsWrite(write) /\ keeperPc = "waits"
      BY <1>6 DEF WriteHeard, KeeperInv, WriteIsOwn
    <2>2. CASE write.asks.does = "add"
      <3>1. keeper.name = "store"
        BY <2>1, <2>2 DEF KeeperInv, WriteIsOwn, IsWrite, NoWrite
      <3>2. QED
        BY <2>1, <3>1 DEF ForgetInv, ForgetsTheOneMeant
    <2>3. CASE write.asks.does # "add"
      <3>1. write' = write
        BY <1>6, <2>1, <2>3 DEF WriteHeard, IsWrite
      <3>2. QED
        BY <2>1, <3>1, SameCallForgetsTheSame
    <2>4. QED
      BY <2>2, <2>3
  <1>7. ASSUME UNCHANGED <<keeper, write>> PROVE ForgetInv'
    BY <1>7, SameCallForgetsTheSame
  <1>8. ASSUME WriteHeardBlank PROVE ForgetInv'
    <2>1. keeper' = keeper /\ IsWrite(write) /\ keeperPc = "waits" /\ write # NoWrite
      BY <1>8 DEF WriteHeardBlank, KeeperInv, WriteIsOwn, IsWrite, NoWrite
    <2>2. CASE write.asks.does = "add"
      <3>1. keeper.name = "store"
        BY <2>1, <2>2 DEF KeeperInv, WriteIsOwn, IsWrite
      <3>2. QED
        BY <2>1, <3>1 DEF ForgetInv, ForgetsTheOneMeant
    <2>3. CASE write.asks.does # "add"
      <3>1. write' = write \/ write' = [write EXCEPT !.body = "lost"]
        BY <1>8, <2>3 DEF WriteHeardBlank
      <3>2. write'.asks = write.asks
        BY <2>1, <3>1 DEF IsWrite
      <3>3. QED
        BY <2>1, <3>2, SameCallForgetsTheSame
    <2>4. QED
      BY <2>2, <2>3
  <1>9. QED
    BY <1>1, <1>2, <1>3, <1>4, <1>5, <1>6, <1>7, <1>8
       DEF KeeperNext, keeperVars, FindFails, ServesLateWrite, TaskEnds, ConversationSays,
           ConversationPours, WriteUnheard, PollEnds, PollGivesUp

LEMMA ForgetInvariant ==
    ASSUME MemoryToolsAssumption, TwinsAreAlike
    PROVE  KeeperSpec => []ForgetsTheOneMeant
  <1>1. KeeperInit => ForgetInv
    BY DEF KeeperInit, ForgetInv, ForgetsTheOneMeant, NoUse
  <1>2. ForgetInv => ForgetsTheOneMeant
    BY DEF ForgetInv
  <1>3. QED
    BY <1>1, <1>2, KeeperInvariant, ForgetGoesOn, PTL DEF KeeperSpec

---------------------------------------------------------------------------
(* The tools of an agent *)

\* A definite word of a tool is true of the server, now and whatever lands later: an
\* import or removal told as made is made, one told as refused makes nothing, a text told
\* as stored is archived and one told as failed leaves nothing, a memory told as forgotten
\* is gone (openviking-import-tools.ts, openviking-memory-tools.ts).
THEOREM WordsAreTrue ==
    ASSUME MemoryToolsAssumption
    PROVE  AgentToolsSpec => []WordIsTrue
  <1>1. ToolsInv /\ KeeperInv => WordIsTrue
    BY ToolsTellTrue, KeeperTells DEF WordIsTrue
  <1>2. QED
    BY <1>1, ToolsInvariant, KeeperInvariant, PTL DEF AgentToolsSpec

\* One call changes the server at most once, its second try included, and a search forgets
\* only the one memory that was meant, if those the filter for copies takes for one are
\* memories or not together (openviking-import-tools.ts, openviking-memory-tools.ts).
THEOREM OneChange ==
    ASSUME MemoryToolsAssumption, TwinsAreAlike
    PROVE  AgentToolsSpec => []OneChangePerCall
  <1>1. ToolsInv /\ ForgetsTheOneMeant => OneChangePerCall
    BY ToolsChangeOnce DEF OneChangePerCall
  <1>2. QED
    BY <1>1, ToolsInvariant, ForgetInvariant, PTL DEF AgentToolsSpec
=============================================================================
