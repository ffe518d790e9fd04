---------------------------- MODULE RecallProofs ----------------------------
(***************************************************************************)
(* For every record of settings, every pool of memories, every room and    *)
(* whatever the searches, the reranker, the reads and the timer do: the    *)
(* settings in force are the highest records', what is injected is earned  *)
(* and fits; of the traces, the latest that a query could know of is the   *)
(* one it answers with.  And of the settings' store, for any commands,     *)
(* readers, records and values, however often the file is edited, the      *)
(* gateway stops and a write is refused: the queue of writes holds those   *)
(* who wait, an acknowledged change is in the file put in place, and the   *)
(* mark tells when memory is the file.                                     *)
(***************************************************************************)
EXTENDS QueryConfigStore, RecallTrace, Recall, MemoryRankingProofs

---------------------------------------------------------------------------
(* The settings in force *)

LEMMA HighestOfThree ==
    ASSUME NEW a, NEW b, NEW c, NEW field, NEW default
    PROVE  Highest(<<a, b, c>>, field, default) =
             IF Has(c, field) THEN c[field]
             ELSE IF Has(b, field) THEN b[field]
             ELSE IF Has(a, field) THEN a[field] ELSE default
  <1> DEFINE r == <<a, b, c>>
             setting == {i \in 1 .. Len(r) : Has(r[i], field)}
  <1>1. Len(r) = 3 /\ r[1] = a /\ r[2] = b /\ r[3] = c
    OBVIOUS
  <1> HIDE DEF r
  <1>2. Highest(r, field, default) =
          IF setting = {} THEN default
          ELSE r[CHOOSE i \in setting : \A j \in setting : j <= i][field]
    BY DEF Highest
  <1>3. setting = {i \in {1, 2, 3} : Has(r[i], field)}
    BY <1>1
  <1>a. \A n \in {1, 2, 3} :
           n \in setting /\ (\A j \in setting : j <= n)
             => (CHOOSE i \in setting : \A j \in setting : j <= i) = n
    <2> SUFFICES ASSUME NEW n \in {1, 2, 3}, n \in setting, \A j \in setting : j <= n
                 PROVE  (CHOOSE i \in setting : \A j \in setting : j <= i) = n
      OBVIOUS
    <2> HIDE DEF setting
    <2>1. PICK m : m = CHOOSE i \in setting : \A j \in setting : j <= i
      OBVIOUS
    <2>2. m \in setting /\ \A j \in setting : j <= m
      BY <2>1
    <2>3. m <= n /\ n <= m /\ m \in {1, 2, 3}
      BY <1>3, <2>2
    <2>4. QED
      BY <2>1, <2>3
  <1>4. CASE Has(c, field)
    <2>1. 3 \in setting /\ \A j \in setting : j <= 3
      BY <1>1, <1>3, <1>4
    <2>2. QED
      BY <1>1, <1>2, <1>4, <1>a, <2>1 DEF r
  <1>5. CASE ~Has(c, field) /\ Has(b, field)
    <2>1. 2 \in setting /\ \A j \in setting : j <= 2
      BY <1>1, <1>3, <1>5
    <2>2. QED
      BY <1>1, <1>2, <1>5, <1>a, <2>1 DEF r
  <1>6. CASE ~Has(c, field) /\ ~Has(b, field) /\ Has(a, field)
    <2>1. 1 \in setting /\ \A j \in setting : j <= 1
      BY <1>1, <1>3, <1>6
    <2>2. QED
      BY <1>1, <1>2, <1>6, <1>a, <2>1 DEF r
  <1>7. CASE ~Has(c, field) /\ ~Has(b, field) /\ ~Has(a, field)
    <2>1. setting = {}
      BY <1>1, <1>3, <1>7
    <2>2. QED
      BY <1>1, <1>2, <1>7, <2>1 DEF r
  <1>8. QED
    BY <1>4, <1>5, <1>6, <1>7

\* One record over what is in force: each field by itself.
LEMMA OverFields ==
    ASSUME NEW record, NEW eff
    PROVE  /\ Over(record, eff).recallLimit =
                IF Has(record, "recallLimit") THEN record["recallLimit"] ELSE eff.recallLimit
           /\ Over(record, eff).candidateMultiplier =
                IF Has(record, "candidateMultiplier") THEN record["candidateMultiplier"]
                ELSE eff.candidateMultiplier
           /\ Over(record, eff).scoreThreshold =
                IF Has(record, "scoreThreshold") THEN record["scoreThreshold"]
                ELSE eff.scoreThreshold
           /\ Over(record, eff).explicit <=> eff.explicit \/ Has(record, "candidateLimit")
           /\ Over(record, eff).candidateLimit =
                IF Has(record, "candidateLimit") THEN record["candidateLimit"]
                ELSE IF /\ Has(record, "recallLimit") \/ Has(record, "candidateMultiplier")
                        /\ ~eff.explicit
                THEN AtLeast(Over(record, eff).recallLimit * Over(record, eff).candidateMultiplier,
                             MinCandidates)
                ELSE eff.candidateLimit
  BY DEF Over

\* Until a number of candidates is named, it follows the limit and the multiplier.
Follows(eff) ==
    \/ eff.explicit
    \/ eff.candidateLimit = AtLeast(eff.recallLimit * eff.candidateMultiplier, MinCandidates)

LEMMA OverFollows ==
    ASSUME NEW record, NEW eff, Follows(eff)
    PROVE  Follows(Over(record, eff))
  BY OverFields DEF Follows

\* The code's layers, one over the other, give what the reference says of each field.
LEMMA EffectiveIsReference ==
    ASSUME NEW static, NEW claw, NEW session, NEW own
    PROVE  \A f \in Fields : Effective(static, claw, session, own)[f]
                               = Reference(static, <<claw, session, own>>)[f]
  <1> DEFINE e0 == FromStatic(static)
             e1 == Over(claw, e0)
             e2 == Over(session, e1)
             e3 == Over(own, e2)
             E == Effective(static, claw, session, own)
             R == Reference(static, <<claw, session, own>>)
             H(field, default) == IF Has(own, field) THEN own[field]
                                  ELSE IF Has(session, field) THEN session[field]
                                  ELSE IF Has(claw, field) THEN claw[field] ELSE default
  <1>1. /\ e0.recallLimit = static.recallLimit /\ e0.candidateMultiplier = Multiplier
        /\ e0.candidateLimit = AtLeast(static.recallLimit * Multiplier, MinCandidates)
        /\ e0.scoreThreshold = static.scoreThreshold /\ e0.explicit = FALSE
    BY DEF FromStatic
  <1>2. /\ E.recallLimit = e3.recallLimit /\ E.candidateMultiplier = e3.candidateMultiplier
        /\ E.scoreThreshold = e3.scoreThreshold
        /\ E.candidateLimit = AtLeast(e3.candidateLimit, e3.recallLimit)
    BY DEF Effective, Over
  <1>3. /\ R.recallLimit = H("recallLimit", static.recallLimit)
        /\ R.candidateMultiplier = H("candidateMultiplier", Multiplier)
        /\ R.scoreThreshold = H("scoreThreshold", static.scoreThreshold)
        /\ R.candidateLimit = AtLeast(H("candidateLimit",
                                        AtLeast(R.recallLimit * R.candidateMultiplier,
                                                MinCandidates)), R.recallLimit)
    BY HighestOfThree DEF Reference
  <1> HIDE DEF e0, E, R
  <1>4. Follows(e0) /\ Follows(e1) /\ Follows(e2) /\ Follows(e3)
    <2>1. Follows(e0)
      BY <1>1 DEF Follows
    <2>2. Follows(e1)
      BY <2>1, OverFollows
    <2>3. Follows(e2)
      BY <2>2, OverFollows
    <2>4. QED
      BY <2>1, <2>2, <2>3, OverFollows
  <1> HIDE DEF e1, e2, e3
  <1>5. /\ e3.recallLimit = R.recallLimit
        /\ e3.candidateMultiplier = R.candidateMultiplier
        /\ e3.scoreThreshold = R.scoreThreshold
    BY <1>1, <1>3, OverFields DEF e1, e2, e3
  <1>6. e3.candidateLimit = H("candidateLimit",
                              AtLeast(R.recallLimit * R.candidateMultiplier, MinCandidates))
    <2>1. CASE Has(own, "candidateLimit")
      BY <2>1, OverFields DEF e3
    <2>2. CASE ~Has(own, "candidateLimit") /\ Has(session, "candidateLimit")
      <3>1. e2.candidateLimit = session["candidateLimit"] /\ e2.explicit
        BY <2>2, OverFields DEF e2
      <3>2. e3.candidateLimit = e2.candidateLimit
        BY <2>2, <3>1, OverFields DEF e3
      <3>3. QED
        BY <2>2, <3>1, <3>2
    <2>3. CASE ~Has(own, "candidateLimit") /\ ~Has(session, "candidateLimit")
               /\ Has(claw, "candidateLimit")
      <3>1. e1.candidateLimit = claw["candidateLimit"] /\ e1.explicit
        BY <2>3, OverFields DEF e1
      <3>2. e2.candidateLimit = e1.candidateLimit /\ e2.explicit
        BY <2>3, <3>1, OverFields DEF e2
      <3>3. e3.candidateLimit = e2.candidateLimit
        BY <2>3, <3>2, OverFields DEF e3
      <3>4. QED
        BY <2>3, <3>1, <3>2, <3>3
    <2>4. CASE ~Has(own, "candidateLimit") /\ ~Has(session, "candidateLimit")
               /\ ~Has(claw, "candidateLimit")
      <3>1. ~e1.explicit
        BY <1>1, <2>4, OverFields DEF e1
      <3>2. ~e2.explicit
        BY <2>4, <3>1, OverFields DEF e2
      <3>3. ~e3.explicit
        BY <2>4, <3>2, OverFields DEF e3
      <3>4. QED
        BY <1>4, <1>5, <2>4, <3>3 DEF Follows
    <2>5. QED
      BY <2>1, <2>2, <2>3, <2>4
  <1>7. \A f \in Fields : E[f] = R[f]
    BY <1>2, <1>3, <1>5, <1>6 DEF Fields
  <1>8. QED
    BY <1>7 DEF E, R

\* What each field is in force is what the highest record that sets it says, whatever the
\* records set and whoever asks.
THEOREM SettingsAreHighest == RecallSpec => []SettingsAreTheHighest
  <1> DEFINE InForceInv == pc # "settings" =>
                settings = InForce(Static, claws, sessions, ContextOf(asker), request)
  <1>1. RecallInit => InForceInv
    BY DEF RecallInit
  <1>2. InForceInv /\ [RecallNext]_recallVars => InForceInv'
    <2> SUFFICES ASSUME InForceInv, [RecallNext]_recallVars PROVE InForceInv'
      OBVIOUS
    <2>1. UNCHANGED <<asker, rerank, request, claws, sessions>>
      BY DEF RecallNext, recallVars, askedVars, ReadSettings, ServerLives, PrecheckFails,
             PicksByRule, Reranks, Reads, Injects, TimesOut, SearchAnswers, SearchFails
    <2>2. CASE ReadSettings
      BY <2>1, <2>2 DEF ReadSettings
    <2>3. CASE pc # "settings" /\ UNCHANGED settings
      BY <2>1, <2>3
    <2>4. CASE UNCHANGED recallVars
      BY <2>4 DEF recallVars
    <2>5. QED
      BY <2>2, <2>3, <2>4
      DEF RecallNext, ServerLives, PrecheckFails, PicksByRule, Reranks, Reads, Injects,
          TimesOut, SearchAnswers, SearchFails
  <1>3. InForceInv => SettingsAreTheHighest
    BY EffectiveIsReference DEF SettingsAreTheHighest, InForce
  <1>4. QED
    BY <1>1, <1>2, <1>3, PTL DEF RecallSpec

---------------------------------------------------------------------------
(* The settings are numbers *)

Numbers(eff) ==
    /\ eff.recallLimit \in Nat /\ eff.candidateMultiplier \in Nat
    /\ eff.candidateLimit \in Nat /\ eff.scoreThreshold \in Nat

LEMMA OverIsNumbers ==
    ASSUME MinCandidates \in Nat, NEW record, IsSettings(record), NEW eff, Numbers(eff)
    PROVE  Numbers(Over(record, eff))
  <1> DEFINE e == Over(record, eff)
  <1>1. \A f \in Fields : Has(record, f) => record[f] \in Nat
    BY DEF IsSettings, Has
  <1>2. /\ e.recallLimit \in Nat /\ e.candidateMultiplier \in Nat
        /\ e.scoreThreshold \in Nat
    BY <1>1, OverFields DEF Numbers, Fields
  <1>3. \/ e.candidateLimit = record["candidateLimit"] /\ Has(record, "candidateLimit")
        \/ e.candidateLimit = AtLeast(e.recallLimit * e.candidateMultiplier, MinCandidates)
        \/ e.candidateLimit = eff.candidateLimit
    BY OverFields
  <1> HIDE DEF e
  <1>4. e.recallLimit * e.candidateMultiplier \in Nat
    BY <1>2
  <1>5. e.candidateLimit \in Nat
    BY <1>1, <1>3, <1>4 DEF AtLeast, Numbers, Fields
  <1>6. QED
    BY <1>2, <1>5 DEF Numbers, e

LEMMA NormalisedIsSettings ==
    ASSUME NEW record, IsSettings(record)
    PROVE  IsSettings(Normalised(record))
  <1> DEFINE r == [record EXCEPT !.candidateLimit = AtLeast(@, record.recallLimit)]
  <1>1. CASE Has(record, "candidateLimit") /\ Has(record, "recallLimit")
    <2>1. record["candidateLimit"] \in Nat /\ record["recallLimit"] \in Nat
      BY <1>1 DEF IsSettings, Has
    <2>2. AtLeast(record["candidateLimit"], record["recallLimit"]) \in Nat
      BY <2>1 DEF AtLeast
    <2>3. DOMAIN r = DOMAIN record
      OBVIOUS
    <2>4. \A f \in DOMAIN r : r[f] = record[f]
                              \/ r[f] = AtLeast(record["candidateLimit"], record["recallLimit"])
      OBVIOUS
    <2> HIDE DEF r
    <2>5. IsSettings(r)
      BY <2>2, <2>3, <2>4 DEF IsSettings
    <2>6. Normalised(record) = r
      BY <1>1 DEF Normalised, r
    <2>7. QED
      BY <2>5, <2>6
  <1>2. CASE ~(Has(record, "candidateLimit") /\ Has(record, "recallLimit"))
    BY <1>2 DEF Normalised
  <1>3. QED
    BY <1>1, <1>2

LEMMA NothingIsSettings == IsSettings(NoRecord)
  BY DEF IsSettings, NoRecord

LEMMA FirstIsOne ==
    ASSUME NEW places \in SUBSET DOMAIN NameOrder, places # {}
    PROVE  \E i \in places : First(places) = NameOrder[i]
  <1>1. DOMAIN NameOrder = {1, 2, 3}
    BY DEF NameOrder
  <1>2. \E i \in places : \A j \in places : i <= j
    <2>1. CASE 1 \in places
      BY <1>1, <2>1
    <2>2. CASE 1 \notin places /\ 2 \in places
      BY <1>1, <2>2
    <2>3. CASE 1 \notin places /\ 2 \notin places
      BY <1>1, <2>3
    <2>4. QED
      BY <2>1, <2>2, <2>3
  <1>3. PICK n : n = CHOOSE i \in places : \A j \in places : i <= j
    OBVIOUS
  <1>4. n \in places
    BY <1>2, <1>3
  <1>5. QED
    BY <1>3, <1>4 DEF First

LEMMA RecordsAreSettings ==
    ASSUME NEW records, \A k \in DOMAIN records : IsSettings(records[k]), NEW ctx
    PROVE  IsSettings(SessionRecord(records, ctx)) /\ IsSettings(ClawRecord(records, ctx))
  <1> DEFINE held == {i \in DOMAIN NameOrder :
                         /\ ctx[NameOrder[i]] # Absent
                         /\ <<NameOrder[i], ctx[NameOrder[i]]>> \in DOMAIN records}
  <1>1. CASE held = {}
    <2>1. SessionRecord(records, ctx) = NoRecord
      BY <1>1 DEF SessionRecord
    <2>2. QED
      BY <2>1, NothingIsSettings DEF ClawRecord
  <1>2. CASE held # {}
    <2>1. \E i \in held : First(held) = NameOrder[i]
      BY <1>2, FirstIsOne
    <2>2. <<First(held), ctx[First(held)]>> \in DOMAIN records
      BY <2>1
    <2>3. SessionRecord(records, ctx) = records[<<First(held), ctx[First(held)]>>]
      BY <1>2 DEF SessionRecord
    <2>4. QED
      BY <2>2, <2>3, NothingIsSettings DEF ClawRecord
  <1>3. QED
    BY <1>1, <1>2

LEMMA StaticIsNumbers ==
    ASSUME RecallConstants
    PROVE  Numbers(FromStatic(Static))
  <1>1. /\ Static.recallLimit \in Nat /\ Static.scoreThreshold \in Nat
        /\ Multiplier \in Nat /\ MinCandidates \in Nat
    BY DEF RecallConstants
  <1>2. Static.recallLimit * Multiplier \in Nat
    BY <1>1
  <1>3. QED
    BY <1>1, <1>2 DEF Numbers, FromStatic, AtLeast

LEMMA InForceIsNumbers ==
    ASSUME RecallConstants, \A k \in DOMAIN claws : IsSettings(claws[k]),
           \A k \in DOMAIN sessions : IsSettings(sessions[k]), IsSettings(request), NEW ctx
    PROVE  Numbers(InForce(Static, claws, sessions, ctx, request))
  <1> DEFINE e == Over(Normalised(request), Over(SessionRecord(sessions, ctx),
                                               Over(ClawRecord(claws, ctx), FromStatic(Static))))
             E == InForce(Static, claws, sessions, ctx, request)
  <1>1. MinCandidates \in Nat
    BY DEF RecallConstants
  <1>2. Numbers(e)
    BY <1>1, StaticIsNumbers, OverIsNumbers, RecordsAreSettings, NormalisedIsSettings
  <1>3. /\ E.recallLimit = e.recallLimit /\ E.candidateMultiplier = e.candidateMultiplier
        /\ E.scoreThreshold = e.scoreThreshold
        /\ E.candidateLimit = AtLeast(e.candidateLimit, e.recallLimit)
    BY DEF InForce, Effective, Over
  <1> HIDE DEF e, E
  <1>4. Numbers(E)
    BY <1>2, <1>3 DEF Numbers, AtLeast
  <1>5. QED
    BY <1>4 DEF E

---------------------------------------------------------------------------
(* The invariant *)

Found == {m \in Memories : \E k \in Searches : m \in ToSet(found[k].of)}

SettingsHold ==
    /\ \A k \in DOMAIN claws : IsSettings(claws[k])
    /\ \A k \in DOMAIN sessions : IsSettings(sessions[k])
    /\ IsSettings(request) /\ Numbers(settings)

SearchesHold ==
    /\ DOMAIN found = Searches
    /\ \A k \in Searches : found[k].of \in Seq(Memories)

Earned(memories) ==
    /\ memories \in Seq(MemoryRecords)
    /\ \A i \in 1 .. Len(memories) : /\ memories[i].level # "folder"
                                     /\ \E m \in Found : m.uri = memories[i].uri
    /\ IF Reranking
       THEN Len(memories) <= RerankKeep /\ (memories # <<>> => memories[1].score >= Floor)
       ELSE /\ Len(memories) <= settings.recallLimit /\ Distinct(memories)
            /\ \A i \in 1 .. Len(memories) : memories[i].score >= settings.scoreThreshold
KeptIsEarned == Earned(kept)

LinesHold ==
    /\ at \in 0 .. Len(kept) /\ chars \in 0 .. Budget
    /\ lines \in Seq([memory : MemoryRecords, chars : Nat]) /\ Len(lines) <= at
    /\ \E total \in [0 .. Len(lines) -> 0 .. Budget] :
          /\ total[0] = 0 /\ total[Len(lines)] = chars
          /\ \A i \in 1 .. Len(lines) :
                total[i] = total[i - 1] + lines[i].chars + (IF i = 1 THEN 0 ELSE 1)
    /\ StandInOrder

Untouched == kept = <<>> /\ at = 0 /\ lines = <<>> /\ chars = 0

AnswerHolds ==
    /\ pc # "over" => answer \in {Open, Full(<<>>)}
    /\ answer \in {Open, Full(<<>>), Full(Said)}

RecallInv ==
    /\ SettingsHold /\ SearchesHold /\ KeptIsEarned /\ LinesHold /\ AnswerHolds
    /\ pc \in {"settings", "precheck", "search"} => Untouched

LEMMA UntouchedHolds ==
    ASSUME RecallConstants, Untouched, Numbers(settings)
    PROVE  KeptIsEarned /\ LinesHold
  <1>1. Budget \in Nat /\ RerankKeep \in Nat
    BY DEF RecallConstants
  <1>2. /\ kept \in Seq(MemoryRecords) /\ Len(kept) = 0
        /\ lines \in Seq([memory : MemoryRecords, chars : Nat]) /\ Len(lines) = 0
    BY DEF Untouched
  <1>3. KeptIsEarned
    BY <1>1, <1>2 DEF KeptIsEarned, Earned, Untouched, Distinct, Numbers
  <1>4. \E total \in [0 .. Len(lines) -> 0 .. Budget] :
          /\ total[0] = 0 /\ total[Len(lines)] = chars
          /\ \A i \in 1 .. Len(lines) :
                total[i] = total[i - 1] + lines[i].chars + (IF i = 1 THEN 0 ELSE 1)
    <2> DEFINE total == [i \in 0 .. 0 |-> 0]
    <2>1. total \in [0 .. Len(lines) -> 0 .. Budget] /\ total[0] = 0
      BY <1>1, <1>2
    <2>2. 1 .. Len(lines) = {}
      BY <1>2
    <2>3. QED
      BY <1>2, <2>1, <2>2 DEF Untouched
  <1>5. StandInOrder
    <2> DEFINE place == [i \in 1 .. Len(lines) |-> 1]
    <2>1. 1 .. Len(lines) = {}
      BY <1>2
    <2>2. place \in [1 .. Len(lines) -> 1 .. at]
      BY <2>1
    <2> HIDE DEF place
    <2>3. QED
      BY <2>1, <2>2 DEF StandInOrder
  <1>6. QED
    BY <1>1, <1>2, <1>3, <1>4, <1>5 DEF LinesHold, Untouched

---------------------------------------------------------------------------
(* What the end of the searches leaves *)

LEMMA AllFoundIsFound ==
    ASSUME SearchesHold
    PROVE  AllFound \in Seq(Found)
  <1>1. \A i : FoundBy(i) \in Seq(Found)
    <2> SUFFICES ASSUME NEW i PROVE FoundBy(i) \in Seq(Found)
      OBVIOUS
    <2>1. CASE i \in Searches
      <3>1. FoundBy(i) = found[i].of /\ found[i].of \in Seq(Memories)
        BY <2>1 DEF FoundBy, SearchesHold
      <3> DEFINE s == found[i].of
      <3>2. s \in Seq(Memories) /\ ToSet(s) = {s[j] : j \in DOMAIN s}
        BY <3>1 DEF ToSet
      <3>3. \A j \in DOMAIN s : s[j] \in Memories /\ s[j] \in ToSet(found[i].of)
        BY <3>2
      <3>4. \A j \in DOMAIN s : s[j] \in Found
        BY <2>1, <3>3 DEF Found
      <3> HIDE DEF s
      <3>5. s \in Seq(Found)
        BY <3>2, <3>4
      <3>6. QED
        BY <3>1, <3>5 DEF s
    <2>2. CASE i \notin Searches
      BY <2>2 DEF FoundBy
    <2>3. QED
      BY <2>1, <2>2
  <1>2. QED
    BY <1>1, ConcatProperties DEF AllFound

Passing == {m \in Found : m.level # "folder" /\ m.score >= Threshold}

LEMMA ProcessedIsFound ==
    ASSUME RecallConstants, SearchesHold, Numbers(settings)
    PROVE  Processed \in Seq(Passing) /\ Passing \subseteq MemoryRecords
  <1> DEFINE T == {m \in Found : m.level # "folder"}
             U == {m \in T : m.score >= Threshold}
  <1>1. T \in SUBSET MemoryRecords /\ U = Passing
    BY DEF RecallConstants, Found, Passing
  <1>2. CandidateLimit \in Nat
    BY DEF RecallConstants, CandidateLimit, Numbers
  <1>3. Candidates(AllFound) \in Seq(T)
    BY AllFoundIsFound, CandidatesAreFound
  <1> HIDE DEF T
  <1>4. PostProcessed(Candidates(AllFound), CandidateLimit, Threshold) \in Seq(U)
    <2>1. \A m \in T : m.score \in Int
      BY <1>1 DEF MemoryRecords
    <2>2. QED
      BY <1>2, <1>3, <2>1, ProcessedPass
  <1>5. QED
    BY <1>1, <1>4 DEF Processed, T

LEMMA PickedIsEarned ==
    ASSUME RecallConstants, SearchesHold, Numbers(settings), ~Reranking
    PROVE  Earned(Picked(Processed, settings.recallLimit, Threshold))
  <1> DEFINE t == Picked(Processed, settings.recallLimit, Threshold)
  <1>1. settings.recallLimit \in Nat /\ Threshold = settings.scoreThreshold
    BY DEF Numbers, Threshold
  <1>2. Processed \in Seq(Passing) /\ Passing \in SUBSET MemoryRecords
    BY ProcessedIsFound
  <1>3. t \in Seq(Passing) /\ Len(t) <= settings.recallLimit /\ Distinct(t)
    BY <1>1, <1>2, PickedOnce
  <1> HIDE DEF t
  <1>4. \A i \in 1 .. Len(t) : t[i] \in Passing
    BY <1>3, ElementOfSeq
  <1>5. t \in Seq(MemoryRecords)
    BY <1>2, <1>3
  <1>6. Earned(t)
    BY <1>1, <1>3, <1>4, <1>5 DEF Earned, Passing
  <1>7. QED
    BY <1>6 DEF t

LEMMA RerankedIsEarned ==
    ASSUME RecallConstants, SearchesHold, Numbers(settings), Reranking, NEW shown,
           NEW relevance \in [shown -> Relevances]
    PROVE  Earned(Reranked(Shown(shown), relevance, RerankKeep, Floor))
  <1> DEFINE t == Reranked(Shown(shown), relevance, RerankKeep, Floor)
             P == {i \in DOMAIN Processed : Processed[i].uri \in shown}
             T == {m \in Passing : m.uri \in shown}
  <1>1. /\ RerankKeep \in Nat /\ RerankKeep > 0 /\ Floor \in Int
        /\ \A u \in shown : relevance[u] \in Int
    <2>1. \A u \in shown : relevance[u] \in Relevances
      OBVIOUS
    <2>2. Relevances \subseteq Int /\ RerankKeep \in Nat \ {0} /\ Floor \in Int
      BY DEF RecallConstants
    <2>3. RerankKeep \in Nat /\ RerankKeep > 0
      BY <2>2
    <2>4. \A u \in shown : relevance[u] \in Int
      BY <2>1, <2>2
    <2>5. QED
      BY <2>2, <2>3, <2>4
  <1>2. Processed \in Seq(Passing) /\ Passing \in SUBSET MemoryRecords
    BY ProcessedIsFound
  <1>3. P \in SUBSET DOMAIN Processed /\ \A i \in P : Processed[i] \in T
    BY <1>2
  <1>4. T \in SUBSET MemoryRecords /\ T \subseteq Passing /\ \A m \in T : m.uri \in shown
    BY <1>2
  <1> HIDE DEF P, T
  <1>5. Shown(shown) \in Seq(T)
    BY <1>2, <1>3, OnlyIsFromThere DEF Shown, P
  <1>6. \A i \in DOMAIN Shown(shown) : relevance[Shown(shown)[i].uri] \in Int
    BY <1>1, <1>4, <1>5
  <1>7. /\ t \in Seq(MemoryRecords) /\ Len(t) <= RerankKeep
        /\ \A i \in 1 .. Len(t) : \E m \in T : t[i].level = m.level /\ t[i].uri = m.uri
        /\ t # <<>> => t[1].score >= Floor
    BY <1>1, <1>4, <1>5, <1>6, RerankedPass
  <1> HIDE DEF t
  <1>8. \A i \in 1 .. Len(t) : \E m \in Found : t[i].level # "folder" /\ t[i].uri = m.uri
    BY <1>4, <1>7 DEF Passing
  <1>9. Earned(t)
    BY <1>7, <1>8 DEF Earned
  <1>10. QED
    BY <1>9 DEF t

LEMMA NothingIsEarned ==
    ASSUME RecallConstants, Numbers(settings)
    PROVE  Earned(<<>>)
  <1>1. RerankKeep \in Nat /\ settings.recallLimit \in Nat
    BY DEF RecallConstants, Numbers
  <1>2. <<>> \in Seq(MemoryRecords) /\ Len(<<>>) = 0
    OBVIOUS
  <1>3. QED
    BY <1>1, <1>2 DEF Earned, Distinct

\* What goes on to the reading, or ends the recall, leaves the invariant.
LEMMA GoingOnKeeps ==
    ASSUME RecallConstants, RecallInv, pc = "search", NEW memories, Earned(memories),
           GoesOn(memories), UNCHANGED <<askedVars, settings, found, lineVars>>
    PROVE  RecallInv'
  <1>1. /\ Untouched /\ kept' = memories
        /\ UNCHANGED <<asker, rerank, request, claws, sessions, settings, found, at, lines, chars>>
    BY DEF RecallInv, GoesOn, askedVars, lineVars
  <1>2. SettingsHold' /\ SearchesHold'
    BY <1>1 DEF RecallInv, SettingsHold, SearchesHold, Numbers
  <1>3. KeptIsEarned'
    BY <1>1 DEF KeptIsEarned, Earned, Found, Reranking, Distinct
  <1>4. LinesHold'
    <2>1. Len(kept') \in Nat /\ Len(lines) = 0 /\ at = 0 /\ chars = 0
      BY <1>1, LenProperties DEF Earned, Untouched
    <2>2. StandInOrder'
      <3> DEFINE place == [i \in 1 .. Len(lines) |-> 1]
      <3>1. 1 .. Len(lines) = {}
        BY <2>1
      <3>2. place \in [1 .. Len(lines) -> 1 .. at]
        BY <3>1
      <3> HIDE DEF place
      <3>3. QED
        BY <1>1, <3>1, <3>2 DEF StandInOrder
    <2>3. QED
      BY <1>1, <2>1, <2>2 DEF RecallInv, LinesHold
  <1>5. pc' \in {"over", "read"}
    BY DEF GoesOn
  <1>6. AnswerHolds'
    <2>1. Said' = Said
      BY <1>1 DEF Said
    <2>2. UNCHANGED answer \/ answer' = Full(<<>>)
      BY DEF GoesOn, Gives
    <2>3. pc # "over"
      OBVIOUS
    <2>4. QED
      BY <2>1, <2>2, <2>3 DEF RecallInv, AnswerHolds, Open, Full
  <1>7. QED
    BY <1>2, <1>3, <1>4, <1>5, <1>6 DEF RecallInv

\* Reading one more memory, whether its line fits or not.
LEMMA ReadingKeeps ==
    ASSUME RecallConstants, RecallInv, Reads
    PROVE  LinesHold'
  <1>1. /\ Budget \in Nat /\ chars \in 0 .. Budget /\ at \in Nat /\ at < Len(kept)
        /\ Len(kept) \in Nat /\ kept \in Seq(MemoryRecords)
        /\ lines \in Seq([memory : MemoryRecords, chars : Nat]) /\ Len(lines) <= at
        /\ Len(lines) \in Nat
    <2>1. kept \in Seq(MemoryRecords)
      BY DEF RecallInv, KeptIsEarned, Earned
    <2>2. lines \in Seq([memory : MemoryRecords, chars : Nat])
      BY DEF RecallInv, LinesHold
    <2>3. QED
      BY <2>1, <2>2, LenProperties DEF RecallConstants, Reads, RecallInv, LinesHold
  <1>2. at' = at + 1 /\ kept' = kept /\ UNCHANGED asker
    BY DEF Reads, askedVars
  <1>3. PICK length \in Read(kept[at']) :
            IF With(length) > Budget THEN UNCHANGED <<lines, chars>>
            ELSE /\ lines' = Append(lines, [memory |-> kept[at'], chars |-> length])
                 /\ chars' = With(length)
    BY DEF Reads
  <1>4. at' \in 1 .. Len(kept) /\ kept[at'] \in MemoryRecords
    BY <1>1, <1>2, ElementOfSeq
  <1>5. length \in Nat
    BY <1>4 DEF Read, MemoryRecords
  <1>6. \A m : Read(m)' = Read(m)
    BY <1>2 DEF Read
  <1>7. PICK total \in [0 .. Len(lines) -> 0 .. Budget] :
            /\ total[0] = 0 /\ total[Len(lines)] = chars
            /\ \A i \in 1 .. Len(lines) :
                  total[i] = total[i - 1] + lines[i].chars + (IF i = 1 THEN 0 ELSE 1)
    BY DEF RecallInv, LinesHold
  <1>8. PICK place \in [1 .. Len(lines) -> 1 .. at] :
            /\ \A i \in 1 .. Len(lines) : /\ lines[i].memory = kept[place[i]]
                                          /\ lines[i].chars \in Read(lines[i].memory)
            /\ \A i, j \in 1 .. Len(lines) : i < j => place[i] < place[j]
    BY DEF RecallInv, LinesHold, StandInOrder
  <1>9. at' \in 0 .. Len(kept') /\ \A i \in 1 .. at : i \in 1 .. at' /\ i < at'
    BY <1>1, <1>2
  <1>10. CASE UNCHANGED <<lines, chars>>
    <2>1. StandInOrder'
      <3>1. place \in [1 .. Len(lines) -> 1 .. at']
        BY <1>8, <1>9
      <3>2. QED
        BY <1>2, <1>6, <1>8, <1>10, <3>1 DEF StandInOrder
    <2>2. Len(lines') <= at'
      BY <1>1, <1>2, <1>10
    <2>3. QED
      BY <1>1, <1>7, <1>9, <1>10, <2>1, <2>2 DEF LinesHold
  <1>11. CASE /\ ~(With(length) > Budget)
              /\ lines' = Append(lines, [memory |-> kept[at'], chars |-> length])
              /\ chars' = With(length)
    <2> DEFINE n == Len(lines)
               new == [memory |-> kept[at'], chars |-> length]
    <2>1. new \in [memory : MemoryRecords, chars : Nat]
      BY <1>4, <1>5
    <2>2. /\ lines' \in Seq([memory : MemoryRecords, chars : Nat])
          /\ Len(lines') = n + 1
          /\ \A i \in 1 .. n : lines'[i] = lines[i]
          /\ lines'[n + 1] = new
      <3> HIDE DEF new
      <3>1. lines' = Append(lines, new)
        BY <1>11 DEF new
      <3>2. QED
        BY <1>1, <2>1, <3>1, AppendProperties
    <2>3. lines = <<>> <=> n = 0
      BY <1>1, EmptySeq
    <2>4. new.memory = kept[at'] /\ new.chars = length
      OBVIOUS
    <2>5. n \in Nat /\ chars \in Nat
      BY <1>1
    <2>6. chars' = chars + length + (IF n + 1 = 1 THEN 0 ELSE 1) /\ chars' \in 0 .. Budget
      BY <1>1, <1>5, <1>11, <2>3 DEF With
    <2> HIDE DEF n, new
    <2>7. \E sum \in [0 .. Len(lines') -> 0 .. Budget] :
             /\ sum[0] = 0 /\ sum[Len(lines')] = chars'
             /\ \A i \in 1 .. Len(lines') :
                   sum[i] = sum[i - 1] + lines'[i].chars + (IF i = 1 THEN 0 ELSE 1)
      <3> DEFINE sum == [i \in 0 .. (n + 1) |-> IF i = n + 1 THEN chars' ELSE total[i]]
      <3>1. \A i \in 0 .. (n + 1) : i # n + 1 => i \in 0 .. n
        BY <2>5
      <3>2. total \in [0 .. n -> 0 .. Budget] /\ total[n] = chars /\ total[0] = 0
        BY <1>7 DEF n
      <3>3. sum \in [0 .. (n + 1) -> 0 .. Budget]
        BY <2>6, <3>1, <3>2
      <3>4. sum[0] = 0 /\ sum[n + 1] = chars' /\ \A i \in 0 .. n : sum[i] = total[i]
        BY <2>5, <3>2
      <3> HIDE DEF sum
      <3>5. ASSUME NEW i \in 1 .. (n + 1)
            PROVE  sum[i] = sum[i - 1] + lines'[i].chars + (IF i = 1 THEN 0 ELSE 1)
        <4>1. CASE i = n + 1
          <5>1. sum[i] = chars' /\ sum[i - 1] = chars /\ lines'[i].chars = length
            <6>1. i - 1 = n /\ n \in 0 .. n
              BY <2>5, <4>1
            <6>2. QED
              BY <2>2, <2>4, <3>2, <3>4, <4>1, <6>1
          <5>2. QED
            BY <2>6, <4>1, <5>1
        <4>2. CASE i # n + 1
          <5>1. i \in 1 .. n /\ i \in 0 .. n /\ i - 1 \in 0 .. n
            BY <2>5, <4>2
          <5>2. sum[i] = total[i] /\ sum[i - 1] = total[i - 1] /\ lines'[i] = lines[i]
            BY <2>2, <3>4, <5>1
          <5>3. total[i] = total[i - 1] + lines[i].chars + (IF i = 1 THEN 0 ELSE 1)
            BY <1>7, <5>1 DEF n
          <5>4. QED
            BY <5>2, <5>3
        <4>3. QED
          BY <4>1, <4>2
      <3>6. QED
        BY <2>2, <3>3, <3>4, <3>5
    <2>8. StandInOrder'
      <3> DEFINE put == [i \in 1 .. (n + 1) |-> IF i = n + 1 THEN at' ELSE place[i]]
      <3>1. /\ \A i \in 1 .. (n + 1) : i # n + 1 => i \in 1 .. n
            /\ \A i \in 1 .. n : i \in 1 .. (n + 1) /\ i # n + 1
            /\ n + 1 \in 1 .. (n + 1)
        BY <2>5
      <3>2. place \in [1 .. n -> 1 .. at]
        BY <1>8 DEF n
      <3>3. put \in [1 .. (n + 1) -> 1 .. at']
        <4>1. at' \in 1 .. at'
          BY <1>1, <1>2
        <4>2. QED
          BY <1>9, <3>1, <3>2, <4>1
      <3>4. put[n + 1] = at' /\ \A i \in 1 .. n : put[i] = place[i] /\ place[i] \in 1 .. at
        BY <3>1, <3>2
      <3> HIDE DEF put
      <3>5. ASSUME NEW i \in 1 .. (n + 1)
            PROVE  lines'[i].memory = kept[put[i]] /\ lines'[i].chars \in Read(lines'[i].memory)
        <4>1. CASE i = n + 1
          BY <1>3, <2>2, <2>4, <3>4, <4>1
        <4>2. CASE i # n + 1
          <5>1. i \in 1 .. Len(lines) /\ put[i] = place[i] /\ lines'[i] = lines[i]
            BY <2>2, <3>1, <3>4, <4>2 DEF n
          <5>2. QED
            BY <1>8, <5>1
        <4>3. QED
          BY <4>1, <4>2
      <3>6. ASSUME NEW i \in 1 .. (n + 1), NEW j \in 1 .. (n + 1), i < j
            PROVE  put[i] < put[j]
        <4>1. i \in 1 .. n
          BY <2>5, <3>6
        <4>2. CASE j = n + 1
          BY <1>9, <3>4, <4>1, <4>2
        <4>3. CASE j # n + 1
          <5>1. j \in 1 .. n
            BY <3>1, <4>3
          <5>2. QED
            BY <1>8, <3>4, <3>6, <4>1, <5>1 DEF n
        <4>4. QED
          BY <4>2, <4>3
      <3>7. \A i \in 1 .. Len(lines') : /\ lines'[i].memory = kept'[put[i]]
                                        /\ lines'[i].chars \in Read(lines'[i].memory)
        BY <1>2, <2>2, <3>5
      <3>8. QED
        BY <1>2, <2>2, <3>3, <3>6, <3>7 DEF StandInOrder, Read
    <2>9. Len(lines') <= at'
      BY <1>1, <1>2, <2>2 DEF n
    <2>10. QED
      BY <1>9, <2>2, <2>6, <2>7, <2>8, <2>9 DEF LinesHold
  <1>12. QED
    BY <1>3, <1>10, <1>11

\* Lines that nothing touches still stand in order.
LEMMA LinesStay ==
    ASSUME LinesHold, UNCHANGED <<asker, kept, at, lines, chars>>
    PROVE  LinesHold'
  <1>1. \A m : Read(m)' = Read(m)
    BY DEF Read
  <1>2. StandInOrder'
    <2>1. PICK place \in [1..Len(lines) -> 1..at] :
             /\ \A i \in 1..Len(lines) : /\ lines[i].memory = kept[place[i]]
                                          /\ lines[i].chars \in Read(lines[i].memory)
             /\ \A i, j \in 1..Len(lines) : i < j => place[i] < place[j]
      BY DEF LinesHold, StandInOrder
    <2>2. QED
      BY <1>1, <2>1 DEF StandInOrder
  <1>3. QED
    BY <1>2 DEF LinesHold

\* The reading's end: all the lines are said, unless the timer was first.
LEMMA InjectingKeeps ==
    ASSUME RecallConstants, RecallInv, Injects
    PROVE  RecallInv'
  <1>1. /\ pc = "read" /\ pc' = "over"
        /\ UNCHANGED <<asker, rerank, request, claws, sessions, settings, found, kept, at,
                       lines, chars>>
    BY DEF Injects, askedVars, lineVars
  <1>2. SettingsHold' /\ SearchesHold' /\ KeptIsEarned'
    BY <1>1
    DEF RecallInv, SettingsHold, SearchesHold, Numbers, KeptIsEarned, Earned, Found, Reranking,
        Distinct
  <1>3. LinesHold'
    BY <1>1, LinesStay DEF RecallInv
  <1>4. Said' = Said
    BY <1>1 DEF Said
  <1>5. AnswerHolds'
    <2>1. UNCHANGED answer \/ answer' = Full(Said)
      BY DEF Injects, Gives
    <2>2. QED
      BY <1>1, <1>4, <2>1 DEF RecallInv, AnswerHolds, Open, Full
  <1>6. QED
    BY <1>1, <1>2, <1>3, <1>5 DEF RecallInv

\* A step that moves no more than the checks, the searches' answers and the timer do.
LEMMA WaitingKeeps ==
    ASSUME RecallConstants, RecallInv,
           UNCHANGED <<asker, rerank, request, claws, sessions, kept, at, lines, chars>>,
           Numbers(settings)', SearchesHold',
           (settings' = settings /\ found' = found) \/ Untouched,
           UNCHANGED answer \/ answer' = Full(<<>>),
           pc' \in {"settings", "precheck", "search"} => Untouched,
           pc # "over" \/ pc' = "over"
    PROVE  RecallInv'
  <1>1. SettingsHold'
    BY DEF RecallInv, SettingsHold
  <1>2. LinesHold'
    BY LinesStay DEF RecallInv
  <1>a. KeptIsEarned'
    <2>1. CASE Untouched
      <3>1. kept' = <<>> /\ kept' \in Seq(MemoryRecords) /\ Len(kept') = 0
        BY <2>1 DEF Untouched
      <3>2. RerankKeep \in Nat /\ settings'.recallLimit \in Nat
        BY DEF RecallConstants, Numbers
      <3>3. QED
        BY <3>1, <3>2 DEF KeptIsEarned, Earned, Distinct
    <2>2. CASE settings' = settings /\ found' = found
      BY <2>2 DEF RecallInv, KeptIsEarned, Earned, Found, Reranking, Distinct
    <2>3. QED
      BY <2>1, <2>2
  <1>3. AnswerHolds'
    <2>1. Said' = Said
      BY DEF Said
    <2>2. QED
      BY <2>1 DEF RecallInv, AnswerHolds, Open, Full
  <1>4. Untouched => Untouched'
    BY DEF Untouched
  <1>5. QED
    BY <1>1, <1>2, <1>a, <1>3, <1>4 DEF RecallInv

LEMMA RecallStarts ==
    ASSUME RecallConstants, RecallInit
    PROVE  RecallInv
  <1>1. Untouched /\ pc = "settings" /\ answer = Open
    BY DEF RecallInit, Untouched
  <1>2. Numbers(settings)
    BY StaticIsNumbers DEF RecallInit
  <1>3. IsSettings(request)
    BY NothingIsSettings DEF RecallInit, RecallConstants
  <1>4. \A k \in DOMAIN claws : IsSettings(claws[k])
    BY DEF RecallInit, RecallConstants
  <1>5. \A k \in DOMAIN sessions : IsSettings(sessions[k])
    BY DEF RecallInit, RecallConstants
  <1>6. SearchesHold
    <2>1. found = [i \in Searches |-> Asked] /\ Asked.of \in Seq(Memories)
      BY DEF RecallInit, Asked
    <2>2. QED
      BY <2>1 DEF SearchesHold
  <1>7. AnswerHolds
    BY <1>1 DEF AnswerHolds
  <1>8. KeptIsEarned /\ LinesHold
    BY <1>1, <1>2, UntouchedHolds
  <1>9. QED
    BY <1>1, <1>2, <1>3, <1>4, <1>5, <1>6, <1>7, <1>8 DEF RecallInv, SettingsHold

LEMMA RecallGoesOn ==
    ASSUME RecallConstants, RecallInv, [RecallNext]_recallVars
    PROVE  RecallInv'
  <1> USE DEF askedVars, lineVars
  <1>1. /\ Numbers(settings) /\ SearchesHold /\ AnswerHolds
        /\ pc \in {"settings", "precheck", "search"} => Untouched
    BY DEF RecallInv, SettingsHold
  <1>2. settings' = settings => Numbers(settings)'
    BY <1>1
  <1>3. UNCHANGED <<found, settings>> => SearchesHold'
    BY <1>1 DEF SearchesHold
  <1>4. CASE ReadSettings
    <2>1. Numbers(settings)'
      <3>1. settings' = InForce(Static, claws, sessions, ContextOf(asker), request)
        BY <1>4 DEF ReadSettings
      <3>2. Numbers(InForce(Static, claws, sessions, ContextOf(asker), request))
        BY InForceIsNumbers DEF RecallInv, SettingsHold
      <3>3. QED
        BY <3>1, <3>2
    <2>2. SearchesHold'
      BY <1>1, <1>4 DEF ReadSettings, SearchesHold
    <2>3. /\ UNCHANGED <<asker, rerank, request, claws, sessions, kept, at, lines, chars, answer>>
          /\ Untouched /\ pc # "over"
      BY <1>1, <1>4 DEF ReadSettings
    <2>4. QED
      BY <2>1, <2>2, <2>3, WaitingKeeps
  <1>5. CASE ServerLives \/ PrecheckFails \/ TimesOut
    <2>1. /\ UNCHANGED <<asker, rerank, request, claws, sessions, settings, found, kept, at, lines,
                         chars>>
          /\ pc # "over"
          /\ UNCHANGED answer \/ answer' = Full(<<>>)
          /\ pc' = pc \/ pc = "precheck"
      BY <1>5 DEF ServerLives, PrecheckFails, TimesOut, Gives
    <2>2. QED
      BY <1>1, <1>2, <1>3, <2>1, WaitingKeeps
  <1>6. CASE \E i \in Searches : SearchAnswers(i) \/ SearchFails(i)
    <2>1. PICK i \in Searches : SearchAnswers(i) \/ SearchFails(i)
      BY <1>6
    <2>2. /\ UNCHANGED <<asker, rerank, request, claws, sessions, settings, kept, at, lines, chars,
                         answer, pc>>
          /\ Untouched /\ pc = "search"
      BY <1>1, <2>1 DEF SearchAnswers, SearchFails
    <2>3. PICK got : got.of \in Seq(Memories) /\ found' = [found EXCEPT ![i] = got]
      <3>1. CASE SearchFails(i)
        <4>1. Failed.of \in Seq(Memories) /\ found' = [found EXCEPT ![i] = Failed]
          BY <3>1 DEF SearchFails, Failed
        <4>2. QED
          BY <4>1
      <3>2. CASE SearchAnswers(i)
        <4>1. PICK s \in Answers(Plan[i]) : found' = [found EXCEPT ![i] = Full(s)]
          BY <3>2 DEF SearchAnswers
        <4>2. CandidateLimit \in Nat
          BY <1>1 DEF RecallConstants, CandidateLimit, Numbers
        <4>3. PICK n \in 0 .. CandidateLimit : s \in [1 .. n -> Of(Plan[i])]
          BY <4>1 DEF Answers, SeqOf
        <4>4. n \in Nat /\ s \in [1 .. n -> Memories]
          BY <4>2, <4>3 DEF Of
        <4>5. s \in Seq(Memories)
          BY <4>4
        <4>6. Full(s).of = s
          BY DEF Full
        <4>7. QED
          BY <4>1, <4>5, <4>6
      <3>3. QED
        BY <2>1, <3>1, <3>2
    <2>4. SearchesHold'
      BY <1>1, <2>3 DEF SearchesHold
    <2>5. QED
      BY <1>2, <2>2, <2>4, WaitingKeeps
  <1>7. CASE PicksByRule
    <2>1. Earned(Picked(Processed, settings.recallLimit, Threshold))
      BY <1>1, <1>7, PickedIsEarned DEF PicksByRule
    <2>2. QED
      BY <1>7, <2>1, GoingOnKeeps DEF PicksByRule
  <1>8. CASE Reranks
    <2>1. PICK memories : GoesOn(memories) /\ Earned(memories)
      <3>1. CASE GoesOn(<<>>)
        BY <1>1, <3>1, NothingIsEarned
      <3>2. CASE \E shown : \E relevance \in [shown -> Relevances] :
                   GoesOn(Reranked(Shown(shown), relevance, RerankKeep, Floor))
        BY <1>1, <1>8, <3>2, RerankedIsEarned DEF Reranks
      <3>3. QED
        BY <1>8, <3>1, <3>2 DEF Reranks
    <2>2. QED
      BY <1>8, <2>1, GoingOnKeeps DEF Reranks
  <1>9. CASE Reads
    <2>1. LinesHold'
      BY <1>9, ReadingKeeps
    <2>2. UNCHANGED <<asker, rerank, request, claws, sessions, settings, found, kept, answer, pc>>
      BY <1>9 DEF Reads
    <2>3. SettingsHold' /\ SearchesHold' /\ KeptIsEarned'
      BY <2>2
      DEF RecallInv, SettingsHold, SearchesHold, Numbers, KeptIsEarned, Earned, Found, Reranking,
          Distinct
    <2>4. pc = "read"
      BY <1>9 DEF Reads
    <2>5. AnswerHolds'
      BY <1>1, <2>2, <2>4 DEF AnswerHolds
    <2>6. QED
      BY <2>1, <2>2, <2>3, <2>4, <2>5 DEF RecallInv
  <1>10. CASE Injects
    BY <1>10, InjectingKeeps
  <1>11. CASE UNCHANGED recallVars
    <2>1. UNCHANGED <<asker, rerank, request, claws, sessions, settings, found, kept, at, lines,
                      chars, answer, pc>>
      BY <1>11 DEF recallVars
    <2>2. QED
      BY <1>1, <1>2, <1>3, <2>1, WaitingKeeps
  <1>12. QED
    BY <1>4, <1>5, <1>6, <1>7, <1>8, <1>9, <1>10, <1>11 DEF RecallNext

LEMMA RecallInvariant == ASSUME RecallConstants PROVE RecallSpec => []RecallInv
  <1>1. RecallInit => RecallInv
    BY RecallStarts
  <1>2. RecallInv /\ [RecallNext]_recallVars => RecallInv'
    BY RecallGoesOn
  <1>3. QED
    BY <1>1, <1>2, PTL DEF RecallSpec

\* The memories before a question fit their room, each whole and once and in the order of
\* its rank, whatever the room and however long their texts are.
THEOREM BlocksFit == ASSUME RecallConstants PROVE RecallSpec => []BlockFits
  <1>1. RecallInv => BlockFits
    <2> SUFFICES ASSUME RecallInv PROVE BlockFits
      OBVIOUS
    <2>1. FitTheRoom /\ StandInOrder
      BY DEF RecallInv, LinesHold, FitTheRoom
    <2>2. Injected \in {<<>>, Said}
      BY DEF RecallInv, AnswerHolds, Injected, Open, Full
    <2>3. QED
      BY <2>1, <2>2 DEF BlockFits
  <1>2. QED
    BY <1>1, RecallInvariant, PTL

\* What is injected was found, is no folder, says nothing twice and passes the threshold in
\* force or the reranker's floor, whatever is found and however it is ranked.
THEOREM InjectedAreEarned == ASSUME RecallConstants PROVE RecallSpec => []InjectedIsEarned
  <1>1. RecallInv => InjectedIsEarned
    <2> SUFFICES ASSUME RecallInv PROVE InjectedIsEarned
      OBVIOUS
    <2>1. Injected \in {<<>>, Said}
      BY DEF RecallInv, AnswerHolds, Injected, Open, Full
    <2>2. Earned(kept) /\ Numbers(settings) /\ Len(kept) \in Nat
      BY LenProperties DEF RecallInv, KeptIsEarned, SettingsHold, Earned
    <2>3. CASE Injected = <<>>
      <3>1. Len(Injected) = 0
        BY <2>3
      <3>2. RerankKeep \in Nat /\ settings.recallLimit \in Nat
        BY <2>2 DEF RecallConstants, Numbers
      <3>3. QED
        BY <2>3, <3>1, <3>2 DEF InjectedIsEarned, Distinct
    <2>4. CASE Injected = Said /\ Injected # <<>>
      <3>1. Len(lines) \in Nat /\ Len(lines) <= at /\ at \in Nat /\ at <= Len(kept)
        BY <2>2, LenProperties DEF RecallInv, LinesHold
      <3>2. Len(Injected) = Len(lines) /\ \A i \in 1 .. Len(lines) : Injected[i] = lines[i].memory
        BY <2>4, <3>1 DEF Said
      <3>3. PICK place \in [1 .. Len(lines) -> 1 .. at] :
                /\ \A i \in 1 .. Len(lines) : lines[i].memory = kept[place[i]]
                /\ \A i, j \in 1 .. Len(lines) : i < j => place[i] < place[j]
        BY DEF RecallInv, LinesHold, StandInOrder
      <3> DEFINE n == Len(lines)
      <3>4. \A i \in 1 .. n : place[i] \in 1 .. Len(kept) /\ Injected[i] = kept[place[i]]
        BY <3>1, <3>2, <3>3
      <3>5. \A i, j \in 1 .. n : place[i] = place[j] => i = j
        <4> SUFFICES ASSUME NEW i \in 1 .. n, NEW j \in 1 .. n, i < j, place[i] = place[j]
                     PROVE  FALSE
          BY <3>1
        <4>1. place[i] < place[j] /\ place[i] \in Nat
          BY <3>1, <3>3, <3>4
        <4>2. QED
          BY <4>1
      <3>6. Len(Injected) = n /\ n \in Nat /\ n <= Len(kept)
        BY <2>2, <3>1, <3>2
      <3>7. kept # <<>> /\ 1 \in 1 .. Len(kept)
        <4>1. n # 0
          BY <2>4, <3>2 DEF Said
        <4>2. QED
          BY <2>2, <3>6, <4>1
      <3> HIDE DEF n
      <3>8. \A i \in 1 .. Len(Injected) :
               /\ Injected[i].level # "folder"
               /\ \E k \in Searches : \E m \in ToSet(found[k].of) : m.uri = Injected[i].uri
        <4> SUFFICES ASSUME NEW i \in 1 .. n
                     PROVE  /\ Injected[i].level # "folder"
                            /\ \E k \in Searches : \E m \in ToSet(found[k].of) :
                                  m.uri = Injected[i].uri
          BY <3>6
        <4>1. /\ kept[place[i]].level # "folder"
              /\ \E m \in Found : m.uri = kept[place[i]].uri
          BY <2>2, <3>4 DEF Earned
        <4>2. QED
          BY <3>4, <4>1 DEF Found
      <3>9. CASE Reranking
        <4>1. Len(kept) <= RerankKeep /\ kept[1].score >= Floor /\ RerankKeep \in Nat
          BY <2>2, <3>7, <3>9 DEF Earned, RecallConstants
        <4>2. Len(Injected) <= RerankKeep
          BY <2>2, <3>6, <4>1
        <4>3. QED
          BY <3>7, <3>8, <3>9, <4>1, <4>2 DEF InjectedIsEarned
      <3>10. CASE ~Reranking
        <4>1. /\ Len(kept) <= settings.recallLimit /\ settings.recallLimit \in Nat
              /\ Distinct(kept)
              /\ \A i \in 1 .. Len(kept) : kept[i].score >= settings.scoreThreshold
          BY <2>2, <3>10 DEF Earned, Numbers
        <4>2. Len(Injected) <= settings.recallLimit
          BY <2>2, <3>6, <4>1
        <4>3. Distinct(Injected)
          <5> SUFFICES ASSUME NEW i \in 1 .. n, NEW j \in 1 .. n,
                              TextKey(Injected[i]) = TextKey(Injected[j])
                       PROVE  i = j
            BY <3>6 DEF Distinct
          <5>1. TextKey(kept[place[i]]) = TextKey(kept[place[j]])
            BY <3>4
          <5>2. place[i] = place[j]
            BY <3>4, <4>1, <5>1 DEF Distinct
          <5>3. QED
            BY <3>5, <5>2
        <4>4. QED
          BY <3>4, <3>6, <3>8, <3>10, <4>1, <4>2, <4>3 DEF InjectedIsEarned
      <3>11. QED
        BY <3>9, <3>10
    <2>5. QED
      BY <2>1, <2>3, <2>4
  <1>2. QED
    BY <1>1, RecallInvariant, PTL

---------------------------------------------------------------------------
(* The traces *)

UnderWay == {"prune", "write"}
Entries == [session : Sessions, names : SUBSET NameSet, day : 0 .. LastDay]
QueryRecords ==
    [pc : QueryPcs, session : Sessions \cup {NoQuery.session}, turn : {"latest", "all"},
     names : Seq(NameSet), waits : SUBSET Nat, found : SUBSET Nat, fallback : BOOLEAN]

TracesTyped ==
    /\ today \in 0 .. LastDay
    /\ recorded \in Seq(Entries) /\ append \in Seq(UnderWay \cup {"done", "failed", "lost"})
    /\ Len(append) = Len(recorded)
    /\ memory \subseteq Known /\ pending \subseteq Known
    /\ files \in [0 .. LastDay -> SUBSET Known]
    /\ query \in [Queries -> QueryRecords] /\ promised \in [Queries -> SUBSET Known]

\* Days pass one way; what is in memory is the newest.
EntriesHold ==
    /\ \A e \in Known : recorded[e].day <= today
    /\ \A m \in memory : \A e \in Known : e > m => e \in memory

\* What was appended is in its file as long as it is kept; what is under way is known of.
AppendsHold ==
    /\ \A e \in Known : append[e] = "done" /\ recorded[e].day + RetentionDays >= today
                           => e \in files[recorded[e].day]
    /\ \A e \in Known : append[e] \in UnderWay
                           => \/ e \in pending
                              \/ \E q \in Queries : query[q].pc = "flush" /\ e \in query[q].waits
    /\ \A e \in memory \cup pending : append[e] # "lost"

\* What a query should know of: by the first name asked for it is found, later there is
\* nothing of it left to find.
PromiseHolds(q) ==
    /\ query[q].pc = "idle" => ~query[q].fallback
    /\ query[q].names # <<>> \/ query[q].pc \in {"idle", "done"}
    /\ query[q].pc \in {"memory", "flush", "files"} =>
          \A e \in promised[q] :
             IF query[q].fallback THEN ~StillThere(e)
             ELSE /\ Carries(e, query[q].session, Head(query[q].names))
                  /\ append[e] # "lost"
                  /\ append[e] \in UnderWay =>
                        \/ query[q].pc = "memory" /\ e \in pending
                        \/ query[q].pc = "flush" /\ e \in query[q].waits

PromisesHold == \A q \in Queries : PromiseHolds(q)

TracesInv == TracesTyped /\ EntriesHold /\ AppendsHold /\ PromisesHold /\ LatestIsLatest

\* Numbers up to a bound, if there are any, have a greatest.
LEMMA HasNewest ==
    ASSUME NEW n \in Nat, NEW P \in SUBSET (1 .. n), P # {}
    PROVE  \E m \in P : \A e \in P : e <= m
  <1> DEFINE R == {p \in P \X P : p[1] <= p[2]}
  <1>1. IsFiniteSet(P) /\ P \subseteq Int
    <2>1. IsFiniteSet(1 .. n)
      BY FS_Interval
    <2>2. IsFiniteSet(P)
      BY <2>1, FS_Subset
    <2>3. \A e \in P : e \in Int
      OBVIOUS
    <2>4. QED
      BY <2>2, <2>3
  <1>2. \A i, j \in P : <<i, j>> \in R <=> i <= j
    OBVIOUS
  <1>3. IsOrder(P, R)
    <2> HIDE DEF R
    <2>1. \A i, j, k \in P : /\ i <= i /\ (i <= j \/ j <= i) /\ (i <= j /\ j <= i => i = j)
                             /\ (i <= j /\ j <= k => i <= k)
      BY <1>1
    <2>2. QED
      BY <1>2, <2>1 DEF IsOrder
  <1>4. Cardinality(P) \in Nat /\ Cardinality(P) # 0
    BY <1>1, FS_CardinalityType, FS_EmptySet
  <1>5. Cardinality(P) \in 1 .. Cardinality(P)
    BY <1>4
  <1> HIDE DEF R
  <1>6. PICK m \in P : Cardinality(UpTo(P, R, m)) = Cardinality(P)
    <2> HIDE DEF R
    <2>1. IsFiniteSet(P) /\ IsOrder(P, R)
      BY <1>1, <1>3
    <2>2. \A k \in 1 .. Cardinality(P) : \E i \in P : Cardinality(UpTo(P, R, i)) = k
      BY <2>1, EachPlaceIsTaken
    <2>3. QED
      BY <1>5, <2>2
  <1>7. UpTo(P, R, m) \in SUBSET P
    BY DEF UpTo
  <1>8. UpTo(P, R, m) = P
    BY <1>1, <1>6, <1>7, FS_Subset
  <1>9. \A e \in P : e <= m
    BY <1>2, <1>8 DEF UpTo
  <1>10. QED
    BY <1>9

LEMMA OrderStarts ==
    ASSUME NEW names \in SUBSET NameSet
    PROVE  /\ Order(names) \in Seq(NameSet) /\ Order(names) # <<>>
           /\ Head(Order(names)) = Order(names)[1]
  <1> DEFINE a == IF "id" \in names THEN <<"id">> ELSE <<>>
             b == IF "ov" \in names THEN <<"ov">> ELSE <<>>
             s == Order(names)
  <1>1. a \in Seq(NameSet) /\ b \in Seq(NameSet) /\ <<"key">> \in Seq(NameSet)
    <2>1. "id" \in NameSet /\ "ov" \in NameSet /\ "key" \in NameSet
      BY DEF NameSet
    <2>2. <<>> \in Seq(NameSet) /\ \A x \in NameSet : <<x>> \in Seq(NameSet)
      OBVIOUS
    <2>3. QED
      BY <2>1, <2>2
  <1>2. /\ <<"id">> \in Seq(NameSet) /\ <<"ov">> \in Seq(NameSet)
        /\ Len(<<"id">>) = 1 /\ Len(<<"ov">>) = 1 /\ Len(<<"key">>) = 1
    <2>1. "id" \in NameSet /\ "ov" \in NameSet /\ "key" \in NameSet
      BY DEF NameSet
    <2>2. \A x \in NameSet : <<x>> \in Seq(NameSet) /\ Len(<<x>>) = 1
      OBVIOUS
    <2>3. QED
      BY <2>1, <2>2
  <1>3. s = IF "key" \in names THEN (<<"key">> \o a) \o b
            ELSE IF "id" \in names THEN <<"id">> ELSE <<"ov">>
    BY DEF Order
  <1> HIDE DEF a, b, s
  <1>4. <<"key">> \o a \in Seq(NameSet) /\ Len(<<"key">> \o a) = 1 + Len(a)
    BY <1>1, <1>2, ConcatProperties
  <1>5. /\ (<<"key">> \o a) \o b \in Seq(NameSet)
        /\ Len((<<"key">> \o a) \o b) = 1 + Len(a) + Len(b)
    BY <1>1, <1>4, ConcatProperties
  <1>6. Len(a) \in Nat /\ Len(b) \in Nat
    BY <1>1, LenProperties
  <1>7. s \in Seq(NameSet) /\ Len(s) > 0
    BY <1>2, <1>3, <1>5, <1>6
  <1>8. s # <<>>
    BY <1>7
  <1>9. Head(s) = s[1]
    BY <1>7, <1>8, HeadTailProperties
  <1>10. QED
    BY <1>7, <1>8, <1>9 DEF s

LEMMA TracesStart ==
    ASSUME RecallTraceConstants, TracesInit
    PROVE  TracesInv
  <1>1. Known = {} /\ Len(append) = 0 /\ Len(recorded) = 0
    BY DEF TracesInit, Known
  <1>2. NoQuery \in QueryRecords /\ NoQuery.pc = "idle" /\ ~NoQuery.fallback
    BY DEF NoQuery, QueryRecords, QueryPcs
  <1>3. \A q \in Queries : query[q] = NoQuery /\ promised[q] = {}
    BY DEF TracesInit
  <1>4. /\ today = 0 /\ 0 \in 0 .. LastDay
        /\ recorded \in Seq(Entries) /\ append \in Seq(UnderWay \cup {"done", "failed", "lost"})
        /\ memory = {} /\ pending = {} /\ promised \in [Queries -> SUBSET Known]
        /\ query \in [Queries -> QueryRecords]
    BY <1>2 DEF TracesInit, RecallTraceConstants
  <1>5. files \in [0 .. LastDay -> SUBSET Known]
    BY DEF TracesInit
  <1>6. TracesTyped
    BY <1>1, <1>4, <1>5 DEF TracesTyped
  <1>7. EntriesHold /\ AppendsHold
    BY <1>1, <1>4 DEF EntriesHold, AppendsHold
  <1>8. PromisesHold /\ LatestIsLatest
    BY <1>2, <1>3 DEF PromisesHold, PromiseHolds, LatestIsLatest
  <1>9. QED
    BY <1>6, <1>7, <1>8 DEF TracesInv

\* What is recorded stays; what has failed, or is over, does not begin again; days pass.
GoesForward ==
    /\ \A e \in Known : /\ recorded'[e] = recorded[e]
                        /\ append[e] = "failed" => append'[e] = "failed"
                        /\ append'[e] = "lost" => append[e] = "lost"
                        /\ append'[e] \in UnderWay => append[e] \in UnderWay
    /\ today' \in Nat /\ today <= today'
    /\ pending \subseteq pending'

LEMMA DayOfEntry ==
    ASSUME TracesTyped, NEW e \in Known
    PROVE  recorded[e] \in Entries /\ recorded[e].day \in 0 .. LastDay /\ recorded[e].day \in Nat
  <1>1. recorded \in Seq(Entries) /\ e \in DOMAIN recorded
    BY DEF TracesTyped, Known
  <1>2. recorded[e] \in Entries
    BY <1>1
  <1>3. QED
    BY <1>2 DEF Entries

LEMMA WhatIsGoneStaysGone ==
    ASSUME TracesTyped, RecallTraceConstants, GoesForward, NEW e \in Known, StillThere(e)'
    PROVE  StillThere(e)
  <1>1. /\ recorded'[e] = recorded[e] /\ (append[e] = "failed" => append'[e] = "failed")
        /\ today' \in Nat /\ today \in Nat /\ today <= today' /\ recorded[e].day \in Nat
        /\ QueryMaxDays \in Nat /\ RetentionDays \in Nat
    <2>1. recorded[e].day \in Nat
      BY DayOfEntry
    <2>2. today \in Nat
      BY DEF TracesTyped
    <2>3. QED
      BY <2>1, <2>2 DEF RecallTraceConstants, GoesForward
  <1>2. QED
    BY <1>1 DEF StillThere

LEMMA PromisesStay ==
    ASSUME TracesTyped, RecallTraceConstants, PromisesHold, LatestIsLatest, GoesForward,
           UNCHANGED <<query, promised>>
    PROVE  PromisesHold' /\ LatestIsLatest'
  <1>1. \A q \in Queries : \A e \in promised[q] :
            /\ e \in Known /\ (StillThere(e)' => StillThere(e))
            /\ recorded'[e] = recorded[e]
            /\ append'[e] = "lost" => append[e] = "lost"
            /\ append'[e] \in UnderWay => append[e] \in UnderWay
            /\ e \in pending => e \in pending'
    BY WhatIsGoneStaysGone DEF TracesTyped, GoesForward
  <1>2. LatestIsLatest'
    BY <1>1 DEF LatestIsLatest
  <1>3. PromisesHold'
    <2> SUFFICES ASSUME NEW q \in Queries, query[q].pc \in {"memory", "flush", "files"},
                        NEW e \in promised[q]
                 PROVE  IF query[q].fallback THEN ~StillThere(e)'
                        ELSE /\ Carries(e, query[q].session, Head(query[q].names))'
                             /\ append'[e] # "lost"
                             /\ append'[e] \in UnderWay =>
                                   \/ query[q].pc = "memory" /\ e \in pending'
                                   \/ query[q].pc = "flush" /\ e \in query[q].waits
      BY DEF PromisesHold, PromiseHolds
    <2>1. /\ StillThere(e)' => StillThere(e)
          /\ recorded'[e] = recorded[e]
          /\ append'[e] = "lost" => append[e] = "lost"
          /\ append'[e] \in UnderWay => append[e] \in UnderWay
          /\ e \in pending => e \in pending'
      BY <1>1
    <2>2. IF query[q].fallback THEN ~StillThere(e)
          ELSE /\ Carries(e, query[q].session, Head(query[q].names))
               /\ append[e] # "lost"
               /\ append[e] \in UnderWay =>
                     \/ query[q].pc = "memory" /\ e \in pending
                     \/ query[q].pc = "flush" /\ e \in query[q].waits
      BY DEF PromisesHold, PromiseHolds
    <2>3. CASE query[q].fallback
      BY <2>1, <2>2, <2>3
    <2>4. CASE ~query[q].fallback
      <3>1. Carries(e, query[q].session, Head(query[q].names))'
        BY <2>1, <2>2, <2>4 DEF Carries
      <3>2. QED
        BY <2>1, <2>2, <2>4, <3>1
    <2>5. QED
      BY <2>3, <2>4
  <1>4. QED
    BY <1>2, <1>3

LEMMA RecordingKeeps ==
    ASSUME RecallTraceConstants, TracesInv, NEW s \in Sessions, NEW names \in NameSets,
           Record(s, names)
    PROVE  TracesInv'
  <1> DEFINE n == Len(recorded)
             entry == [session |-> s, names |-> names, day |-> today]
  <1>1. TracesTyped /\ EntriesHold /\ AppendsHold /\ PromisesHold /\ LatestIsLatest
    BY DEF TracesInv
  <1>2. /\ n \in Nat /\ Known = 1 .. n /\ today \in 0 .. LastDay
        /\ recorded \in Seq(Entries) /\ append \in Seq(UnderWay \cup {"done", "failed", "lost"})
        /\ Len(append) = n
    BY <1>1 DEF TracesTyped, Known
  <1>3. entry \in Entries /\ entry.day = today
    BY <1>2 DEF Entries, RecallTraceConstants
  <1> HIDE DEF n, entry
  <1>4. /\ recorded' = Append(recorded, entry) /\ append' = Append(append, "prune")
        /\ UNCHANGED <<today, files, query, promised>>
        /\ memory' = Newest(memory \cup {Len(recorded')}, Len(recorded'), MaxEntries)
        /\ pending' = pending \cup {Len(recorded')}
    BY DEF Record, entry
  <1>5. /\ recorded' \in Seq(Entries) /\ Len(recorded') = n + 1
        /\ \A e \in 1 .. n : recorded'[e] = recorded[e]
        /\ recorded'[n + 1] = entry
    BY <1>2, <1>3, <1>4, AppendProperties DEF n
  <1>6. /\ append' \in Seq(UnderWay \cup {"done", "failed", "lost"})
        /\ Len(append') = n + 1
        /\ \A e \in 1 .. n : append'[e] = append[e]
        /\ append'[n + 1] = "prune"
    <2>1. "prune" \in UnderWay \cup {"done", "failed", "lost"}
      BY DEF UnderWay
    <2>2. QED
      BY <1>2, <1>4, <2>1, AppendProperties
  <1>7. Known' = 1 .. (n + 1) /\ Known \subseteq Known' /\ n + 1 \in Known'
        /\ \A e \in Known' : e \in Known \/ e = n + 1
    BY <1>2, <1>5 DEF Known
  <1>8. /\ memory' = {e \in memory \cup {n + 1} : e + MaxEntries > n + 1}
        /\ pending' = pending \cup {n + 1}
    BY <1>4, <1>5 DEF Newest
  <1>9. TracesTyped'
    <2>1. memory' \subseteq Known' /\ pending' \subseteq Known'
      BY <1>1, <1>7, <1>8 DEF TracesTyped
    <2>2. files' \in [0 .. LastDay -> SUBSET Known'] /\ promised' \in [Queries -> SUBSET Known']
      BY <1>1, <1>4, <1>7 DEF TracesTyped
    <2>3. QED
      BY <1>1, <1>4, <1>5, <1>6, <2>1, <2>2 DEF TracesTyped
  <1>10. EntriesHold'
    <2>1. \A e \in Known' : recorded'[e].day <= today'
      BY <1>1, <1>2, <1>3, <1>4, <1>5, <1>7 DEF EntriesHold
    <2>2. ASSUME NEW m \in memory', NEW e \in Known', e > m
          PROVE  e \in memory'
      <3>1. m \in 1 .. (n + 1) /\ e \in 1 .. (n + 1) /\ m + MaxEntries > n + 1 /\ MaxEntries \in Nat
        BY <1>7, <1>8, <1>9 DEF TracesTyped, RecallTraceConstants
      <3>2. e + MaxEntries > n + 1 /\ m # n + 1
        BY <1>2, <2>2, <3>1
      <3>3. m \in memory
        BY <1>8, <3>2
      <3>4. e \in memory \/ e = n + 1
        BY <1>1, <1>7, <2>2, <3>3 DEF EntriesHold
      <3>5. QED
        BY <1>8, <3>2, <3>4
    <2>3. QED
      BY <2>1, <2>2 DEF EntriesHold
  <1>11. AppendsHold'
    <2>1. \A e \in Known : append'[e] = append[e] /\ recorded'[e] = recorded[e]
      BY <1>2, <1>5, <1>6
    <2>2. append'[n + 1] \in UnderWay /\ append'[n + 1] # "done" /\ append'[n + 1] # "lost"
      BY <1>6 DEF UnderWay
    <2>3. memory \cup pending \subseteq Known
      BY <1>1 DEF TracesTyped
    <2>4. \A e \in Known' : append'[e] = "done" /\ recorded'[e].day + RetentionDays >= today'
                               => e \in files'[recorded'[e].day]
      BY <1>1, <1>4, <1>7, <2>1, <2>2 DEF AppendsHold
    <2>5. \A e \in Known' : append'[e] \in UnderWay
                           => \/ e \in pending'
                              \/ \E q \in Queries : query'[q].pc = "flush" /\ e \in query'[q].waits
      BY <1>1, <1>4, <1>7, <1>8, <2>1 DEF AppendsHold
    <2>6. \A e \in memory' \cup pending' : append'[e] # "lost"
      BY <1>1, <1>8, <2>1, <2>2, <2>3 DEF AppendsHold
    <2>7. QED
      BY <2>4, <2>5, <2>6 DEF AppendsHold
  <1>12. GoesForward
    <2>1. today' \in Nat /\ today <= today' /\ pending \subseteq pending'
      BY <1>2, <1>4, <1>8
    <2>2. QED
      BY <1>2, <1>5, <1>6, <2>1 DEF GoesForward
  <1>13. PromisesHold' /\ LatestIsLatest'
    BY <1>1, <1>4, <1>12, PromisesStay
  <1>14. QED
    BY <1>9, <1>10, <1>11, <1>13 DEF TracesInv

LEMMA AppendingKeeps ==
    ASSUME RecallTraceConstants, TracesInv, NEW d \in Known, AppendPrunes(d) \/ AppendWrites(d)
    PROVE  TracesInv'
  <1>1. TracesTyped /\ EntriesHold /\ AppendsHold /\ PromisesHold /\ LatestIsLatest
    BY DEF TracesInv
  <1>2. /\ UNCHANGED <<today, recorded, memory, pending, query, promised, Known>>
        /\ append[d] \in UnderWay
    BY DEF AppendPrunes, AppendWrites, UnderWay, Known
  <1>3. Known = 1 .. Len(recorded) /\ DOMAIN append = Known /\ today \in Nat
        /\ \A e \in Known : recorded[e].day \in 0 .. LastDay /\ recorded[e].day <= today
        /\ RetentionDays \in Nat
    <2>1. recorded \in Seq(Entries) /\ append \in Seq(UnderWay \cup {"done", "failed", "lost"})
          /\ Len(append) = Len(recorded) /\ today \in Nat
      BY <1>1 DEF TracesTyped
    <2>2. Known = 1 .. Len(recorded) /\ DOMAIN append = Known
      BY <2>1 DEF Known
    <2>3. \A e \in Known : recorded[e].day \in 0 .. LastDay /\ recorded[e].day <= today
      BY <1>1, DayOfEntry DEF EntriesHold
    <2>4. QED
      BY <2>1, <2>2, <2>3 DEF RecallTraceConstants
  <1>4. PICK how \in {"write", "done", "failed"} : append' = [append EXCEPT ![d] = how]
                     /\ (how = "done" => d \in files'[recorded[d].day])
    <2>1. CASE AppendPrunes(d)
      BY <2>1 DEF AppendPrunes
    <2>2. CASE AppendWrites(d)
      <3>1. CASE append' = [append EXCEPT ![d] = "failed"]
        BY <3>1
      <3>2. CASE /\ append' = [append EXCEPT ![d] = "done"]
                 /\ files' = [files EXCEPT ![recorded[d].day] = @ \cup {d}]
        BY <1>1, <1>3, <3>2 DEF TracesTyped
      <3>3. QED
        BY <2>2, <3>1, <3>2 DEF AppendWrites
    <2>3. QED
      BY <2>1, <2>2
  <1>5. /\ append' \in Seq(UnderWay \cup {"done", "failed", "lost"}) /\ Len(append') = Len(append)
        /\ \A e \in Known : append'[e] = IF e = d THEN how ELSE append[e]
    <2>1. how \in UnderWay \cup {"done", "failed", "lost"}
      BY DEF UnderWay
    <2>2. QED
      BY <1>1, <1>3, <1>4, <2>1 DEF TracesTyped
  <1>6. files' \in [0 .. LastDay -> SUBSET Known]
        /\ \A e \in Known : e \in files[recorded[e].day] /\ recorded[e].day + RetentionDays >= today
                              => e \in files'[recorded[e].day]
    <2>1. CASE AppendPrunes(d)
      <3>1. files' = [k \in DOMAIN files |->
                        IF k + RetentionDays < recorded[d].day THEN {} ELSE files[k]]
        BY <2>1 DEF AppendPrunes
      <3>2. files' \in [0 .. LastDay -> SUBSET Known]
        BY <1>1, <3>1 DEF TracesTyped
      <3>3. ASSUME NEW e \in Known, recorded[e].day + RetentionDays >= today
            PROVE  files'[recorded[e].day] = files[recorded[e].day]
        <4>1. ~(recorded[e].day + RetentionDays < recorded[d].day)
          BY <1>3, <3>3
        <4>2. recorded[e].day \in DOMAIN files
          BY <1>1, <1>3 DEF TracesTyped
        <4>3. QED
          BY <3>1, <4>1, <4>2
      <3>4. QED
        BY <3>2, <3>3
    <2>2. CASE AppendWrites(d)
      <3>1. files' = files \/ files' = [files EXCEPT ![recorded[d].day] = @ \cup {d}]
        BY <2>2 DEF AppendWrites
      <3>2. files \in [0 .. LastDay -> SUBSET Known] /\ recorded[d].day \in 0 .. LastDay
        BY <1>1, <1>3 DEF TracesTyped
      <3>3. CASE files' = files
        BY <3>2, <3>3
      <3>4. CASE files' = [files EXCEPT ![recorded[d].day] = @ \cup {d}]
        <4>1. files' \in [0 .. LastDay -> SUBSET Known]
          BY <3>2, <3>4
        <4>2. \A k \in 0 .. LastDay : files[k] \subseteq files'[k]
          BY <3>2, <3>4
        <4>3. QED
          BY <1>3, <4>1, <4>2
      <3>5. QED
        BY <3>1, <3>3, <3>4
    <2>3. QED
      BY <2>1, <2>2
  <1>7. TracesTyped' /\ EntriesHold'
    BY <1>1, <1>2, <1>5, <1>6 DEF TracesTyped, EntriesHold
  <1>8. AppendsHold'
    <2>1. \A e \in Known : append'[e] = "done" /\ recorded[e].day + RetentionDays >= today
                               => e \in files'[recorded[e].day]
      BY <1>1, <1>4, <1>5, <1>6 DEF AppendsHold
    <2>2. \A e \in Known : append'[e] \in UnderWay => append[e] \in UnderWay
      BY <1>2, <1>5
    <2>3. \A e \in Known : append'[e] = "lost" => append[e] = "lost"
      BY <1>5
    <2>4. memory \cup pending \subseteq Known
      BY <1>1 DEF TracesTyped
    <2>5. QED
      BY <1>1, <1>2, <2>1, <2>2, <2>3, <2>4 DEF AppendsHold
  <1>9. GoesForward
    <2>1. append[d] # "failed"
      BY <1>2 DEF UnderWay
    <2>2. \A e \in Known : /\ append[e] = "failed" => append'[e] = "failed"
                           /\ append'[e] = "lost" => append[e] = "lost"
                           /\ append'[e] \in UnderWay => append[e] \in UnderWay
      BY <1>2, <1>5, <2>1
    <2>3. today' \in Nat /\ today <= today'
      BY <1>2, <1>3
    <2>4. QED
      BY <1>2, <2>2, <2>3 DEF GoesForward
  <1>10. PromisesHold' /\ LatestIsLatest'
    BY <1>1, <1>2, <1>9, PromisesStay
  <1>11. QED
    BY <1>7, <1>8, <1>10 DEF TracesInv

\* A step of queries alone leaves what is recorded and appended.
LEMMA QueriesLeaveAppends ==
    ASSUME TracesInv, UNCHANGED <<today, recorded, memory, append, files>>,
           pending' \subseteq pending,
           query' \in [Queries -> QueryRecords], promised' \in [Queries -> SUBSET Known],
           \A e \in Known : append[e] \in UnderWay =>
              \/ e \in pending'
              \/ \E q \in Queries : query'[q].pc = "flush" /\ e \in query'[q].waits
    PROVE  TracesTyped' /\ EntriesHold' /\ AppendsHold'
  <1>1. TracesTyped /\ EntriesHold /\ AppendsHold /\ Known' = Known
    BY DEF TracesInv, Known
  <1>2. TracesTyped' /\ EntriesHold'
    BY <1>1 DEF TracesTyped, EntriesHold
  <1>3. AppendsHold'
    BY <1>1 DEF AppendsHold
  <1>4. QED
    BY <1>2, <1>3

\* Queries that are asked one after another.
OneAtATime ==
    \A q, r \in Queries :
        query[q].pc \notin {"idle", "done"} /\ query[r].pc \notin {"idle", "done"} => q = r

LatestHolds(q) ==
    query[q].pc = "done" /\ query[q].turn = "latest" =>
        \A e \in promised[q] : StillThere(e) => \E d \in query[q].found : d >= e

\* While one is asked, or goes on, the others rest.
LEMMA OthersRest ==
    ASSUME PromisesHold, LatestIsLatest, NEW q \in Queries,
           UNCHANGED <<today, recorded, append>>,
           \A r \in Queries : r # q => /\ query'[r] = query[r] /\ promised'[r] = promised[r]
                                       /\ query[r].pc \in {"idle", "done"},
           PromiseHolds(q)', LatestHolds(q)'
    PROVE  PromisesHold' /\ LatestIsLatest'
  <1>1. \A r \in Queries : r # q => PromiseHolds(r)' /\ LatestHolds(r)'
    <2> SUFFICES ASSUME NEW r \in Queries, r # q PROVE PromiseHolds(r)' /\ LatestHolds(r)'
      OBVIOUS
    <2>1. PromiseHolds(r) /\ LatestHolds(r)
      BY DEF PromisesHold, LatestIsLatest, PromiseHolds, LatestHolds
    <2>2. \A e : StillThere(e)' = StillThere(e)
      BY DEF StillThere
    <2>3. PromiseHolds(r)'
      BY <2>1 DEF PromiseHolds
    <2>4. LatestHolds(r)'
      BY <2>1, <2>2 DEF LatestHolds
    <2>5. QED
      BY <2>3, <2>4
  <1>2. \A r \in Queries : PromiseHolds(r)' /\ LatestHolds(r)'
    BY <1>1
  <1>3. PromisesHold'
    BY <1>2 DEF PromisesHold, PromiseHolds
  <1>4. LatestIsLatest'
    BY <1>2 DEF LatestIsLatest, LatestHolds
  <1>5. QED
    BY <1>3, <1>4

LEMMA AskingKeeps ==
    ASSUME RecallTraceConstants, OneAtATime, OneAtATime', TracesInv,
           NEW q \in Queries, NEW s \in Sessions,
           NEW names \in AskedNames, NEW turn \in {"latest", "all"}, Asks(q, s, names, turn)
    PROVE  TracesInv'
  <1> DEFINE asked == [query[q] EXCEPT !.pc = "memory", !.session = s, !.turn = turn,
                                       !.names = Order(names)]
             told == {e \in Known : /\ Carries(e, s, Order(names)[1])
                                    /\ e \in pending \/ append[e] = "done" \/ e \in memory}
  <1>1. TracesTyped /\ EntriesHold /\ AppendsHold /\ PromisesHold /\ LatestIsLatest
    BY DEF TracesInv
  <1>2. /\ query[q].pc = "idle" /\ ~query[q].fallback /\ query[q] \in QueryRecords
        /\ UNCHANGED <<today, recorded, memory, append, pending, files>>
        /\ query' = [query EXCEPT ![q] = asked] /\ promised' = [promised EXCEPT ![q] = told]
    BY <1>1 DEF Asks, TracesTyped, PromisesHold, PromiseHolds
  <1>3. /\ Order(names) \in Seq(NameSet) /\ Order(names) # <<>>
        /\ Head(Order(names)) = Order(names)[1]
    BY OrderStarts DEF RecallTraceConstants
  <1>4. /\ asked \in QueryRecords /\ asked.pc = "memory" /\ asked.session = s
        /\ asked.names = Order(names) /\ ~asked.fallback
    BY <1>2, <1>3 DEF QueryRecords, QueryPcs
  <1>5. told \in SUBSET Known
    OBVIOUS
  <1> HIDE DEF asked
  <1>6. /\ query' \in [Queries -> QueryRecords] /\ promised' \in [Queries -> SUBSET Known]
        /\ query'[q] = asked /\ promised'[q] = told
    BY <1>1, <1>2, <1>4, <1>5 DEF TracesTyped
  <1>10. \A r \in Queries : r # q => /\ query'[r] = query[r] /\ promised'[r] = promised[r]
                                     /\ query[r].pc \in {"idle", "done"}
    <2>1. \A r \in Queries : r # q => query'[r] = query[r] /\ promised'[r] = promised[r]
      BY <1>1, <1>2 DEF TracesTyped
    <2>2. QED
      BY <1>4, <1>6, <2>1 DEF OneAtATime
  <1>7. \A e \in Known : append[e] \in UnderWay => e \in pending
    BY <1>1, <1>2, <1>10 DEF AppendsHold
  <1>8. TracesTyped' /\ EntriesHold' /\ AppendsHold'
    BY <1>2, <1>6, <1>7, QueriesLeaveAppends
  <1>9. \A e \in told : /\ Carries(e, s, Head(Order(names)))'
                        /\ append[e] # "lost" /\ (append[e] \in UnderWay => e \in pending)
    <2> SUFFICES ASSUME NEW e \in told
                 PROVE  /\ Carries(e, s, Head(Order(names)))'
                        /\ append[e] # "lost" /\ (append[e] \in UnderWay => e \in pending)
      OBVIOUS
    <2>1. e \in Known /\ Carries(e, s, Head(Order(names)))
      BY <1>3
    <2>2. append[e] # "lost"
      BY <1>1 DEF AppendsHold
    <2>3. QED
      BY <1>2, <1>7, <2>1, <2>2 DEF Carries
  <1> HIDE DEF told
  <1>11. PromiseHolds(q)'
    BY <1>2, <1>3, <1>4, <1>6, <1>9 DEF PromiseHolds
  <1>12. LatestHolds(q)'
    BY <1>4, <1>6 DEF LatestHolds
  <1>13. PromisesHold' /\ LatestIsLatest'
    BY <1>1, <1>2, <1>10, <1>11, <1>12, OthersRest
  <1>14. QED
    BY <1>8, <1>13 DEF TracesInv

\* What ends a query, or sends it on to the next name.
LEMMA EndingMeans ==
    ASSUME NEW q \in Queries, query \in [Queries -> QueryRecords], query[q].names # <<>>,
           NEW given \in SUBSET Nat, Ends(q, given)
    PROVE  /\ query' \in [Queries -> QueryRecords]
           /\ \A r \in Queries : r # q => query'[r] = query[r]
           /\ query'[q].session = query[q].session /\ query'[q].turn = query[q].turn
           /\ \/ query'[q].pc = "done" /\ query'[q].found = given
              \/ /\ given = {} /\ query'[q].pc = "memory" /\ query'[q].fallback
                 /\ query'[q].names # <<>>
  <1>1. query[q] \in QueryRecords /\ query[q].names \in Seq(NameSet)
    BY DEF QueryRecords
  <1>2. Len(query[q].names) \in Nat /\ Len(query[q].names) # 0
        /\ Tail(query[q].names) \in Seq(NameSet)
        /\ Len(Tail(query[q].names)) = Len(query[q].names) - 1
    BY <1>1, LenProperties, EmptySeq, HeadTailProperties
  <1>3. CASE given # {} \/ Len(query[q].names) = 1
    <2> DEFINE r == [query[q] EXCEPT !.pc = "done", !.found = given, !.waits = {}]
    <2>1. query' = [query EXCEPT ![q] = r]
      BY <1>3 DEF Ends
    <2>2. /\ r \in QueryRecords /\ r.pc = "done" /\ r.found = given
          /\ r.session = query[q].session /\ r.turn = query[q].turn
      BY <1>1 DEF QueryRecords, QueryPcs
    <2> HIDE DEF r
    <2>3. /\ query' \in [Queries -> QueryRecords] /\ query'[q] = r
          /\ \A p \in Queries : p # q => query'[p] = query[p]
      BY <2>1, <2>2
    <2>4. QED
      BY <2>2, <2>3
  <1>4. CASE ~(given # {} \/ Len(query[q].names) = 1)
    <2> DEFINE r == [query[q] EXCEPT !.pc = "memory", !.names = Tail(query[q].names),
                                     !.waits = {}, !.fallback = TRUE]
    <2>1. query' = [query EXCEPT ![q] = r]
      BY <1>4 DEF Ends
    <2>2. /\ r \in QueryRecords /\ r.pc = "memory" /\ r.fallback
          /\ r.names = Tail(query[q].names)
          /\ r.session = query[q].session /\ r.turn = query[q].turn
      BY <1>1, <1>2 DEF QueryRecords, QueryPcs
    <2> HIDE DEF r
    <2>3. /\ query' \in [Queries -> QueryRecords] /\ query'[q] = r
          /\ \A p \in Queries : p # q => query'[p] = query[p]
      BY <2>1, <2>2
    <2>4. Len(r.names) # 0
      BY <1>2, <1>4, <2>2
    <2>5. r.names # <<>>
      BY <2>4
    <2>6. QED
      BY <1>4, <2>2, <2>3, <2>5
  <1>5. QED
    BY <1>3, <1>4

\* The newest of a query's own, when one is there.
LEMMA AnswerHasNewest ==
    ASSUME TracesTyped, NEW q \in Queries, query[q].turn = "latest", NEW entries \in SUBSET Known,
           NEW e \in entries, Carries(e, query[q].session, Head(query[q].names))
    PROVE  \E d \in Answer(entries, q) : d >= e /\ d \in entries
  <1> DEFINE own == {x \in entries : Carries(x, query[q].session, Head(query[q].names))}
  <1>1. Known = 1 .. Len(recorded) /\ Len(recorded) \in Nat
    BY DEF TracesTyped, Known
  <1>2. own \in SUBSET (1 .. Len(recorded)) /\ e \in own /\ own \subseteq entries
    BY <1>1
  <1>3. Answer(entries, q) = {x \in own : \A y \in own : y <= x}
    BY DEF Answer
  <1> HIDE DEF own
  <1>4. PICK d \in own : \A y \in own : y <= d
    BY <1>1, <1>2, HasNewest
  <1>5. d \in Answer(entries, q) /\ e <= d
    BY <1>2, <1>3, <1>4
  <1>6. d \in Nat /\ e \in Nat
    BY <1>1, <1>2
  <1>7. QED
    BY <1>2, <1>4, <1>5, <1>6

\* A look that ends the query, or goes on to the next name.
LEMMA EndingKeeps ==
    ASSUME RecallTraceConstants, OneAtATime, OneAtATime', TracesInv, NEW q \in Queries,
           query[q].pc \in {"memory", "files"}, NEW entries \in SUBSET Known,
           Ends(q, Answer(entries, q)),
           UNCHANGED <<today, recorded, memory, append, pending, files, promised>>,
           ~query[q].fallback => \A e \in promised[q] :
              StillThere(e) /\ query[q].turn = "latest" =>
                 \E d \in Answer(entries, q) : d >= e,
           ~query[q].fallback => \A e \in promised[q] :
              StillThere(e) => Answer(entries, q) # {}
    PROVE  TracesInv'
  <1>1. TracesTyped /\ EntriesHold /\ AppendsHold /\ PromisesHold /\ LatestIsLatest
    BY DEF TracesInv
  <1>2. Answer(entries, q) \in SUBSET Nat
    <2>1. Known = 1 .. Len(recorded)
      BY <1>1 DEF TracesTyped, Known
    <2>2. Answer(entries, q) \subseteq entries
      BY DEF Answer
    <2>3. QED
      BY <2>1, <2>2
  <1>3. /\ query' \in [Queries -> QueryRecords]
        /\ \A r \in Queries : r # q => query'[r] = query[r]
        /\ query'[q].session = query[q].session /\ query'[q].turn = query[q].turn
        /\ \/ query'[q].pc = "done" /\ query'[q].found = Answer(entries, q)
           \/ /\ Answer(entries, q) = {} /\ query'[q].pc = "memory" /\ query'[q].fallback
              /\ query'[q].names # <<>>
    <2>1. query \in [Queries -> QueryRecords] /\ query[q].names # <<>>
      BY <1>1 DEF TracesTyped, PromisesHold, PromiseHolds
    <2>2. QED
      BY <1>2, <2>1, EndingMeans
  <1>4. \A r \in Queries : r # q => /\ query'[r] = query[r] /\ promised'[r] = promised[r]
                                    /\ query[r].pc \in {"idle", "done"}
    BY <1>3 DEF OneAtATime
  <1>5. TracesTyped' /\ EntriesHold' /\ AppendsHold'
    <2>1. \A e \in Known : append[e] \in UnderWay => e \in pending
      BY <1>1, <1>4 DEF AppendsHold
    <2>2. promised' \in [Queries -> SUBSET Known]
      BY <1>1 DEF TracesTyped
    <2>3. QED
      BY <1>3, <2>1, <2>2, QueriesLeaveAppends
  <1>6. \A e \in promised[q] : StillThere(e)' = StillThere(e)
    BY DEF StillThere
  <1>7. query[q].fallback => \A e \in promised[q] : ~StillThere(e)
    BY <1>1 DEF PromisesHold, PromiseHolds
  <1>8. PromiseHolds(q)'
    <2>1. CASE query'[q].pc = "done"
      BY <2>1 DEF PromiseHolds
    <2>2. CASE /\ Answer(entries, q) = {} /\ query'[q].pc = "memory" /\ query'[q].fallback
               /\ query'[q].names # <<>>
      <3>1. \A e \in promised[q] : ~StillThere(e)'
        BY <1>6, <1>7, <2>2
      <3>2. QED
        BY <2>2, <3>1 DEF PromiseHolds
    <2>3. QED
      BY <1>3, <2>1, <2>2
  <1>9. LatestHolds(q)'
    BY <1>3, <1>6, <1>7 DEF LatestHolds
  <1>10. PromisesHold' /\ LatestIsLatest'
    BY <1>1, <1>4, <1>8, <1>9, OthersRest
  <1>11. QED
    BY <1>5, <1>10 DEF TracesInv

LEMMA LookingInMemoryKeeps ==
    ASSUME RecallTraceConstants, OneAtATime, OneAtATime', TracesInv,
           NEW q \in Queries, LooksInMemory(q)
    PROVE  TracesInv'
  <1>1. TracesTyped /\ EntriesHold /\ AppendsHold /\ PromisesHold /\ LatestIsLatest
    BY DEF TracesInv
  <1>2. /\ query[q].pc = "memory"
        /\ UNCHANGED <<today, recorded, memory, append, files, promised>>
        /\ memory \in SUBSET Known
    BY <1>1 DEF LooksInMemory, TracesTyped
  <1>3. CASE Answer(memory, q) # {}
    <2>1. Ends(q, Answer(memory, q)) /\ UNCHANGED pending
      BY <1>3 DEF LooksInMemory
    <2>2. ASSUME ~query[q].fallback, NEW e \in promised[q], query[q].turn = "latest"
          PROVE  \E d \in Answer(memory, q) : d >= e
      <3>1. e \in Known /\ Carries(e, query[q].session, Head(query[q].names))
        BY <1>1, <1>2, <2>2 DEF PromisesHold, PromiseHolds, TracesTyped
      <3>2. CASE e \in memory
        BY <1>1, <1>2, <2>2, <3>1, <3>2, AnswerHasNewest
      <3>3. CASE e \notin memory
        <4>1. PICK d \in Answer(memory, q) : d \in memory
          BY <1>3 DEF Answer
        <4>2. ~(e > d)
          BY <1>1, <3>1, <3>3, <4>1 DEF EntriesHold
        <4>3. e \in Nat /\ d \in Nat
          BY <1>1, <1>2, <3>1, <4>1 DEF TracesTyped, Known
        <4>4. d >= e
          BY <4>2, <4>3
        <4>5. QED
          BY <4>1, <4>4
      <3>4. QED
        BY <3>2, <3>3
    <2>3. QED
      BY <1>2, <1>3, <2>1, <2>2, EndingKeeps
  <1>4. CASE Answer(memory, q) = {}
    <2> DEFINE r == [query[q] EXCEPT !.pc = "flush", !.waits = pending]
    <2>1. query' = [query EXCEPT ![q] = r] /\ pending' = {}
      BY <1>4 DEF LooksInMemory
    <2>2. query[q] \in QueryRecords /\ pending \in SUBSET Nat
      BY <1>1 DEF TracesTyped, Known
    <2>3. /\ r \in QueryRecords /\ r.pc = "flush" /\ r.waits = pending
          /\ r.names = query[q].names /\ r.session = query[q].session
          /\ r.fallback = query[q].fallback
      BY <2>2 DEF QueryRecords, QueryPcs
    <2> HIDE DEF r
    <2>4. query' \in [Queries -> QueryRecords] /\ query'[q] = r
      BY <1>1, <2>1, <2>3 DEF TracesTyped
    <2>5. \A p \in Queries : p # q => /\ query'[p] = query[p] /\ promised'[p] = promised[p]
                                      /\ query[p].pc \in {"idle", "done"}
      BY <1>1, <1>2, <2>1 DEF TracesTyped, OneAtATime
    <2>6. TracesTyped' /\ EntriesHold' /\ AppendsHold'
      <3>1. \A e \in Known : append[e] \in UnderWay => e \in pending
        BY <1>1, <1>2, <2>5 DEF AppendsHold
      <3>2. promised' \in [Queries -> SUBSET Known]
        BY <1>1, <1>2 DEF TracesTyped
      <3>3. \A e \in Known : append[e] \in UnderWay =>
              \/ e \in pending'
              \/ \E p \in Queries : query'[p].pc = "flush" /\ e \in query'[p].waits
        BY <2>3, <2>4, <3>1
      <3>4. pending' \subseteq pending
        BY <2>1
      <3>5. QED
        BY <1>2, <2>4, <3>2, <3>3, <3>4, QueriesLeaveAppends
    <2>7. PromiseHolds(q)'
      <3>1. query[q].names # <<>>
        BY <1>1, <1>2 DEF PromisesHold, PromiseHolds
      <3>2. ASSUME NEW e \in promised[q]
            PROVE  IF query[q].fallback THEN ~StillThere(e)'
                   ELSE /\ Carries(e, query[q].session, Head(query[q].names))'
                        /\ append[e] # "lost" /\ (append[e] \in UnderWay => e \in pending)
        <4>1. IF query[q].fallback THEN ~StillThere(e)
              ELSE /\ Carries(e, query[q].session, Head(query[q].names))
                   /\ append[e] # "lost" /\ (append[e] \in UnderWay => e \in pending)
          BY <1>1, <1>2 DEF PromisesHold, PromiseHolds
        <4>2. StillThere(e)' = StillThere(e) /\ UNCHANGED recorded
          BY <1>2 DEF StillThere
        <4>3. CASE query[q].fallback
          BY <4>1, <4>2, <4>3
        <4>4. CASE ~query[q].fallback
          <5>1. Carries(e, query[q].session, Head(query[q].names))
            BY <4>1, <4>4
          <5>2. query'[q].session = query[q].session /\ query'[q].names = query[q].names
            BY <2>3, <2>4
          <5>3. Carries(e, query[q].session, Head(query[q].names))'
            BY <4>2, <5>1, <5>2 DEF Carries
          <5>4. QED
            BY <4>1, <4>4, <5>3
        <4>5. QED
          BY <4>3, <4>4
      <3>3. promised'[q] = promised[q]
        BY <1>2
      <3>4. QED
        BY <1>2, <2>3, <2>4, <3>1, <3>2, <3>3 DEF PromiseHolds
    <2>8. LatestHolds(q)'
      BY <2>3, <2>4 DEF LatestHolds
    <2>9. PromisesHold' /\ LatestIsLatest'
      BY <1>1, <1>2, <2>5, <2>7, <2>8, OthersRest
    <2>10. QED
      BY <2>6, <2>9 DEF TracesInv
  <1>5. QED
    BY <1>3, <1>4

LEMMA FlushingKeeps ==
    ASSUME RecallTraceConstants, OneAtATime, OneAtATime', TracesInv, NEW q \in Queries, Flushed(q)
    PROVE  TracesInv'
  <1> DEFINE r == [query[q] EXCEPT !.pc = "files"]
  <1>1. TracesTyped /\ EntriesHold /\ AppendsHold /\ PromisesHold /\ LatestIsLatest
    BY DEF TracesInv
  <1>2. /\ query[q].pc = "flush" /\ query' = [query EXCEPT ![q] = r]
        /\ UNCHANGED <<today, recorded, memory, append, pending, files, promised>>
        /\ query[q] \in QueryRecords
        /\ \A e \in query[q].waits : append[e] \notin UnderWay
    BY <1>1 DEF Flushed, TracesTyped, UnderWay
  <1>3. /\ r \in QueryRecords /\ r.pc = "files" /\ r.names = query[q].names
        /\ r.session = query[q].session /\ r.fallback = query[q].fallback
    BY <1>2 DEF QueryRecords, QueryPcs
  <1> HIDE DEF r
  <1>4. query' \in [Queries -> QueryRecords] /\ query'[q] = r
    BY <1>1, <1>2, <1>3 DEF TracesTyped
  <1>5. \A p \in Queries : p # q => /\ query'[p] = query[p] /\ promised'[p] = promised[p]
                                    /\ query[p].pc \in {"idle", "done"}
    BY <1>1, <1>2 DEF TracesTyped, OneAtATime
  <1>6. TracesTyped' /\ EntriesHold' /\ AppendsHold'
    <2>1. \A e \in Known : append[e] \in UnderWay => e \in pending
      BY <1>1, <1>2, <1>5 DEF AppendsHold
    <2>2. promised' \in [Queries -> SUBSET Known]
      BY <1>1, <1>2 DEF TracesTyped
    <2>3. QED
      BY <1>2, <1>4, <2>1, <2>2, QueriesLeaveAppends
  <1>7. ASSUME NEW e \in promised[q]
        PROVE  IF query[q].fallback THEN ~StillThere(e)'
               ELSE /\ Carries(e, query[q].session, Head(query[q].names))'
                    /\ append[e] # "lost" /\ append[e] \notin UnderWay
    <2>1. IF query[q].fallback THEN ~StillThere(e)
          ELSE /\ Carries(e, query[q].session, Head(query[q].names))
               /\ append[e] # "lost" /\ append[e] \notin UnderWay
      BY <1>1, <1>2 DEF PromisesHold, PromiseHolds
    <2>2. StillThere(e)' = StillThere(e) /\ UNCHANGED recorded
      BY <1>2 DEF StillThere
    <2>3. CASE query[q].fallback
      BY <2>1, <2>2, <2>3
    <2>4. CASE ~query[q].fallback
      <3>1. Carries(e, query[q].session, Head(query[q].names))
        BY <2>1, <2>4
      <3>2. query'[q].session = query[q].session /\ query'[q].names = query[q].names
        BY <1>3, <1>4
      <3>3. Carries(e, query[q].session, Head(query[q].names))'
        BY <2>2, <3>1, <3>2 DEF Carries
      <3>4. QED
        BY <2>1, <2>4, <3>3
    <2>5. QED
      BY <2>3, <2>4
  <1>8. PromiseHolds(q)'
    <2>1. query[q].names # <<>>
      BY <1>1, <1>2 DEF PromisesHold, PromiseHolds
    <2>2. promised'[q] = promised[q]
      BY <1>2
    <2>3. QED
      BY <1>2, <1>3, <1>4, <1>7, <2>1, <2>2 DEF PromiseHolds
  <1>9. LatestHolds(q)'
    BY <1>3, <1>4 DEF LatestHolds
  <1>10. PromisesHold' /\ LatestIsLatest'
    BY <1>1, <1>2, <1>5, <1>8, <1>9, OthersRest
  <1>11. QED
    BY <1>6, <1>10 DEF TracesInv

\* What is still there of a promise is in the files that are looked into.
LEMMA LookingInFilesKeeps ==
    ASSUME RecallTraceConstants, OneAtATime, OneAtATime', TracesInv,
           NEW q \in Queries, LooksInFiles(q)
    PROVE  TracesInv'
  <1>1. TracesTyped /\ EntriesHold /\ AppendsHold /\ PromisesHold
    BY DEF TracesInv
  <1>2. /\ query[q].pc = "files" /\ Ends(q, Answer(InFiles, q))
        /\ UNCHANGED <<today, recorded, memory, append, pending, files, promised>>
    BY DEF LooksInFiles
  <1>3. InFiles \in SUBSET Known
    <2>1. \A k \in 0 .. today : k \in 0 .. LastDay
      BY <1>1 DEF TracesTyped, RecallTraceConstants
    <2>2. \A k \in 0 .. today : files[k] \subseteq Known
      BY <1>1, <2>1 DEF TracesTyped
    <2>3. QED
      BY <2>2 DEF InFiles
  <1>4. ASSUME ~query[q].fallback, NEW e \in promised[q], StillThere(e)
        PROVE  e \in InFiles /\ Carries(e, query[q].session, Head(query[q].names))
    <2>1. /\ e \in Known /\ Carries(e, query[q].session, Head(query[q].names))
          /\ append[e] # "lost" /\ append[e] \notin UnderWay
      BY <1>1, <1>2, <1>4 DEF PromisesHold, PromiseHolds, TracesTyped
    <2>2. append[e] = "done"
      <3>1. append[e] \in UnderWay \cup {"done", "failed", "lost"}
        BY <1>1, <2>1 DEF TracesTyped, Known
      <3>2. QED
        BY <1>4, <2>1, <3>1 DEF StillThere
    <2>3. e \in files[recorded[e].day]
      BY <1>1, <1>4, <2>1, <2>2 DEF AppendsHold, StillThere
    <2>4. recorded[e].day \in 0 .. today
      BY <1>1, <2>1, DayOfEntry DEF EntriesHold, TracesTyped
    <2>5. QED
      BY <1>4, <2>1, <2>3, <2>4 DEF InFiles, StillThere
  <1>5. \A e \in promised[q] : ~query[q].fallback /\ StillThere(e) /\ query[q].turn = "latest" =>
             \E d \in Answer(InFiles, q) : d >= e
    BY <1>1, <1>3, <1>4, AnswerHasNewest
  <1>6. \A e \in promised[q] : ~query[q].fallback /\ StillThere(e) => Answer(InFiles, q) # {}
    <2> SUFFICES ASSUME NEW e \in promised[q], ~query[q].fallback, StillThere(e)
                 PROVE  Answer(InFiles, q) # {}
      OBVIOUS
    <2>1. CASE query[q].turn = "latest"
      BY <1>5, <2>1
    <2>2. CASE query[q].turn # "latest"
      BY <1>4, <2>2 DEF Answer
    <2>3. QED
      BY <2>1, <2>2
  <1>7. QED
    BY <1>2, <1>3, <1>5, <1>6, EndingKeeps

LEMMA PassingDaysKeeps ==
    ASSUME RecallTraceConstants, TracesInv, DayPasses
    PROVE  TracesInv'
  <1>1. TracesTyped /\ EntriesHold /\ AppendsHold /\ PromisesHold /\ LatestIsLatest
    BY DEF TracesInv
  <1>2. /\ today' = today + 1 /\ today < LastDay /\ Known' = Known
        /\ UNCHANGED <<recorded, memory, append, pending, files, query, promised>>
    BY DEF DayPasses, Known
  <1>3. today \in Nat /\ today' \in 0 .. LastDay /\ RetentionDays \in Nat
    BY <1>1, <1>2 DEF TracesTyped, RecallTraceConstants
  <1>4. \A e \in Known : recorded[e].day \in Nat
    BY <1>1, DayOfEntry
  <1>5. TracesTyped'
    BY <1>1, <1>2, <1>3 DEF TracesTyped
  <1>6. EntriesHold'
    <2>1. \A e \in Known : recorded[e].day <= today'
      BY <1>1, <1>2, <1>3, <1>4 DEF EntriesHold
    <2>2. QED
      BY <1>1, <1>2, <2>1 DEF EntriesHold
  <1>7. AppendsHold'
    <2>1. \A e \in Known : recorded[e].day + RetentionDays >= today'
                              => recorded[e].day + RetentionDays >= today
      BY <1>2, <1>3, <1>4
    <2>2. QED
      BY <1>1, <1>2, <2>1 DEF AppendsHold
  <1>8. GoesForward
    <2>1. today' \in Nat /\ today <= today'
      BY <1>2, <1>3
    <2>2. QED
      BY <1>2, <2>1 DEF GoesForward
  <1>9. PromisesHold' /\ LatestIsLatest'
    BY <1>1, <1>2, <1>8, PromisesStay
  <1>10. QED
    BY <1>5, <1>6, <1>7, <1>9 DEF TracesInv

LEMMA RestartingKeeps ==
    ASSUME RecallTraceConstants, TracesInv, Restart
    PROVE  TracesInv'
  <1>1. TracesTyped /\ EntriesHold /\ AppendsHold /\ PromisesHold
    BY DEF TracesInv
  <1>2. /\ memory' = {} /\ pending' = {} /\ UNCHANGED <<today, recorded, files>> /\ Known' = Known
        /\ append' = [e \in Known |-> IF append[e] \in UnderWay THEN "lost" ELSE append[e]]
        /\ promised' = [q \in Queries |-> {}]
    BY DEF Restart, Known, UnderWay
  <1> DEFINE over == [NoQuery EXCEPT !.pc = "done"]
  <1>3. over \in QueryRecords /\ over.pc = "done"
    <2>1. NoQuery \in QueryRecords
      BY DEF NoQuery, QueryRecords, QueryPcs
    <2>2. QED
      BY <2>1 DEF QueryRecords, QueryPcs
  <1> HIDE DEF over
  <1>4. query' = [q \in Queries |-> IF query[q].pc = "idle" THEN query[q] ELSE over]
    BY DEF Restart, over
  <1>5. /\ query' \in [Queries -> QueryRecords]
        /\ \A q \in Queries : \/ query'[q].pc = "idle" /\ query'[q] = query[q]
                              \/ query'[q].pc = "done"
    BY <1>1, <1>3, <1>4 DEF TracesTyped
  <1>6. Known = 1 .. Len(recorded) /\ Len(recorded) \in Nat /\ DOMAIN append = Known
        /\ \A e \in Known : append[e] \in UnderWay \cup {"done", "failed", "lost"}
    BY <1>1 DEF TracesTyped, Known
  <1>7. append' \in Seq(UnderWay \cup {"done", "failed", "lost"}) /\ Len(append') = Len(recorded)
    <2>1. append' \in [1 .. Len(recorded) -> UnderWay \cup {"done", "failed", "lost"}]
      BY <1>2, <1>6
    <2>2. QED
      BY <1>6, <2>1
  <1>8. TracesTyped'
    BY <1>1, <1>2, <1>5, <1>7 DEF TracesTyped
  <1>9. EntriesHold'
    BY <1>1, <1>2 DEF EntriesHold
  <1>10. AppendsHold'
    <2>1. \A e \in Known : (append'[e] = "done" => append[e] = "done") /\ append'[e] \notin UnderWay
      BY <1>2, <1>6 DEF UnderWay
    <2>2. QED
      BY <1>1, <1>2, <2>1 DEF AppendsHold
  <1>11. PromisesHold'
    BY <1>1, <1>2, <1>5 DEF PromisesHold, PromiseHolds
  <1>12. LatestIsLatest'
    BY <1>2 DEF LatestIsLatest
  <1>13. QED
    BY <1>8, <1>9, <1>10, <1>11, <1>12 DEF TracesInv

LEMMA TracesGoOn ==
    ASSUME RecallTraceConstants, OneAtATime, OneAtATime', TracesInv, [TracesNext]_traceVars
    PROVE  TracesInv'
  <1>1. CASE \E s \in Sessions, names \in NameSets : Record(s, names)
    BY <1>1, RecordingKeeps
  <1>2. CASE Appends
    BY <1>2, AppendingKeeps DEF Appends
  <1>3. CASE DayPasses \/ Restart
    BY <1>3, PassingDaysKeeps, RestartingKeeps
  <1>4. CASE \E q \in Queries : Looks(q)
    BY <1>4, LookingInMemoryKeeps, FlushingKeeps, LookingInFilesKeeps DEF Looks
  <1>5. CASE \E q \in Queries : \E s \in Sessions, names \in AskedNames,
                turn \in {"latest", "all"} : Asks(q, s, names, turn)
    BY <1>5, AskingKeeps
  <1>6. CASE UNCHANGED traceVars
    BY <1>6
    DEF traceVars, TracesInv, TracesTyped, EntriesHold, AppendsHold, PromisesHold, PromiseHolds,
        LatestIsLatest, Known, StillThere, Carries
  <1>7. QED
    BY <1>1, <1>2, <1>3, <1>4, <1>5, <1>6 DEF TracesNext

\* Of queries that are asked one after another, each that asks for the latest trace answers
\* with no older one than it could know of when it began, whatever memory has dropped,
\* whatever was under way, however many days pass and however often the gateway starts again.
\* (A second query asked while the first one waits finds nothing pending: it can miss what
\* the first one waits for.)
THEOREM LatestAreLatest ==
    ASSUME RecallTraceConstants PROVE TracesSpec /\ []OneAtATime => []LatestIsLatest
  <1>1. TracesInit => TracesInv
    BY TracesStart
  <1>2. TracesInv /\ OneAtATime /\ OneAtATime' /\ [TracesNext]_traceVars => TracesInv'
    BY TracesGoOn
  <1>3. TracesInv => LatestIsLatest
    BY DEF TracesInv
  <1>4. QED
    BY <1>1, <1>2, <1>3, PTL DEF TracesSpec

---------------------------------------------------------------------------
(* The store of the settings *)

CallTypes ==
    /\ call \in [Commands -> [pc : CallPcs, op : {"set", "unset", "reset"}, key : Keys,
                              value : Values \cup {None}]]
    /\ queue \in Seq(Commands)
    /\ data \in Records

Waits(c) == call[c].pc = "write"

\* While a change waits nothing is loaded; memory says what it says, and so do the
\* records put beside the file for it.
ChangesStand ==
    /\ load.pc # "done" => \A c \in Commands : ~Waits(c)
    /\ \A c \in Commands \ disturbed : Waits(c) => data[call[c].key] = call[c].value
    /\ \A c \in Commands \ disturbed :
          write.pc = "beside" /\ queue # <<>> /\ c = Head(queue)
          => write.beside[call[c].key] = call[c].value

StoreInv == CallTypes /\ QueueIsThoseWaiting /\ ChangesStand

\* The first of the queue waits, and when it goes nobody else does.
LEMMA FirstWaits ==
    ASSUME CallTypes, QueueIsThoseWaiting, queue # <<>>
    PROVE  /\ Head(queue) \in Commands /\ Waits(Head(queue))
           /\ Tail(queue) \in Seq(Commands)
           /\ \A c \in Commands : (\E i \in 1..Len(Tail(queue)) : Tail(queue)[i] = c)
                                  <=> Waits(c) /\ c # Head(queue)
           /\ \A i, j \in 1..Len(Tail(queue)) : Tail(queue)[i] = Tail(queue)[j] => i = j
  <1>1. /\ Len(queue) \in Nat \ {0} /\ Head(queue) = queue[1]
        /\ Tail(queue) \in Seq(Commands) /\ Len(Tail(queue)) = Len(queue) - 1
        /\ \A i \in 1..Len(Tail(queue)) : Tail(queue)[i] = queue[i + 1]
    BY DEF CallTypes
  <1>2. Head(queue) \in Commands /\ Waits(Head(queue))
    BY <1>1 DEF CallTypes, QueueIsThoseWaiting, Waits
  <1>3. ASSUME NEW c \in Commands
        PROVE  (\E i \in 1..Len(Tail(queue)) : Tail(queue)[i] = c) <=> Waits(c) /\ c # Head(queue)
    <2>1. ASSUME NEW i \in 1..Len(Tail(queue)), Tail(queue)[i] = c
          PROVE  Waits(c) /\ c # Head(queue)
      <3>1. i + 1 \in 1..Len(queue) /\ queue[i + 1] = c /\ 1 \in 1..Len(queue) /\ i + 1 # 1
        BY <1>1, <2>1
      <3> QED BY <1>1, <3>1 DEF QueueIsThoseWaiting, Waits
    <2>2. ASSUME Waits(c), c # Head(queue)
          PROVE  \E i \in 1..Len(Tail(queue)) : Tail(queue)[i] = c
      <3>1. PICK i \in 1..Len(queue) : queue[i] = c
        BY <2>2 DEF QueueIsThoseWaiting, Waits
      <3>2. i # 1
        BY <1>1, <2>2, <3>1
      <3>3. i - 1 \in 1..Len(Tail(queue)) /\ Tail(queue)[i - 1] = queue[i - 1 + 1]
        BY <1>1, <3>1, <3>2
      <3>4. i - 1 + 1 = i
        BY <3>1
      <3> QED BY <3>1, <3>3, <3>4
    <2> QED BY <2>1, <2>2
  <1>4. ASSUME NEW i \in 1..Len(Tail(queue)), NEW j \in 1..Len(Tail(queue)),
               Tail(queue)[i] = Tail(queue)[j]
        PROVE  i = j
    <2>1. i + 1 \in 1..Len(queue) /\ j + 1 \in 1..Len(queue) /\ queue[i + 1] = queue[j + 1]
      BY <1>1, <1>4
    <2> QED BY <2>1 DEF QueueIsThoseWaiting
  <1> QED BY <1>1, <1>2, <1>3, <1>4

\* A change joins the queue at its end.
LEMMA OneMoreWaits ==
    ASSUME CallTypes, QueueIsThoseWaiting, NEW c \in Commands, ~Waits(c)
    PROVE  /\ Append(queue, c) \in Seq(Commands) /\ Append(queue, c) # <<>>
           /\ queue # <<>> => Head(Append(queue, c)) = Head(queue)
           /\ queue = <<>> => Head(Append(queue, c)) = c
           /\ \A d \in Commands : (\E i \in 1..Len(Append(queue, c)) : Append(queue, c)[i] = d)
                                  <=> Waits(d) \/ d = c
           /\ \A i, j \in 1..Len(Append(queue, c)) :
                 Append(queue, c)[i] = Append(queue, c)[j] => i = j
  <1> DEFINE longer == Append(queue, c)
  <1>1. /\ Len(queue) \in Nat /\ longer \in Seq(Commands) /\ Len(longer) = Len(queue) + 1
        /\ longer[Len(queue) + 1] = c
        /\ \A i \in 1..Len(queue) : longer[i] = queue[i]
    BY DEF CallTypes
  <1>2. longer # <<>> /\ Head(longer) = longer[1]
    BY <1>1
  <1>3. queue # <<>> => Len(queue) > 0 /\ Head(queue) = queue[1]
    BY DEF CallTypes
  <1>4. queue = <<>> => Len(queue) = 0
    OBVIOUS
  <1>5. \A i \in 1..Len(queue) : queue[i] # c
    BY DEF QueueIsThoseWaiting, Waits
  <1>6. ASSUME NEW d \in Commands
        PROVE  (\E i \in 1..Len(longer) : longer[i] = d) <=> Waits(d) \/ d = c
    BY <1>1 DEF QueueIsThoseWaiting, Waits
  <1>7. \A i, j \in 1..Len(longer) : longer[i] = longer[j] => i = j
    BY <1>1, <1>5 DEF QueueIsThoseWaiting
  <1> QED BY <1>1, <1>2, <1>3, <1>4, <1>6, <1>7

LEMMA StoreInitially == QueryConfigConstants /\ StoreInit => StoreInv
  <1> SUFFICES ASSUME QueryConfigConstants, StoreInit PROVE StoreInv
    OBVIOUS
  <1>1. IdleCall \in [pc : CallPcs, op : {"set", "unset", "reset"}, key : Keys,
                      value : Values \cup {None}]
    BY DEF QueryConfigConstants, IdleCall, CallPcs
  <1>2. CallTypes
    BY <1>1 DEF StoreInit, CallTypes, Records, Empty
  <1>3. \A c \in Commands : ~Waits(c)
    BY DEF StoreInit, Waits, IdleCall
  <1> QED BY <1>2, <1>3 DEF StoreInit, StoreInv, QueueIsThoseWaiting, ChangesStand, NoWrite, Waits
\* Writes end at the head of the queue and changes join it at its end; a reload marks
\* whoever waits as overtaken, and nothing is loaded first while somebody waits.
LEMMA StoreKept ==
    ASSUME QueryConfigConstants, StoreInv, [StoreNext]_storeVars
    PROVE  StoreInv'
  <1> USE DEF StoreInv
  <1>1. CASE UNCHANGED storeVars
    BY <1>1 DEF storeVars, CallTypes, QueueIsThoseWaiting, ChangesStand, Waits
  <1>2. CASE LoadReads
    <2>1. data' \in Records
      BY <1>2 DEF LoadReads, Readable, Records, Empty, CallTypes
    <2>2. \A c \in Commands : ~Waits(c)
      BY <1>2 DEF LoadReads, ChangesStand
    <2> QED BY <1>2, <2>1, <2>2
            DEF LoadReads, CallTypes, QueueIsThoseWaiting, ChangesStand, Waits
  <1>3. CASE LoadMarks
    BY <1>3 DEF LoadMarks, CallTypes, QueueIsThoseWaiting, ChangesStand, Waits
  <1>4. CASE WritePutsBeside
    <2>1. Head(queue) \in Commands /\ Waits(Head(queue))
      BY <1>4, FirstWaits DEF WritePutsBeside
    <2> QED BY <1>4, <2>1
            DEF WritePutsBeside, CallTypes, QueueIsThoseWaiting, ChangesStand, Waits
  <1>5. CASE WriteRenames
    BY <1>5 DEF WriteRenames, CallTypes, QueueIsThoseWaiting, ChangesStand, Waits
  <1>6. ASSUME NEW said \in {"done", "failed"}, queue # <<>>,
               call' = [call EXCEPT ![Head(queue)].pc = said],
               queue' = Tail(queue), write' = NoWrite, UNCHANGED <<data, load, disturbed>>
        PROVE  StoreInv'
    <2>1. /\ Head(queue) \in Commands /\ Tail(queue) \in Seq(Commands)
          /\ \A c \in Commands : (\E i \in 1..Len(Tail(queue)) : Tail(queue)[i] = c)
                                 <=> Waits(c) /\ c # Head(queue)
          /\ \A i, j \in 1..Len(Tail(queue)) : Tail(queue)[i] = Tail(queue)[j] => i = j
      BY <1>6, FirstWaits
    <2>2. CallTypes'
      <3>1. [call[Head(queue)] EXCEPT !.pc = said]
               \in [pc : CallPcs, op : {"set", "unset", "reset"}, key : Keys,
                   value : Values \cup {None}]
        BY <2>1 DEF CallTypes, CallPcs
      <3> QED BY <1>6, <2>1, <3>1 DEF CallTypes
    <2>3. \A c \in Commands : /\ Waits(c)' <=> Waits(c) /\ c # Head(queue)
                              /\ call'[c].key = call[c].key /\ call'[c].value = call[c].value
      BY <1>6, <2>1 DEF CallTypes, Waits
    <2>4. QueueIsThoseWaiting'
      BY <1>6, <2>1, <2>3 DEF QueueIsThoseWaiting, Waits, NoWrite
    <2>5. ChangesStand'
      BY <1>6, <2>3 DEF ChangesStand, NoWrite
    <2> QED BY <2>2, <2>4, <2>5
  <1>7. CASE WriteMarks
    <2>1. queue # <<>>
      BY <1>7 DEF WriteMarks, QueueIsThoseWaiting
    <2> QED BY <1>6, <1>7, <2>1 DEF WriteMarks
  <1>8. CASE WriteRefused
    BY <1>6, <1>8 DEF WriteRefused
  <1>9. ASSUME NEW c \in Commands, Begins(c) PROVE StoreInv'
    <2>1. PICK op \in {"set", "unset", "reset"}, k \in Keys, v \in Values \cup {None} :
             call' = [call EXCEPT ![c] = [@ EXCEPT !.pc = "called", !.op = op,
                                                   !.key = k, !.value = v]]
      BY <1>9 DEF Begins
    <2>2. CallTypes'
      <3>1. [call[c] EXCEPT !.pc = "called", !.op = op, !.key = k, !.value = v]
               \in [pc : CallPcs, op : {"set", "unset", "reset"}, key : Keys,
                   value : Values \cup {None}]
        BY DEF CallTypes, CallPcs
      <3>2. UNCHANGED <<queue, data>>
        BY <1>9 DEF Begins
      <3> QED BY <2>1, <3>1, <3>2 DEF CallTypes
    <2>3. \A d \in Commands : /\ Waits(d)' <=> Waits(d)
                              /\ Waits(d) => call'[d] = call[d]
      BY <1>9, <2>1 DEF Begins, CallTypes, Waits
    <2>4. QueueIsThoseWaiting'
      BY <1>9, <2>3 DEF Begins, QueueIsThoseWaiting, Waits
    <2>5. queue # <<>> => Head(queue) \in Commands /\ Waits(Head(queue))
      BY FirstWaits
    <2>6. ChangesStand'
      <3>1. UNCHANGED <<data, queue, load, write, disturbed>>
        BY <1>9 DEF Begins
      <3>2. load'.pc # "done" => \A d \in Commands : ~Waits(d)'
        BY <2>3, <3>1 DEF ChangesStand
      <3>3. \A d \in Commands \ disturbed' : Waits(d)' => data'[call'[d].key] = call'[d].value
        BY <2>3, <3>1 DEF ChangesStand
      <3>4. \A d \in Commands \ disturbed' :
               write'.pc = "beside" /\ queue' # <<>> /\ d = Head(queue')
               => write'.beside[call'[d].key] = call'[d].value
        BY <2>3, <2>5, <3>1 DEF ChangesStand
      <3> QED BY <3>2, <3>3, <3>4 DEF ChangesStand
    <2> QED BY <2>2, <2>4, <2>6
  <1>10. ASSUME NEW c \in Commands, Changes(c) PROVE StoreInv'
    <2>1. CASE call[c].op = "unset" /\ data[call[c].key] = None
      <3>1. /\ call' = [call EXCEPT ![c].pc = "done"]
            /\ UNCHANGED <<data, queue, disturbed, load, write>>
        BY <1>10, <2>1 DEF Changes
      <3>2. CallTypes'
        <4>1. [call[c] EXCEPT !.pc = "done"]
                 \in [pc : CallPcs, op : {"set", "unset", "reset"}, key : Keys,
                     value : Values \cup {None}]
          BY DEF CallTypes, CallPcs
        <4> QED BY <3>1, <4>1 DEF CallTypes
      <3>3. \A d \in Commands : /\ Waits(d)' <=> Waits(d)
                                /\ call'[d].key = call[d].key /\ call'[d].value = call[d].value
        BY <1>10, <3>1 DEF Changes, CallTypes, Waits
      <3> QED BY <3>1, <3>2, <3>3 DEF QueueIsThoseWaiting, ChangesStand, Waits
    <2>2. CASE ~(call[c].op = "unset" /\ data[call[c].key] = None)
      <3>1. /\ data' = [data EXCEPT ![call[c].key] = call[c].value]
            /\ queue' = Append(queue, c)
            /\ call' = [call EXCEPT ![c].pc = "write"]
            /\ disturbed' = disturbed \cup
                 {d \in Commands : call[d].pc = "write" /\ call[d].key = call[c].key}
            /\ UNCHANGED <<load, write>> /\ load.pc = "done" /\ call[c].pc = "called"
        BY <1>10, <2>2 DEF Changes
      <3>2. /\ queue' \in Seq(Commands) /\ queue' # <<>>
            /\ queue # <<>> => Head(queue') = Head(queue)
            /\ queue = <<>> => Head(queue') = c
            /\ \A d \in Commands : (\E i \in 1..Len(queue') : queue'[i] = d) <=> Waits(d) \/ d = c
            /\ \A i, j \in 1..Len(queue') : queue'[i] = queue'[j] => i = j
        BY <3>1, OneMoreWaits DEF Waits
      <3>3. CallTypes'
        <4>1. [call[c] EXCEPT !.pc = "write"]
                 \in [pc : CallPcs, op : {"set", "unset", "reset"}, key : Keys,
                     value : Values \cup {None}]
          BY DEF CallTypes, CallPcs
        <4>2. call' \in [Commands -> [pc : CallPcs, op : {"set", "unset", "reset"}, key : Keys,
                                      value : Values \cup {None}]]
          BY <3>1, <4>1 DEF CallTypes
        <4>3. data' \in Records
          <5>1. call[c].key \in Keys /\ call[c].value \in Values \cup {None}
            BY DEF CallTypes
          <5> QED BY <3>1, <5>1 DEF CallTypes, Records
        <4> QED BY <3>2, <4>2, <4>3 DEF CallTypes
      <3>4. \A d \in Commands : /\ Waits(d)' <=> Waits(d) \/ d = c
                                /\ call'[d].key = call[d].key /\ call'[d].value = call[d].value
        BY <3>1 DEF CallTypes, Waits
      <3>5. QueueIsThoseWaiting'
        BY <3>1, <3>2, <3>4 DEF QueueIsThoseWaiting, Waits
      <3>6. \A d \in Commands \ disturbed' : Waits(d)' => data'[call'[d].key] = call'[d].value
        <4> SUFFICES ASSUME NEW d \in Commands, d \notin disturbed', Waits(d)'
                     PROVE  data'[call[d].key] = call[d].value
          BY <3>4
        <4>1. call[d].key \in Keys /\ call[c].key \in Keys /\ DOMAIN data = Keys
          BY DEF CallTypes, Records
        <4>2. CASE d = c
          BY <3>1, <4>1, <4>2
        <4>3. CASE d # c
          <5>1. Waits(d) /\ d \notin disturbed
            BY <3>1, <3>4, <4>3
          <5>2. call[d].key # call[c].key
            BY <3>1, <5>1 DEF Waits
          <5> QED BY <3>1, <4>1, <5>1, <5>2 DEF ChangesStand
        <4> QED BY <4>2, <4>3
      <3>7. write.pc # "rest" => queue # <<>>
        BY DEF QueueIsThoseWaiting
      <3>8. ChangesStand'
        BY <3>1, <3>2, <3>4, <3>6, <3>7 DEF ChangesStand
      <3> QED BY <3>3, <3>5, <3>8
    <2> QED BY <2>1, <2>2
  <1>11. ASSUME NEW r \in Readers, GetLooks(r) \/ GetReads(r) PROVE StoreInv'
    BY <1>11 DEF GetLooks, GetReads, CallTypes, QueueIsThoseWaiting, ChangesStand, Waits
  <1>12. ASSUME NEW r \in Readers, GetTakes(r) PROVE StoreInv'
    <2>1. CASE Readable(reader[r].got)
      BY <1>12, <2>1
         DEF GetTakes, Readable, CallTypes, QueueIsThoseWaiting, ChangesStand, Waits
    <2>2. CASE ~Readable(reader[r].got)
      BY <1>12, <2>2
         DEF GetTakes, CallTypes, QueueIsThoseWaiting, ChangesStand, Waits
    <2> QED BY <2>1, <2>2
  <1>13. CASE Edited
    BY <1>13 DEF Edited, CallTypes, QueueIsThoseWaiting, ChangesStand, Waits
  <1>14. CASE Stops
    <2>1. CallTypes'
      <3>1. ASSUME NEW c \in Commands
            PROVE  /\ call[c] \in [pc : CallPcs, op : {"set", "unset", "reset"}, key : Keys,
                                    value : Values \cup {None}]
                   /\ [call[c] EXCEPT !.pc = "lost"]
                         \in [pc : CallPcs, op : {"set", "unset", "reset"}, key : Keys,
                             value : Values \cup {None}]
        BY DEF CallTypes, CallPcs
      <3>2. data' \in Records /\ queue' \in Seq(Commands)
        BY <1>14 DEF Stops, Records, Empty
      <3> QED BY <1>14, <3>1, <3>2 DEF Stops, CallTypes
    <2>2. \A c \in Commands : ~Waits(c)'
      BY <1>14 DEF Stops, CallTypes, CallPcs, Waits
    <2> QED BY <1>14, <2>1, <2>2 DEF Stops, QueueIsThoseWaiting, ChangesStand, Waits, NoWrite
  <1> QED BY <1>1, <1>2, <1>3, <1>4, <1>5, <1>7, <1>8, <1>9, <1>10, <1>11, <1>12, <1>13, <1>14
          DEF StoreNext, Loader, Writer, Gets

(* The queue of writes holds the calls that wait, once each: no write is   *)
(* forgotten and none is made for nobody (query-config.ts, persist).       *)
THEOREM QueueHoldsThoseWaiting ==
    ASSUME QueryConfigConstants
    PROVE  StoreSpec => []QueueIsThoseWaiting
  <1>1. StoreInit => StoreInv
    BY StoreInitially
  <1>2. StoreInv /\ [StoreNext]_storeVars => StoreInv'
    BY StoreKept
  <1>3. StoreInv => QueueIsThoseWaiting
    BY DEF StoreInv
  <1> QED BY <1>1, <1>2, <1>3, PTL DEF StoreSpec

(* The file put in place for a change says what the change said, unless a  *)
(* reload or a later change of the record overtook it (query-config.ts,    *)
(* set, persist and reloadIfChanged).                                      *)
THEOREM AcknowledgedIsWritten ==
    ASSUME QueryConfigConstants
    PROVE  StoreSpec => AcknowledgedChangeIsWritten
  <1>1. StoreInit => StoreInv
    BY StoreInitially
  <1>2. StoreInv /\ [StoreNext]_storeVars => StoreInv'
    BY StoreKept
  <1>3. StoreInv /\ [StoreNext]_storeVars => [WrittenAsSaid]_storeVars
    <2> SUFFICES ASSUME StoreInv, [StoreNext]_storeVars, NEW c \in Commands,
                        write.pc = "beside", write'.pc = "renamed", c = Head(queue),
                        c \notin disturbed
                 PROVE  file'.says[call[c].key] = call[c].value
      BY DEF WrittenAsSaid
    <2>1. write' # write /\ write' # NoWrite
      BY DEF NoWrite
    <2>2. ~UNCHANGED storeVars /\ ~Loader /\ ~Edited /\ ~Stops
      BY <2>1, Zenon DEF storeVars, Loader, LoadReads, LoadMarks, Edited, Stops
    <2>3. ASSUME NEW d \in Commands PROVE ~Begins(d) /\ ~Changes(d)
      BY <2>1, Zenon DEF Begins, Changes
    <2>4. ASSUME NEW r \in Readers PROVE ~Gets(r)
      BY <2>1, Zenon DEF Gets, GetLooks, GetReads, GetTakes
    <2>5. ~WritePutsBeside /\ ~WriteMarks /\ ~WriteRefused
      BY <2>1 DEF WritePutsBeside, WriteMarks, WriteRefused
    <2>6. WriteRenames
      BY <2>2, <2>3, <2>4, <2>5 DEF StoreNext, Writer
    <2> QED BY <2>6 DEF WriteRenames, StoreInv, ChangesStand, QueueIsThoseWaiting
  <1> QED BY <1>1, <1>2, <1>3, PTL DEF StoreSpec, AcknowledgedChangeIsWritten
-----------------------------------------------------------------------------
Says == Records \cup {Torn, Foreign}
Undisturbed == ~raced /\ \A c \in Commands : call[c].pc # "failed"

\* The file's time grows with every change of it: who holds the time it has now holds
\* what it says now.  Until the first load is marked there is no mark.
MarkInv ==
    /\ file \in [time : Nat \ {0}, says : Says] /\ mark \in 0 .. file.time
    /\ load \in [pc : {"read", "stat", "done"}, got : Says]
    /\ write.pc \in {"rest", "beside", "renamed"}
    /\ reader \in [Readers -> [pc : {"rest", "read", "take"}, seen : Nat, got : Says]]
    /\ \A r \in Readers : /\ reader[r].seen <= file.time
                          /\ reader[r].pc = "take" /\ reader[r].seen = file.time
                             => reader[r].got = file.says
    /\ load.pc # "done" => mark = 0 /\ \A r \in Readers : reader[r].pc = "rest"
    /\ load.pc = "stat" /\ Readable(load.got) => data = load.got

\* A lone write puts down what memory says; with none under way the mark tells the truth.
TruthInv ==
    Undisturbed =>
        /\ write.pc # "rest" /\ Tail(queue) = <<>> => data = write.beside
        /\ load.pc = "done" /\ queue = <<>> /\ mark = file.time /\ Readable(file.says)
           => data = file.says

FullInv == StoreInv /\ write.beside \in Records /\ MarkInv /\ TruthInv

LEMMA MarkInitially == QueryConfigConstants /\ StoreInit => FullInv
  <1> SUFFICES ASSUME QueryConfigConstants, StoreInit PROVE FullInv
    OBVIOUS
  <1>1. StoreInv
    BY StoreInitially
  <1>2. Empty \in Records
    BY DEF Empty, Records
  <1> QED BY <1>1, <1>2 DEF StoreInit, FullInv, MarkInv, TruthInv, Says, NoWrite, Resting

LEMMA MarkKept ==
    ASSUME QueryConfigConstants, FullInv, [StoreNext]_storeVars
    PROVE  FullInv'
  <1> USE DEF FullInv
  <1>0. StoreInv'
    BY StoreKept
  <1>1. CASE UNCHANGED storeVars
    BY <1>0, <1>1 DEF storeVars, MarkInv, TruthInv, Undisturbed
  <1>2. CASE LoadReads
    <2>1. MarkInv'
      BY <1>2 DEF LoadReads, MarkInv, Readable, Says
    <2>2. write.pc = "rest" /\ mark # file.time
      <3>1. queue = <<>>
        BY <1>2, FirstWaits DEF LoadReads, StoreInv, ChangesStand
      <3> QED BY <1>2, <3>1 DEF LoadReads, MarkInv, StoreInv, QueueIsThoseWaiting
    <2> QED BY <1>0, <1>2, <2>1, <2>2 DEF LoadReads, TruthInv
  <1>3. CASE LoadMarks
    <2>1. MarkInv'
      BY <1>3 DEF LoadMarks, MarkInv
    <2>2. TruthInv'
      BY <1>3 DEF LoadMarks, MarkInv, TruthInv, Undisturbed
    <2> QED BY <1>0, <1>3, <2>1, <2>2 DEF LoadMarks
  <1>4. CASE WritePutsBeside
    <2>1. write' = [pc |-> "beside", beside |-> data] /\ data \in Records /\ queue # <<>>
      BY <1>4 DEF WritePutsBeside, StoreInv, CallTypes
    <2>2. UNCHANGED <<file, data, mark, load, queue, call, reader, raced>>
      BY <1>4 DEF WritePutsBeside
    <2>3. MarkInv'
      BY <2>1, <2>2 DEF MarkInv
    <2>4. write'.beside \in Records /\ TruthInv'
      BY <2>1, <2>2 DEF TruthInv, Undisturbed
    <2> QED BY <1>0, <2>3, <2>4
  <1>5. CASE WriteRenames
    <2>1. queue # <<>>
      BY <1>5 DEF WriteRenames, StoreInv, QueueIsThoseWaiting
    <2>2. MarkInv'
      BY <1>5 DEF WriteRenames, MarkInv, Says
    <2> QED BY <1>0, <1>5, <2>1, <2>2 DEF WriteRenames, TruthInv, Undisturbed
  <1>6. CASE WriteMarks
    <2>1. queue # <<>> /\ write.pc = "renamed"
      BY <1>6 DEF WriteMarks, StoreInv, QueueIsThoseWaiting
    <2>2. MarkInv' /\ write'.beside \in Records
      <3>1. NoWrite.pc = "rest" /\ NoWrite.beside \in Records
        BY DEF NoWrite, Empty, Records
      <3>2. load.pc = "done"
        BY <2>1, FirstWaits DEF StoreInv, ChangesStand, MarkInv
      <3> QED BY <1>6, <3>1, <3>2 DEF WriteMarks, MarkInv
    <2>3. Undisturbed' => Undisturbed /\ file.says = write.beside
      <3>1. Head(queue) \in Commands /\ Waits(Head(queue))
        BY <2>1, FirstWaits DEF StoreInv
      <3>2. raced' = (raced \/ file.says # write.beside)
            /\ call' = [call EXCEPT ![Head(queue)].pc = "done"]
        BY <1>6 DEF WriteMarks
      <3>3. \A c \in Commands : call[c].pc = "failed" => call'[c].pc = "failed"
        BY <3>1, <3>2 DEF StoreInv, CallTypes, Waits
      <3> QED BY <3>2, <3>3 DEF Undisturbed
    <2>4. TruthInv'
      BY <1>6, <2>1, <2>3 DEF WriteMarks, TruthInv, NoWrite
    <2> QED BY <1>0, <1>6, <2>2, <2>4 DEF WriteMarks
  <1>7. CASE WriteRefused
    <2>1. ~Undisturbed'
      BY <1>7, FirstWaits DEF WriteRefused, Undisturbed, StoreInv, CallTypes
    <2> QED BY <1>0, <1>7, <2>1 DEF WriteRefused, TruthInv, MarkInv, NoWrite, Empty, Records
  <1>8. ASSUME NEW c \in Commands, Begins(c) PROVE FullInv'
    <2>1. Undisturbed' => Undisturbed
      BY <1>8 DEF Begins, Undisturbed, StoreInv, CallTypes
    <2> QED BY <1>0, <1>8, <2>1 DEF Begins, MarkInv, TruthInv
  <1>9. ASSUME NEW c \in Commands, Changes(c) PROVE FullInv'
    <2>1. Undisturbed' => Undisturbed
      BY <1>9 DEF Changes, Undisturbed, StoreInv, CallTypes
    <2>2. load.pc = "done" /\ UNCHANGED <<file, mark, load, write, reader, raced>>
      BY <1>9 DEF Changes
    <2>3. MarkInv'
      BY <2>2 DEF MarkInv
    <2>4. CASE UNCHANGED <<data, queue>>
      BY <1>0, <2>1, <2>2, <2>3, <2>4 DEF TruthInv
    <2>5. CASE queue' = Append(queue, c)
      <3>1. queue' # <<>> /\ (queue # <<>> => Tail(queue') # <<>>)
        BY <2>5 DEF StoreInv, CallTypes
      <3>2. write.pc # "rest" => queue # <<>>
        BY DEF StoreInv, QueueIsThoseWaiting
      <3> QED BY <1>0, <2>2, <2>3, <3>1, <3>2 DEF TruthInv
    <2> QED BY <1>9, <2>4, <2>5 DEF Changes
  <1>10. ASSUME NEW r \in Readers, GetLooks(r) \/ GetReads(r) PROVE FullInv'
    <2>1. MarkInv'
      <3>1. load.pc = "done" /\ UNCHANGED <<file, data, mark, load, write>>
        BY <1>10 DEF GetLooks, GetReads, MarkInv
      <3>2. /\ reader' \in [Readers -> [pc : {"rest", "read", "take"}, seen : Nat, got : Says]]
            /\ \A q \in Readers : /\ reader'[q].seen <= file.time
                                  /\ reader'[q].pc = "take" /\ reader'[q].seen = file.time
                                     => reader'[q].got = file.says
        <4>1. /\ reader \in [Readers -> [pc : {"rest", "read", "take"}, seen : Nat, got : Says]]
              /\ file.time \in Nat /\ file.says \in Says
              /\ \A q \in Readers : /\ reader[q].seen <= file.time
                                    /\ reader[q].pc = "take" /\ reader[q].seen = file.time
                                       => reader[q].got = file.says
          BY DEF MarkInv
        <4>2. CASE reader' = [reader EXCEPT ![r] = [@ EXCEPT !.pc = "read", !.seen = file.time]]
          <5> DEFINE x == [reader[r] EXCEPT !.pc = "read", !.seen = file.time]
          <5>1. x \in [pc : {"rest", "read", "take"}, seen : Nat, got : Says]
                /\ x.pc = "read" /\ x.seen = file.time
            BY <4>1
          <5>2. reader' = [reader EXCEPT ![r] = x]
            BY <4>2
          <5> HIDE DEF x
          <5> QED BY <4>1, <5>1, <5>2
        <4>3. CASE reader' = [reader EXCEPT ![r] = [@ EXCEPT !.pc = "take", !.got = file.says]]
          <5> DEFINE x == [reader[r] EXCEPT !.pc = "take", !.got = file.says]
          <5>1. x \in [pc : {"rest", "read", "take"}, seen : Nat, got : Says]
                /\ x.seen = reader[r].seen /\ x.got = file.says
            BY <4>1
          <5>2. reader' = [reader EXCEPT ![r] = x]
            BY <4>3
          <5> HIDE DEF x
          <5> QED BY <4>1, <5>1, <5>2
        <4> QED BY <1>10, <4>2, <4>3 DEF GetLooks, GetReads
      <3>3. file' \in [time : Nat \ {0}, says : Says] /\ mark' \in 0 .. file'.time
        BY <3>1 DEF MarkInv
      <3>4. load' \in [pc : {"read", "stat", "done"}, got : Says] /\ load'.pc = "done"
        BY <3>1 DEF MarkInv
      <3> QED BY <3>1, <3>2, <3>3, <3>4 DEF MarkInv
    <2> QED BY <1>0, <1>10, <2>1 DEF GetLooks, GetReads, TruthInv, Undisturbed
  <1>11. ASSUME NEW r \in Readers, GetTakes(r) PROVE FullInv'
    <2>1. /\ reader' = [reader EXCEPT ![r] = Resting] /\ reader[r].pc = "take"
          /\ UNCHANGED <<file, load, queue, write, call>>
      BY <1>11 DEF GetTakes
    <2>2. MarkInv'
      <3>1. load.pc = "done" /\ mark' \in 0 .. file.time
        BY <1>11, <2>1 DEF GetTakes, MarkInv
      <3> QED BY <2>1, <3>1 DEF MarkInv, Resting, Says
    <2>3. TruthInv'
      <3>1. CASE Readable(reader[r].got)
        BY <1>11, <2>1, <3>1 DEF GetTakes, TruthInv, Undisturbed, MarkInv
      <3>2. CASE ~Readable(reader[r].got)
        BY <1>11, <2>1, <3>2 DEF GetTakes, TruthInv, Undisturbed
      <3> QED BY <3>1, <3>2
    <2> QED BY <1>0, <2>1, <2>2, <2>3
  <1>12. CASE Edited
    <2>1. MarkInv'
      BY <1>12 DEF Edited, MarkInv, ByHand, Says, Records
    <2> QED BY <1>0, <1>12, <2>1 DEF Edited, TruthInv, Undisturbed, MarkInv
  <1>13. CASE Stops
    <2>1. MarkInv' /\ write' = NoWrite /\ write'.beside \in Records
      BY <1>13 DEF Stops, MarkInv, Resting, Says, NoWrite, Empty, Records
    <2> QED BY <1>0, <1>13, <2>1 DEF Stops, TruthInv, NoWrite
  <1> QED BY <1>1, <1>2, <1>3, <1>4, <1>5, <1>6, <1>7, <1>8, <1>9, <1>10, <1>11, <1>12, <1>13
          DEF StoreNext, Loader, Writer, Gets

(* The store does not take stale records for current: at rest, with the    *)
(* mark at the file's time, memory is what the file says, unless a write   *)
(* was refused or the file moved between being read and being marked       *)
(* (query-config.ts, reloadIfChanged, loadFromDisk and persist).           *)
THEOREM MarkTellsTheTruth ==
    ASSUME QueryConfigConstants
    PROVE  StoreSpec => []MarkMeansMemoryIsFile
  <1>1. StoreInit => FullInv
    BY MarkInitially
  <1>2. FullInv /\ [StoreNext]_storeVars => FullInv'
    BY MarkKept
  <1>3. FullInv => MarkMeansMemoryIsFile
    BY DEF FullInv, TruthInv, Undisturbed, MarkMeansMemoryIsFile, AtRest
  <1> QED BY <1>1, <1>2, <1>3, PTL DEF StoreSpec
=============================================================================
