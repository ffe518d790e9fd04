----------------------------- MODULE QueryLayers -----------------------------
(***************************************************************************)
(* What the settings of recall are for a question (getEffective of         *)
(* query-config.ts): the configuration's, then the claw's record, then the *)
(* session's, then the request's own, each over the one before.  A record  *)
(* is a function on the fields it sets.  How many candidates are searched  *)
(* follows the limit and the multiplier until a record names a number; the *)
(* fields that simply follow the last record that sets them are one here,  *)
(* the threshold.                                                          *)
(***************************************************************************)
EXTENDS Integers, Sequences

CONSTANTS MinCandidates,   \* 20 in the code
          Multiplier       \* DEFAULT_CANDIDATE_MULTIPLIER

Fields == {"recallLimit", "candidateMultiplier", "candidateLimit", "scoreThreshold"}
Has(record, field) == field \in DOMAIN record
NoRecord == [f \in {} |-> 0]
IsSettings(record) == DOMAIN record \subseteq Fields /\ \A f \in DOMAIN record : record[f] \in Nat

AtLeast(a, b) == IF a > b THEN a ELSE b

\* normalizeRuntimeQueryParams: fewer candidates than are recalled are raised.
Normalised(record) ==
    IF Has(record, "candidateLimit") /\ Has(record, "recallLimit")
    THEN [record EXCEPT !.candidateLimit = AtLeast(@, record.recallLimit)] ELSE record

FromStatic(static) ==
    [recallLimit |-> static.recallLimit, candidateMultiplier |-> Multiplier,
     candidateLimit |-> AtLeast(static.recallLimit * Multiplier, MinCandidates),
     scoreThreshold |-> static.scoreThreshold, explicit |-> FALSE]

\* Mutant: a new limit moves the candidates although their number was named.
OverRecomputing(record, eff) ==
    LET limit == IF Has(record, "recallLimit") THEN record.recallLimit ELSE eff.recallLimit
        times == IF Has(record, "candidateMultiplier") THEN record.candidateMultiplier
                 ELSE eff.candidateMultiplier
        moved == Has(record, "recallLimit") \/ Has(record, "candidateMultiplier")
    IN [recallLimit |-> limit, candidateMultiplier |-> times,
        candidateLimit |-> IF Has(record, "candidateLimit") THEN record.candidateLimit
                           ELSE IF moved THEN AtLeast(limit * times, MinCandidates)
                           ELSE eff.candidateLimit,
        scoreThreshold |-> IF Has(record, "scoreThreshold") THEN record.scoreThreshold
                           ELSE eff.scoreThreshold,
        explicit |-> eff.explicit \/ Has(record, "candidateLimit")]

\* applyLayer: one record over what is in force; explicit once a number was named.
Over(record, eff) ==
    LET limit == IF Has(record, "recallLimit") THEN record.recallLimit ELSE eff.recallLimit
        times == IF Has(record, "candidateMultiplier") THEN record.candidateMultiplier
                 ELSE eff.candidateMultiplier
        moved == Has(record, "recallLimit") \/ Has(record, "candidateMultiplier")
    IN [recallLimit |-> limit, candidateMultiplier |-> times,
        candidateLimit |-> IF Has(record, "candidateLimit") THEN record.candidateLimit
                           ELSE IF moved /\ ~eff.explicit THEN AtLeast(limit * times, MinCandidates)
                           ELSE eff.candidateLimit,
        scoreThreshold |-> IF Has(record, "scoreThreshold") THEN record.scoreThreshold
                           ELSE eff.scoreThreshold,
        explicit |-> eff.explicit \/ Has(record, "candidateLimit")]

\* The claw's record, the session's and the request's own, one over the other; never
\* fewer candidates than are recalled.
Effective(static, claw, session, request) ==
    LET eff == Over(request, Over(session, Over(claw, FromStatic(static))))
    IN [eff EXCEPT !.candidateLimit = AtLeast(@, eff.recallLimit)]

(***************************************************************************)
(* Where a record is kept and looked for (keyForScope, findSessionRecord): *)
(* a session's under the first of its names that is known, and looked for  *)
(* under each in that order; a claw's under its peer id.                   *)
(***************************************************************************)
NameOrder == <<"ov", "session", "key">>
Absent == "absent"

First(places) == NameOrder[CHOOSE i \in places : \A j \in places : i <= j]
SessionKey(ctx) == First({i \in DOMAIN NameOrder : ctx[NameOrder[i]] # Absent})
SessionRecord(sessions, ctx) ==
    LET held == {i \in DOMAIN NameOrder : /\ ctx[NameOrder[i]] # Absent
                                          /\ <<NameOrder[i], ctx[NameOrder[i]]>> \in DOMAIN sessions}
    IN IF held = {} THEN NoRecord ELSE sessions[<<First(held), ctx[First(held)]>>]
ClawRecord(claws, ctx) == IF ctx.peerId \in DOMAIN claws THEN claws[ctx.peerId] ELSE NoRecord

InForce(static, claws, sessions, ctx, request) ==
    Effective(static, ClawRecord(claws, ctx), SessionRecord(sessions, ctx), Normalised(request))
-----------------------------------------------------------------------------
(* Reference: each field is what the highest record that sets it says; the *)
(* candidates are the highest number named, else the limit times the       *)
(* multiplier, at least MinCandidates; never fewer than are recalled.      *)
Highest(records, field, default) ==
    LET setting == {i \in 1..Len(records) : Has(records[i], field)}
    IN IF setting = {} THEN default
       ELSE records[CHOOSE i \in setting : \A j \in setting : j <= i][field]
Reference(static, records) ==
    LET limit == Highest(records, "recallLimit", static.recallLimit)
        times == Highest(records, "candidateMultiplier", Multiplier)
    IN [recallLimit |-> limit, candidateMultiplier |-> times,
        candidateLimit |-> AtLeast(Highest(records, "candidateLimit",
                                           AtLeast(limit * times, MinCandidates)), limit),
        scoreThreshold |-> Highest(records, "scoreThreshold", static.scoreThreshold)]
=============================================================================
