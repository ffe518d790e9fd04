----------------------------- MODULE MCPourOff -----------------------------
(***************************************************************************)
(* The life of the window in three settings and one run.  The module's     *)
(* own: the turn lane alone, with a handle that may fall silent, failed    *)
(* summaries and restarts.  "rough": the turns and the host's compaction   *)
(* beside one another, everything failing; then only that calls return is  *)
(* owed.  "old": a server that does not count its waiting archives and no  *)
(* price handle, so that the floor alone decides what stays.  A behaviour  *)
(* is one of one setting; the two others share a second set of variables.  *)
(***************************************************************************)
EXTENDS PourOff

VARIABLES part,
          otherLog, otherEnds, otherVerdicts, otherDue, otherGivenUp, otherShown, otherTurn,
          otherCmd, otherGaveUpOn, otherSince, otherUntold

Rough == INSTANCE PourOff
         WITH ServerCounts <- TRUE, Base <- 1, PourAt <- 2, KeepTokens <- 1, KeepFloor <- 1,
              Price <- "stormy", HoldPolls <- 1, WaitPolls <- 1, Commands <- {"budget"},
              Serial <- FALSE, Faults <- {"read", "poll", "write", "lost", "summary"},
              MaxMessages <- 2,
              log <- otherLog, ends <- otherEnds, verdicts <- otherVerdicts,
              pourDue <- otherDue, givenUp <- otherGivenUp, shown <- otherShown,
              turn <- otherTurn, cmd <- otherCmd, gaveUpOn <- otherGaveUpOn,
              since <- otherSince, untold <- otherUntold

Old == INSTANCE PourOff
       WITH ServerCounts <- FALSE, Base <- 1, PourAt <- 2, KeepTokens <- 1, KeepFloor <- 2,
            Price <- "none", HoldPolls <- 1, WaitPolls <- 1,
            Commands <- {"budget", "manual", "reset"},
            Serial <- TRUE, Faults <- {"summary"}, MaxMessages <- 4,
            log <- otherLog, ends <- otherEnds, verdicts <- otherVerdicts,
            pourDue <- otherDue, givenUp <- otherGivenUp, shown <- otherShown,
            turn <- otherTurn, cmd <- otherCmd, gaveUpOn <- otherGaveUpOn,
            since <- otherSince, untold <- otherUntold

ASSUME PartsAreInstances == Rough!PourOffConstants /\ Old!PourOffConstants

otherVars == <<otherLog, otherEnds, otherVerdicts, otherDue, otherGivenUp, otherShown,
               otherTurn, otherCmd, otherGaveUpOn, otherSince, otherUntold>>
allVars == <<part, vars, otherVars>>

MCInit == /\ part \in {"turns", "rough", "old"}
          /\ Init /\ Rough!Init

MCNext == /\ UNCHANGED part
          /\ \/ part = "turns" /\ Next /\ UNCHANGED otherVars
             \/ part = "rough" /\ Rough!Next /\ UNCHANGED vars
             \/ part = "old" /\ Old!Next /\ UNCHANGED vars

MCSpec == MCInit /\ [][MCNext]_allVars

\* The calls go on by themselves in two settings; in the turns', the host also starts
\* another turn and a handle asked again and again answers once.
GoesOn(which, step, rest) == part = which /\ step /\ UNCHANGED <<part, rest>>
AssembleGoesOn == \/ GoesOn("turns", AssembleStep, otherVars)
                  \/ GoesOn("rough", Rough!AssembleStep, vars)
HookGoesOn == \/ GoesOn("turns", HookStep, otherVars)
              \/ GoesOn("rough", Rough!HookStep, vars)
CompactionGoesOn == GoesOn("rough", Rough!CompactStep, vars)
NextTurnStarts == GoesOn("turns", StartAssemble, otherVars)
HandleAnswers == GoesOn("turns", SettlePriced, otherVars)

MCFairSpec == /\ MCSpec
              /\ WF_allVars(AssembleGoesOn) /\ WF_allVars(HookGoesOn)
              /\ WF_allVars(CompactionGoesOn) /\ WF_allVars(NextTurnStarts)
              /\ SF_allVars(HandleAnswers)
-----------------------------------------------------------------------------
(* Without a handle and without a count, too, what stays live opens with a *)
(* user's message and is not shorter than the floor (longestTailWithin),   *)
(* and a compaction is answered "compacted" only when its summary stands   *)
(* (waitForSummary, compactOpenVikingSession).                             *)
OldServerIsServedAsWell ==
    [][part = "old" => Old!KeepsWholeTurns /\ Old!CompactedIsTrue]_allVars

(* A call returns whatever the server and the handle do or never say: a    *)
(* held turn, beside a host's compaction or alone, and the compaction      *)
(* (holdForSummary, settleWindow, compactOpenVikingSession).               *)
CallsReturn ==
    /\ HeldTurnGoesOn
    /\ part = "rough" => Rough!HeldTurnGoesOn /\ Rough!CompactionIsAnswered
=============================================================================
