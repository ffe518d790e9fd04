---------------------------- MODULE MCRecording ----------------------------
(***************************************************************************)
(* The recording of turns in two settings and one run.  The module's own:  *)
(* a host that begins a turn only when its queue is empty, nothing at the  *)
(* server failing, but answers that are lost or do not reach the host,     *)
(* restarts and pour-offs.  "rough": a host that does not wait, and reads, *)
(* writes and answers that fail; then only the queue's progress is owed.   *)
(* A behaviour is one of one setting, the other standing at its start.     *)
(***************************************************************************)
EXTENDS TurnRecording

VARIABLES part,
          roughHook, roughCall, roughClaims, roughScript, roughBegun, roughOpen,
          roughHooked, roughQueue, roughSettled, roughStored, roughFrom

Rough == INSTANCE TurnRecording
         WITH Texts <- {"yes"}, MaxTurns <- 2, MaxRounds <- 1, ClaimLimit <- 4,
              HostWaits <- FALSE,
              Faults <- {"read", "write", "lost", "unheard", "impatient", "compact"},
              hook <- roughHook, call <- roughCall, claims <- roughClaims,
              script <- roughScript, begun <- roughBegun, open <- roughOpen,
              hooked <- roughHooked, queue <- roughQueue, settled <- roughSettled,
              stored <- roughStored, from <- roughFrom

ASSUME PartsAreInstances == TurnRecordingConstants /\ Rough!TurnRecordingConstants

roughVars == <<roughHook, roughCall, roughClaims, roughScript, roughBegun, roughOpen,
               roughHooked, roughQueue, roughSettled, roughStored, roughFrom>>

Plain(t) == [question |-> "yes", rounds |-> 0]

MCInit ==
    /\ Init /\ Rough!Init
    /\ \/ part = "whole" /\ roughScript = [t \in 1 .. 2 |-> Plain(t)]
       \/ part = "rough" /\ script = [t \in Turns |-> Plain(t)]

MCNext ==
    /\ UNCHANGED part
    /\ \/ part = "whole" /\ Next /\ UNCHANGED roughVars
       \/ part = "rough" /\ Rough!Next /\ UNCHANGED vars

MCSpec == MCInit /\ [][MCNext]_<<part, vars, roughVars>>

\* The queue is durable: it brings a turn until it is answered, and hears in the end.
RoughStep == part = "rough" /\ Rough!CommitStep /\ UNCHANGED <<part, vars>>
MCFairSpec ==
    /\ MCSpec
    /\ WF_<<part, vars, roughVars>>(RoughStep)
    /\ SF_<<part, vars, roughVars>>(RoughStep /\ roughSettled' # roughSettled)
-----------------------------------------------------------------------------
(* A closed turn does not stay in the queue for good, though reads, writes *)
(* and answers fail (context-engine.ts, commitTurn).                       *)
RoughTurnIsSettled == Rough!ClosedTurnIsSettled
=============================================================================
