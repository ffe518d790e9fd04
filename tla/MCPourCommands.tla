-------------------------- MODULE MCPourCommands --------------------------
(***************************************************************************)
(* The turn lane and the command lane of one window, everything failing,   *)
(* in two settings: the module's own, where the host's lanes wait for one  *)
(* another, and "beside", where they do not and the host's own compaction  *)
(* runs between any two steps of a turn.                                   *)
(***************************************************************************)
EXTENDS PourOff

VARIABLE setting

Beside == INSTANCE PourOff
          WITH Serial <- FALSE, Commands <- {"budget"}

ASSUME BesideIsAnInstance == Beside!PourOffConstants

MCInit == setting \in {"inTurn", "beside"} /\ Init
MCNext == /\ UNCHANGED setting
          /\ \/ setting = "inTurn" /\ Next
             \/ setting = "beside" /\ Beside!Next

MCSpec == MCInit /\ [][MCNext]_<<setting, vars>>
===========================================================================
