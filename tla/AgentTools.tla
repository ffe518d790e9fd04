------------------------------ MODULE AgentTools ------------------------------
(***************************************************************************)
(* The tools an agent changes the server with, resources and memories: the *)
(* two registrations share no state of the plugin, and no two of these     *)
(* tools touch the same thing of the server.                               *)
(***************************************************************************)
EXTENDS ResourceTools, MemoryTools

AgentToolsSpec == ToolsSpec /\ KeeperSpec

(* A definite word of a tool is true of the server, now and whatever lands *)
(* later; all else is said to be unknown or an error                       *)
(* (openviking-import-tools.ts, openviking-memory-tools.ts).               *)
WordIsTrue == AnswerIsTrue /\ KeeperTellsTrue

(* One call of a tool changes the server at most once, the second try of a *)
(* removal included, and a search forgets only the one memory that was     *)
(* meant (openviking-import-tools.ts, openviking-memory-tools.ts).         *)
OneChangePerCall == ChangedOnceAtMost /\ ForgetsTheOneMeant
=============================================================================
