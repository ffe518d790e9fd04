--------------------------- MODULE MCAgentRouting ---------------------------
(***************************************************************************)
(* Two agents with a session each, the key of one of which tells no agent, *)
(* and a hook whose context may give the session's id alone.               *)
(***************************************************************************)
EXTENDS AgentRouting

OwnerOf == [s \in Sessions |-> IF s = "s1" THEN "A" ELSE "B"]
SomeTelling == {<<"s2", "key">>}
OwnKeys == {Plain(a) : a \in Agents}
EngineForms == {{"sid"}, {"sid", "key"}}
ToolForms == {{"sid"}, {"sid", "key"}, {"key"}}
HookForms == {{"sid"}, {"sid", "key"}, {"sid", "key", "agent"}}
=============================================================================
