---------------------------- MODULE AgentRouting ----------------------------
(***************************************************************************)
(* Whose account a session's calls go to: identity-routing.ts,             *)
(* openviking-session-routing-runtime.ts, agent-keys.ts, the pool of       *)
(* clients, the engines scoped to an agent and the lifecycle hooks.        *)
(*                                                                         *)
(* Every agent has an account of its own on the server, and what cannot be *)
(* attributed goes to the system's.  A session is known by its id, its key *)
(* and the id it is stored under; contexts carry some of these names, and  *)
(* only some carry the agent.  What was learned lives in the process.      *)
(***************************************************************************)
EXTENDS FiniteSets

CONSTANTS
    Agents,        \* the host's agents
    Sessions,      \* the host's sessions
    Owner,         \* whose each session is
    Uuids,         \* the sessions whose id is a UUID: stored under it
    Telling,       \* the names that read agent:<id>:..., each with its session
    Keys,          \* the spellings of agents' names the file of keys holds
    Prefixed,      \* whether peer_prefix is set
    EngineNames,   \* what the engine's calls may name a session by
    ToolNames,     \* what the contexts of tools and commands may
    HookNames,     \* what those of the hooks
    Unscoped       \* the agents whose factory context names no directory

\* Assumed where this module is instantiated.
AgentRoutingConstants ==
    /\ Owner \in [Sessions -> Agents]
    /\ Uuids \subseteq Sessions /\ Telling \subseteq Sessions \X {"sid", "key"}
    /\ Keys \subseteq {"plain", "prefixed"} \X Agents
    /\ EngineNames \subseteq (SUBSET {"sid", "key"}) \ {{}}
    /\ ToolNames \subseteq (SUBSET {"sid", "key"}) \ {{}}
    /\ HookNames \subseteq (SUBSET {"sid", "key", "agent"}) \ {{}}
    /\ Unscoped \subseteq Agents

VARIABLES
    names,   \* sessionAgentIds: the names remembered, each with an agent's
    made,    \* the agents that have an engine in this process
    engine,  \* the engine created last: whose, or "none"
    filed,   \* the call that reached the server last: its session and the account
    taught,  \* sessions with the names their scoped engines called by since the last start
    strayed  \* sessions with the engines of others their resets went through unresolved

accountVars == <<names, made, engine, filed, taught, strayed>>

\* What the resolver calls an agent: with the prefix when one is set.
Plain(a) == <<"plain", a>>
Spelled(a) == IF Prefixed THEN <<"prefixed", a>> ELSE Plain(a)

\* SYSTEM_AGENT_ID: who is nobody, and the account of what is nobody's.
Nobody == <<"system", "system">>

\* AgentKeyResolver.resolve: an account under the very name in the file of keys, or the
\* system's.
Account(agent) == IF agent \in Keys THEN agent ELSE Nobody

\* openClawSessionToOvStorageId.
StorageId(s, with) ==
    IF "sid" \in with /\ (s \in Uuids \/ "key" \notin with) THEN <<s, "sid">> ELSE <<s, "hash">>

\* collectSessionAgentAliases: the names a context gives, and the stored one.
Aliases(s, with) ==
    {<<s, n>> : n \in with \cap {"sid", "key"}}
        \cup (IF with \cap {"sid", "key"} = {} THEN {} ELSE {StorageId(s, with)})

\* extractAgentIdFromSessionKey, of the key or of an id that reads like one.
KeyTells(s, with) == \E n \in with : <<s, n>> \in Telling

\* remember: under every name at once, or nothing when no agent is known.
Remember(s, with, agents) ==
    IF agents = {} /\ ~KeyTells(s, with) THEN names
    ELSE LET agent == IF agents # {} THEN CHOOSE a \in agents : TRUE ELSE Owner[s]
         IN  [n \in DOMAIN names \cup Aliases(s, with) |->
                 IF n \in Aliases(s, with) THEN Spelled(agent) ELSE names[n]]

\* The names of a context in the order they are looked up, then the stored one.
Looked(s, with) == IF "sid" \in with THEN <<s, "sid">> ELSE <<s, "key">>

FirstKnown(s, with, known) ==
    IF Looked(s, with) \in DOMAIN known THEN Looked(s, with)
    ELSE IF "key" \in with /\ <<s, "key">> \in DOMAIN known THEN <<s, "key">>
    ELSE StorageId(s, with)

\* resolveAgentId: a name remembered, the key, or nobody: "__system__".
\* Mutant: upstream's default agent for nobody.
ResolveToDefault(s, with, known) ==
    IF FirstKnown(s, with, known) \in DOMAIN known THEN known[FirstKnown(s, with, known)]
    ELSE IF KeyTells(s, with) THEN Spelled(Owner[s])
    ELSE Spelled(CHOOSE a \in Agents : TRUE)

Resolve(s, with, known) ==
    IF FirstKnown(s, with, known) \in DOMAIN known THEN known[FirstKnown(s, with, known)]
    ELSE IF KeyTells(s, with) THEN Spelled(Owner[s])
    ELSE Nobody

\* A call through the client of an account; the pool keeps no more than the account's
\* address and key.
Files(s, agent) == filed' = {<<s, Account(agent)>>}

\* Mutant: the engine keeps what it knows to itself.
FilesThroughTeachingNobody(e, s, with, known) ==
    LET agent == Resolve(s, with, known)
    IN  /\ Files(s, IF agent = Nobody /\ e \in Agents \ Unscoped THEN Plain(e) ELSE agent)
        /\ names' = known

\* What the engine of agent e makes of a session nobody knows: its own, and the
\* resolver is taught so.  The name it answers with is the directory's.
FilesThrough(e, s, with, known) ==
    LET agent == Resolve(s, with, known)
    IN  IF agent = Nobody /\ e \in Agents \ Unscoped
        THEN /\ Files(s, Plain(e))
             /\ names' = [n \in DOMAIN known \cup Aliases(s, with) |->
                             IF n \in Aliases(s, with) THEN Spelled(e) ELSE known[n]]
        ELSE /\ Files(s, agent)
             /\ names' = known

---------------------------------------------------------------------------

\* The factory: the host resolves an engine for each run of an agent.
EngineCreated(a) ==
    /\ made' = made \cup {a}
    /\ engine' = a
    /\ UNCHANGED <<names, filed, taught, strayed>>

\* The agent's own engine is called, with the agent's id in the runtime's context or
\* without it.
EngineCalled(s, with, told, known) ==
    /\ Owner[s] \in made
    /\ FilesThrough(Owner[s], s, with, known)
    /\ taught' = IF told \/ Owner[s] \notin Unscoped
                 THEN taught \cup {<<s, with>>} ELSE taught
    /\ UNCHANGED <<made, engine, strayed>>

\* assemble: what the context or the key tells is remembered first; afterTurn: what the
\* context does; compact: nothing.
Assembles(s, with, told) ==
    EngineCalled(s, with, told, Remember(s, with, IF told THEN {Owner[s]} ELSE {}))
AfterTurn(s, with, told) ==
    EngineCalled(s, with, told, IF told THEN Remember(s, with, {Owner[s]}) ELSE names)
Compacts(s, with) == EngineCalled(s, with, FALSE, names)

\* resolvePluginSessionRouting: tools and commands.
ToolCalled(s, with, told) ==
    LET known == Remember(s, with, IF told THEN {Owner[s]} ELSE {})
    IN  /\ names' = known
        /\ IF told THEN Files(s, Spelled(Owner[s]))
           ELSE Files(s, Resolve(s, with, known))
        /\ UNCHANGED <<made, engine, taught, strayed>>

\* session_start, session_end.
HookCalled(s, with) ==
    /\ names' = Remember(s, with, IF "agent" \in with THEN {Owner[s]} ELSE {})
    /\ UNCHANGED <<made, engine, filed, taught, strayed>>

\* before_reset: the commit goes through the engine created last, whoever's it is; what
\* the key tells is remembered first, the hook's agent is not.
BeforeReset(s, with) ==
    /\ engine # "none"
    /\ "sid" \in with
    /\ FilesThrough(engine, s, with \ {"agent"}, Remember(s, with \ {"agent"}, {}))
    /\ strayed' = IF /\ Resolve(s, with \ {"agent"}, names) = Nobody
                     /\ engine \notin Unscoped \cup {Owner[s]}
                  THEN strayed \cup {<<s, engine>>} ELSE strayed
    /\ UNCHANGED <<made, engine, taught>>

\* The gateway starts anew and knows no session.
Restart ==
    /\ names' = [n \in {} |-> Nobody]
    /\ made' = {}
    /\ engine' = "none"
    /\ taught' = {}
    /\ UNCHANGED <<filed, strayed>>

AccountsInit ==
    /\ names = [n \in {} |-> Nobody]
    /\ made = {}
    /\ engine = "none"
    /\ filed = {}
    /\ taught = {}
    /\ strayed = {}

AccountsNext ==
    \/ \E a \in Agents : EngineCreated(a)
    \/ \E s \in Sessions, with \in EngineNames, told \in BOOLEAN :
          Assembles(s, with, told) \/ AfterTurn(s, with, told)
    \/ \E s \in Sessions, with \in EngineNames : Compacts(s, with)
    \/ \E s \in Sessions, with \in ToolNames, told \in BOOLEAN : ToolCalled(s, with, told)
    \/ \E s \in Sessions, with \in HookNames : HookCalled(s, with) \/ BeforeReset(s, with)
    \/ Restart

AccountsSpec == AccountsInit /\ [][AccountsNext]_accountVars

---------------------------------------------------------------------------

OwnOrSystems(f) == f[2] = Nobody \/ f[2][2] = Owner[f[1]]

\* "anything that cannot be attributed to a concrete agent lands in that account instead
\* of leaking into another agent's space" (agent-keys.ts:15-17): no call of a session goes
\* to an account of another agent than its own.
NothingLeaks == \A f \in filed : OwnOrSystems(f)

\* Whatever names a session went by and in whichever order they were learned, over
\* restarts, its calls went to its own agent's account or to the system's.  There is one
\* way to another agent's, and to no other than that one: the reset of a session nobody
\* knew that went through that agent's engine, which then claims the session for good
\* (openviking-context-engine-registration.ts, openviking-lifecycle-hooks.ts).
SessionKeepsItsAccount ==
    \A f \in filed : OwnOrSystems(f) \/ <<f[1], f[2][2]>> \in strayed

\* A session its scoped engine has called for by some names is its agent's for the tools
\* too, that know it by those names and perhaps by more, whatever tells them no agent: "so
\* tool calls in this session, which reach the plugin through a different path, resolve
\* too" (openviking-context-engine-registration.ts:107).  A stray reset may claim it.
TaughtToTheTools ==
    \A t \in taught, with \in ToolNames :
       t[2] \subseteq with =>
          LET agent == Resolve(t[1], with, names)
          IN  agent = Spelled(Owner[t[1]])
              \/ \E e \in Agents : <<t[1], e>> \in strayed /\ agent = Spelled(e)
===========================================================================
