--------------------------- MODULE ServicesProofs ---------------------------
(***************************************************************************)
(* What the plugin asks of others, for every value of the constants: a     *)
(* request implements the abstract call, a router fits its taxonomy, and   *)
(* a session's calls go to its own agent's account or to the system's.     *)
(***************************************************************************)
EXTENDS Integers, ClientRequest, RoutingService, AgentRouting, FiniteSetTheorems, TLAPS

---------------------------------------------------------------------------
(* Whichever operations there are and whatever server and network do: a    *)
(* write's work is done at most once, an answer with content is true of    *)
(* the server, and a blank one is given only of what it has settled        *)
(* (RemoteCall).                                                           *)

Copies == 1 .. sends

\* A copy of what must be done once goes out once; what is handled went out and is not
\* on its way any more; who reads a body has had the answer to the last copy.
RequestInv ==
    /\ sends \in Nat
    /\ requestPc \in {"build", "wire", "body", "over"}
    /\ requestPc = "build" => sends = 0
    /\ Once => sends <= 1
    /\ travelling \subseteq Copies /\ DOMAIN handled \subseteq Copies
    /\ travelling \cap DOMAIN handled = {}
    /\ \A c \in DOMAIN handled : handled[c] \in Verdicts
    /\ requestPc = "body" => sends \in DOMAIN handled
    /\ outcome = "none" <=> requestPc # "over"

LEMMA RequestInitially == RequestInit => RequestInv
  BY DEF RequestInit, RequestInv, Copies

LEMMA RequestKept ==
    ASSUME RequestInv, [RequestNext]_requestVars
    PROVE  RequestInv'
  <1> USE DEF RequestInv, Copies, Once
  <1>1. ASSUME Begin PROVE RequestInv'
    BY <1>1 DEF Begin, Sends
  <1>2. ASSUME NEW c \in travelling, NEW verdict \in Verdicts, Handle(c, verdict)
        PROVE  RequestInv'
    BY <1>2 DEF Handle
  <1>3. ASSUME TimerFires PROVE RequestInv'
    BY <1>3 DEF TimerFires
  <1>4. ASSUME Dropped PROVE RequestInv'
    <2>1. CASE op \in Reads /\ sends = 1
      <3>1. sends' = 2 /\ travelling' = travelling \cup {2} /\ op' \in Reads
        BY <1>4, <2>1 DEF Dropped, Sends
      <3>2. UNCHANGED <<requestPc, handled, outcome>> /\ requestPc = "wire"
        BY <1>4, <2>1 DEF Dropped
      <3>3. 1 .. sends = {1} /\ 1 .. sends' = {1, 2}
        BY <2>1, <3>1
      <3>4. QED
        BY <3>1, <3>2, <3>3
    <2>2. CASE ~(op \in Reads /\ sends = 1)
      BY <1>4, <2>2 DEF Dropped, Over, Trouble
    <2>3. QED
      BY <2>1, <2>2
  <1>5. ASSUME Refused PROVE RequestInv'
    BY <1>5 DEF Refused, Over, Trouble
  <1>6. ASSUME GivenUp PROVE RequestInv'
    BY <1>6 DEF GivenUp, Over, Trouble
  <1>7. ASSUME HeadersArrive PROVE RequestInv'
    BY <1>7 DEF HeadersArrive
  <1>8. ASSUME BodyArrives PROVE RequestInv'
    BY <1>8 DEF BodyArrives, Over
  <1>9. ASSUME BodyBreaks PROVE RequestInv'
    BY <1>9 DEF BodyBreaks, Over
  <1>10. ASSUME UNCHANGED requestVars PROVE RequestInv'
    BY <1>10 DEF requestVars
  <1>11. QED
    BY <1>1, <1>2, <1>3, <1>4, <1>5, <1>6, <1>7, <1>8, <1>9, <1>10 DEF RequestNext

\* What was sent once is handled once.
LEMMA NeverDoneTwice ==
    ASSUME RequestInv, Once
    PROVE  /\ DOMAIN handled = {} \/ DOMAIN handled = {1}
           /\ Cardinality(DOMAIN handled) \in {0, 1}
  <1>0. 1 .. sends = {} \/ 1 .. sends = {1}
    <2>1. sends = 0 \/ sends = 1
      BY DEF RequestInv
    <2>2. QED
      BY <2>1
  <1>1. DOMAIN handled = {} \/ DOMAIN handled = {1}
    BY <1>0 DEF RequestInv, Copies
  <1>2. QED
    BY <1>1, FS_EmptySet, FS_Singleton

\* The work without the case that cannot be.
LEMMA WorkIsTheLast == RequestInv => Work = LastHandled
  <1> SUFFICES ASSUME RequestInv PROVE Work = LastHandled
    OBVIOUS
  <1>1. ~(Once /\ Cardinality(DOMAIN handled) > 1)
    BY NeverDoneTwice
  <1>2. QED
    BY <1>1 DEF Work

LEMMA InitIsACalls == RequestInit => Call!Init
  <1> SUFFICES ASSUME RequestInit PROVE Call!Init
    OBVIOUS
  <1>1. RequestInv
    BY RequestInitially
  <1>2. Work = "open" /\ AnswerTold = "nothing"
    BY <1>1, WorkIsTheLast DEF RequestInit, AnswerTold, LastHandled
  <1>3. QED
    BY <1>2 DEF Call!Init, Once

LEMMA StepIsACalls ==
    ASSUME RequestInv, RequestInv', [RequestNext]_requestVars
    PROVE  [Call!Next]_<<Once, Work, AnswerTold>>
  <1>1. Work = LastHandled /\ (Work = LastHandled)'
    BY WorkIsTheLast, PTL
  <1>2. op' = op
    BY DEF RequestNext, requestVars, Begin, Handle, TimerFires, Dropped, Refused, GivenUp, HeadersArrive,
           BodyArrives, BodyBreaks
  <1>3. Once' = Once
    BY <1>2 DEF Once
  <1>4. ASSUME UNCHANGED <<sends, handled, outcome>> PROVE UNCHANGED <<Once, Work, AnswerTold>>
    BY <1>1, <1>3, <1>4 DEF AnswerTold, LastHandled
  <1>5. ASSUME UNCHANGED outcome, Once => LastHandled = "open" PROVE Call!Serves
    <2>1. AnswerTold' = AnswerTold
      BY <1>5 DEF AnswerTold
    <2>2. Work' \in {"open", "done", "turned down"}
      BY <1>1 DEF LastHandled
    <2>3. QED
      BY <1>1, <1>3, <1>5, <2>1, <2>2 DEF Call!Serves, Call!Works
  <1>6. ASSUME UNCHANGED <<sends, handled>>, outcome = "none",
               \/ outcome' \in {"timeout", "trouble"}
               \/ outcome' = "result" /\ LastHandled = "done"
               \/ outcome' = "empty" /\ LastHandled # "open"
               \/ outcome' = "error" /\ LastHandled = "turned down"
        PROVE  Call!Next
    <2>1. Work' = Work /\ AnswerTold = "nothing"
      BY <1>1, <1>6 DEF AnswerTold, LastHandled
    <2>2. QED
      BY <1>1, <1>3, <1>6, <2>1
      DEF AnswerTold, Call!Next, Call!Answers, Call!Refuses, Call!AnswersBlank, Call!GivesUp
  <1>7. CASE Begin
    <2>1. LastHandled = "open"
      BY <1>7 DEF Begin, RequestInv, Copies, LastHandled
    <2>2. QED
      BY <1>5, <1>7, <2>1 DEF Begin, Call!Next
  <1>8. CASE \E c \in travelling, verdict \in Verdicts : Handle(c, verdict)
    <2>1. Once => LastHandled = "open"
      BY <1>8 DEF Handle, RequestInv, Copies, LastHandled
    <2>2. QED
      BY <1>5, <1>8, <2>1 DEF Handle, Call!Next
  <1>9. CASE TimerFires \/ HeadersArrive \/ UNCHANGED requestVars
    BY <1>4, <1>9 DEF TimerFires, HeadersArrive, requestVars
  <1>10. CASE Dropped
    <2>1. CASE op \in Reads /\ sends = 1
      BY <1>5, <1>10, <2>1 DEF Dropped, Once, Call!Next
    <2>2. CASE ~(op \in Reads /\ sends = 1)
      BY <1>6, <1>10, <2>2 DEF Dropped, Over, Trouble, RequestInv
    <2>3. QED
      BY <2>1, <2>2
  <1>11. CASE Refused
    BY <1>6, <1>11 DEF Refused, Over, Trouble, RequestInv
  <1>12. CASE GivenUp
    BY <1>6, <1>12 DEF GivenUp, Over, Trouble, RequestInv
  <1>13. CASE BodyArrives
    BY <1>6, <1>13 DEF BodyArrives, Over, RequestInv, LastHandled
  <1>14. CASE BodyBreaks
    BY <1>6, <1>14 DEF BodyBreaks, Over, RequestInv, LastHandled, Verdicts
  <1>15. QED
    BY <1>7, <1>8, <1>9, <1>10, <1>11, <1>12, <1>13, <1>14 DEF RequestNext

\* A request is an abstract call: a write is done at most once, also long after its
\* caller left and whatever becomes of the connection, "answered" and "refused" are
\* said only of what the server did, and "blank" only of what it has settled, whichever way.
THEOREM RequestIsACall == RequestSpec => RequestImplementsCall
  <1>1. RequestInit => RequestInv
    BY RequestInitially
  <1>2. RequestInv /\ [RequestNext]_requestVars => RequestInv'
    BY RequestKept
  <1>3. RequestInv /\ RequestInv' /\ [RequestNext]_requestVars
        => [Call!Next]_<<Once, Work, AnswerTold>>
    BY StepIsACalls
  <1>4. QED
    BY <1>1, <1>2, <1>3, InitIsACalls, PTL DEF RequestSpec, RequestImplementsCall, Call!Spec
---------------------------------------------------------------------------
(* For any number of callers, taxonomies and categories, whatever fails    *)
(* and whenever the gateway stops: a router answers with the vectors of    *)
(* the taxonomy it answers from, and the vectors' file is never left half  *)
(* written under its own name.                                             *)

\* A router built or being built is of the taxonomy held, and there is one; what waits
\* to be renamed is its file, whole.
FitInv ==
    /\ written \in Versions
    /\ taxonomy \in Versions \cup {None}
    /\ router \in [is : Building \cup {"none", "ready"}, of : Versions \cup {None}]
    /\ router.is # "none" => taxonomy # None /\ router.of = taxonomy
    /\ router.is = "renames" => beside = router.of

LEMMA FitInitially == RoutingAssumption /\ RoutingInit => FitInv
  BY DEF RoutingAssumption, RoutingInit, FitInv, NoRouter, None

LEMMA FitKept ==
    ASSUME RoutingAssumption, FitInv, [RoutingNext]_routingVars
    PROVE  FitInv'
  <1> USE DEF FitInv, None, NoRouter, Building, RoutingAssumption
  <1>1. ASSUME NEW c \in Callers, TaxonomyFails(c) PROVE FitInv'
    BY <1>1 DEF TaxonomyFails
  <1>2. ASSUME NEW c \in Callers, Asks(c) PROVE FitInv'
    <2> DEFINE held == IF taxonomy = None THEN written ELSE taxonomy
    <2>1. taxonomy' = held /\ held \in Versions /\ UNCHANGED <<written, beside>>
      BY <1>2 DEF Asks
    <2>2. CASE router.is # "none"
      <3>1. router' = router
        BY <1>2, <2>2 DEF Asks
      <3>2. held = taxonomy
        BY <2>2
      <3>3. QED
        BY <2>1, <3>1, <3>2
    <2>3. CASE router.is = "none" /\ Hit(held)
      <3>1. router' = [is |-> "ready", of |-> cache] /\ cache = held
        BY <1>2, <2>3 DEF Asks, Hit
      <3>2. QED
        BY <2>1, <3>1
    <2>4. CASE router.is = "none" /\ ~Hit(held)
      <3>1. router' = [is |-> "embeds", of |-> held]
        BY <1>2, <2>4 DEF Asks
      <3>2. QED
        BY <2>1, <3>1
    <2>5. QED
      BY <2>2, <2>3, <2>4
  <1>3. ASSUME NEW c \in Callers, Routes(c) \/ RouteFails(c) PROVE FitInv'
    BY <1>3 DEF Routes, RouteFails
  <1>4. ASSUME Embeds PROVE FitInv'
    BY <1>4 DEF Embeds
  <1>5. ASSUME PutsBeside PROVE FitInv'
    BY <1>5 DEF PutsBeside
  <1>6. ASSUME Renames PROVE FitInv'
    BY <1>6 DEF Renames
  <1>7. ASSUME BuildFails PROVE FitInv'
    BY <1>7 DEF BuildFails
  <1>8. ASSUME NEW v \in Versions, Edited(v) PROVE FitInv'
    BY <1>8 DEF Edited
  <1>9. ASSUME Mended PROVE FitInv'
    BY <1>9 DEF Mended
  <1>10. ASSUME Stops PROVE FitInv'
    BY <1>10 DEF Stops
  <1>11. ASSUME UNCHANGED routingVars PROVE FitInv'
    BY <1>11 DEF routingVars
  <1>12. QED
    BY <1>1, <1>2, <1>3, <1>4, <1>5, <1>6, <1>7, <1>8, <1>9, <1>10, <1>11 DEF RoutingNext

\* The vectors a router compares with are those of the taxonomy it answers from, however
\* the file was edited, whatever stood in the vectors' file, whoever asked meanwhile.
THEOREM RoutersFit ==
    ASSUME RoutingAssumption
    PROVE  RoutingSpec => []RouterFitsTaxonomy
  <1>1. RoutingInit => FitInv
    BY FitInitially
  <1>2. FitInv /\ [RoutingNext]_routingVars => FitInv'
    BY FitKept
  <1>3. FitInv => RouterFitsTaxonomy
    BY DEF FitInv, RouterFitsTaxonomy
  <1>4. QED
    BY <1>1, <1>2, <1>3, PTL DEF RoutingSpec

\* No step, a gateway that stops in the middle of a write included, leaves the vectors'
\* file torn.
THEOREM FileIsNeverTorn ==
    ASSUME RoutingAssumption
    PROVE  RoutingSpec => NeverLeftTorn
  <1>1. FitInv /\ [RoutingNext]_routingVars => [cache' = "torn" => cache = "torn"]_routingVars
    <2> SUFFICES ASSUME FitInv, RoutingNext, cache' # cache PROVE cache' # "torn"
      OBVIOUS
    <2>1. Renames
      BY DEF RoutingNext, TaxonomyFails, Asks, Routes, RouteFails, Embeds, PutsBeside, BuildFails,
             Edited, Mended, Stops
    <2>2. cache' \in Versions
      BY <2>1 DEF Renames, FitInv, None
    <2>3. QED
      BY <2>2 DEF RoutingAssumption
  <1>2. RoutingInit => FitInv
    BY FitInitially
  <1>3. FitInv /\ [RoutingNext]_routingVars => FitInv'
    BY FitKept
  <1>4. QED
    BY <1>1, <1>2, <1>3, PTL DEF RoutingSpec, NeverLeftTorn
---------------------------------------------------------------------------
(* For every number of agents and sessions, every table of keys and        *)
(* whatever contexts name a session by: a session's calls go to its own    *)
(* agent's account, to the system's, or to that of an agent a stray reset  *)
(* gave it; and what an engine has learned the tools know.                 *)

\* An agent's name a session may go by: its own agent's, or one a reset gave it.
Mine(s, agent) ==
    \/ agent = Spelled(Owner[s])
    \/ \E e \in Agents : <<s, e>> \in strayed /\ agent = Spelled(e)

NamesAreMine(known) == \A n \in DOMAIN known : Mine(n[1], known[n])

AccountsInv == NamesAreMine(names) /\ SessionKeepsItsAccount

\* The prefixed spelling of an agent's name and the plain one lead to an account of that
\* agent or to the system's; nobody's to the system's.
LEMMA AccountIsOwn ==
    ASSUME NEW s, NEW agent, Mine(s, agent) \/ agent = Nobody \/ agent = Plain(Owner[s])
    PROVE  LET f == <<s, Account(agent)>>
           IN  OwnOrSystems(f) \/ <<f[1], f[2][2]>> \in strayed
  <1>1. Account(agent) \in {agent, Nobody}
    BY DEF Account
  <1>2. OwnOrSystems(<<s, Nobody>>)
    BY DEF OwnOrSystems
  <1>3. CASE Mine(s, agent)
    <2>1. CASE agent = Spelled(Owner[s])
      BY <1>1, <1>2, <2>1 DEF OwnOrSystems, Spelled, Plain
    <2>2. ASSUME NEW e \in Agents, <<s, e>> \in strayed, agent = Spelled(e)
          PROVE  <<s, agent[2]>> \in strayed
      BY <2>2 DEF Spelled, Plain
    <2>3. QED
      BY <1>1, <1>2, <1>3, <2>1, <2>2 DEF Mine
  <1>4. CASE agent = Nobody
    BY <1>1, <1>2, <1>4
  <1>5. CASE agent = Plain(Owner[s])
    BY <1>1, <1>2, <1>5 DEF OwnOrSystems, Plain
  <1>6. QED
    BY <1>3, <1>4, <1>5

LEMMA AliasesAreOwn ==
    ASSUME NEW s, NEW with, NEW known
    PROVE  \A n \in Aliases(s, with) \cup {FirstKnown(s, with, known)} : n[1] = s
  BY DEF Aliases, StorageId, FirstKnown, Looked

\* What a context teaches is the agent it tells or its key's.
LEMMA RememberedIsMine ==
    ASSUME NamesAreMine(names), NEW s, NEW with,
           NEW agents \in {{}, {Owner[s]}}
    PROVE  NamesAreMine(Remember(s, with, agents))
  <1>1. CASE agents = {} /\ ~KeyTells(s, with)
    BY <1>1 DEF Remember
  <1>2. CASE ~(agents = {} /\ ~KeyTells(s, with))
    <2> DEFINE agent == IF agents # {} THEN CHOOSE a \in agents : TRUE ELSE Owner[s]
    <2>1. agent = Owner[s]
      OBVIOUS
    <2>2. Remember(s, with, agents) =
            [n \in DOMAIN names \cup Aliases(s, with) |->
                IF n \in Aliases(s, with) THEN Spelled(agent) ELSE names[n]]
      BY <1>2 DEF Remember
    <2>3. \A n \in Aliases(s, with) : n[1] = s
      BY AliasesAreOwn
    <2>4. Mine(s, Spelled(agent))
      BY <2>1 DEF Mine
    <2>5. QED
      BY <2>2, <2>3, <2>4 DEF NamesAreMine
  <1>3. QED
    BY <1>1, <1>2

\* A session resolves to a name of its own or to nobody; to one of its own when its key
\* tells.
LEMMA ResolvedIsMine ==
    ASSUME NEW known, NamesAreMine(known), NEW s, NEW with
    PROVE  /\ Mine(s, Resolve(s, with, known)) \/ Resolve(s, with, known) = Nobody
           /\ KeyTells(s, with) => Mine(s, Resolve(s, with, known))
  <1>1. FirstKnown(s, with, known)[1] = s
    BY AliasesAreOwn
  <1>2. QED
    BY <1>1 DEF Resolve, NamesAreMine, Mine

\* What is a session's stays so: a reset gives, and nothing takes away.
LEMMA MineStays ==
    ASSUME strayed \subseteq strayed'
    PROVE  /\ \A s, agent : Mine(s, agent) => Mine(s, agent)'
           /\ \A known : NamesAreMine(known) => NamesAreMine(known)'
           /\ filed' = filed /\ SessionKeepsItsAccount => SessionKeepsItsAccount'
  BY DEF Mine, NamesAreMine, SessionKeepsItsAccount, OwnOrSystems, Spelled, Plain

\* Nobody is no agent of a session.
LEMMA NobodyIsNotMine ==
    ASSUME NEW s PROVE ~Mine(s, Nobody)
  BY DEF Mine, Spelled, Plain, Nobody

\* What goes through an engine goes to an account of the session's, when the engine is
\* its agent's, or is another's and the reset is noted.
LEMMA ThroughAnEngine ==
    ASSUME NEW known, NamesAreMine(known), NEW s, NEW with, NEW e,
           strayed \subseteq strayed',
           \/ e = Owner[s]
           \/ Resolve(s, with, known) # Nobody
           \/ e \in Unscoped
           \/ <<s, e>> \in strayed',
           FilesThrough(e, s, with, known)
    PROVE  NamesAreMine(names)' /\ SessionKeepsItsAccount'
  <1>0. NamesAreMine(known)' /\ \A agent : Mine(s, agent) => Mine(s, agent)'
    BY MineStays
  <1>1. CASE Resolve(s, with, known) = Nobody /\ e \in Agents \ Unscoped
    <2>1. e = Owner[s] \/ <<s, e>> \in strayed'
      BY <1>1
    <2>2. Files(s, Plain(e))
      BY <1>1 DEF FilesThrough
    <2>3. SessionKeepsItsAccount'
      BY <2>1, <2>2 DEF Files, SessionKeepsItsAccount, OwnOrSystems, Account, Plain, Nobody
    <2>4. \A n \in Aliases(s, with) : n[1] = s
      BY AliasesAreOwn
    <2>5. names' = [n \in DOMAIN known \cup Aliases(s, with) |->
                       IF n \in Aliases(s, with) THEN Spelled(e) ELSE known[n]]
      BY <1>1 DEF FilesThrough
    <2>6. Mine(s, Spelled(e))'
      BY <1>1, <2>1 DEF Mine, Spelled, Plain
    <2>7. NamesAreMine(names)'
      BY <1>0, <2>4, <2>5, <2>6 DEF NamesAreMine
    <2>8. QED
      BY <2>3, <2>7
  <1>2. CASE ~(Resolve(s, with, known) = Nobody /\ e \in Agents \ Unscoped)
    <2> DEFINE agent == Resolve(s, with, known)
    <2>1. Files(s, agent) /\ names' = known
      BY <1>2 DEF FilesThrough
    <2>2. Mine(s, agent) \/ agent = Nobody
      BY ResolvedIsMine
    <2>3. OwnOrSystems(<<s, Account(agent)>>) \/ <<s, Account(agent)[2]>> \in strayed
      BY <2>2, AccountIsOwn
    <2>4. SessionKeepsItsAccount'
      BY <2>1, <2>3 DEF Files, SessionKeepsItsAccount, OwnOrSystems
    <2>5. NamesAreMine(names)'
      BY <1>0, <2>1 DEF NamesAreMine
    <2>6. QED
      BY <2>4, <2>5
  <1>3. QED
    BY <1>1, <1>2

LEMMA EngineCallKept ==
    ASSUME NEW s, NEW with, NEW told, NEW known, NamesAreMine(known),
           EngineCalled(s, with, told, known)
    PROVE  AccountsInv'
  BY ThroughAnEngine DEF EngineCalled, AccountsInv

LEMMA ToolCallKept ==
    ASSUME AccountsInv, NEW s, NEW with, NEW told \in BOOLEAN, ToolCalled(s, with, told)
    PROVE  AccountsInv'
  <1> DEFINE known == Remember(s, with, IF told THEN {Owner[s]} ELSE {})
  <1>1. NamesAreMine(known)
    BY RememberedIsMine DEF AccountsInv
  <1>2. PICK agent : /\ Mine(s, agent) \/ agent = Nobody
                     /\ Files(s, agent)
    <2>1. CASE told
      BY <2>1 DEF ToolCalled, Mine
    <2>2. CASE ~told
      BY <1>1, <2>2, ResolvedIsMine DEF ToolCalled
    <2>3. QED
      BY <2>1, <2>2
  <1>3. OwnOrSystems(<<s, Account(agent)>>) \/ <<s, Account(agent)[2]>> \in strayed
    BY <1>2, AccountIsOwn
  <1>4. names' = known /\ strayed' = strayed
    BY DEF ToolCalled
  <1>5. SessionKeepsItsAccount'
    BY <1>2, <1>3, <1>4 DEF Files, SessionKeepsItsAccount, OwnOrSystems
  <1>6. NamesAreMine(names)'
    BY <1>1, <1>4 DEF NamesAreMine, Mine, Spelled, Plain
  <1>7. QED
    BY <1>5, <1>6 DEF AccountsInv

LEMMA ResetKept ==
    ASSUME AccountsInv, NEW s, NEW with, BeforeReset(s, with)
    PROVE  AccountsInv'
  <1> DEFINE bare == with \ {"agent"}
             known == Remember(s, bare, {})
  <1>1. NamesAreMine(known)
    BY RememberedIsMine DEF AccountsInv
  <1>2. strayed \subseteq strayed'
    BY DEF BeforeReset
  <1>3. ASSUME Resolve(s, bare, known) = Nobody
        PROVE  engine \in Unscoped \cup {Owner[s]} \/ <<s, engine>> \in strayed'
    <2>1. ~KeyTells(s, bare)
      BY <1>1, <1>3, ResolvedIsMine, NobodyIsNotMine
    <2>2. known = names
      BY <2>1 DEF Remember
    <2>3. Resolve(s, bare, names) = Nobody
      BY <1>3, <2>2
    <2>4. QED
      BY <2>3 DEF BeforeReset
  <1>4. FilesThrough(engine, s, bare, known)
    BY DEF BeforeReset
  <1>5. QED
    BY <1>1, <1>2, <1>3, <1>4, ThroughAnEngine DEF AccountsInv

LEMMA AccountsKept ==
    ASSUME AccountsInv, [AccountsNext]_accountVars
    PROVE  AccountsInv'
  <1>1. ASSUME UNCHANGED <<names, filed, strayed>> PROVE AccountsInv'
    BY <1>1 DEF AccountsInv, NamesAreMine, Mine, SessionKeepsItsAccount, OwnOrSystems,
                Spelled, Plain
  <1>2. ASSUME NEW a \in Agents, EngineCreated(a) PROVE AccountsInv'
    BY <1>1, <1>2 DEF EngineCreated
  <1>3. ASSUME NEW s \in Sessions, NEW with \in EngineNames, NEW told \in BOOLEAN,
               Assembles(s, with, told)
        PROVE  AccountsInv'
    <2>1. NamesAreMine(Remember(s, with, IF told THEN {Owner[s]} ELSE {}))
      BY RememberedIsMine DEF AccountsInv
    <2>2. QED
      BY <1>3, <2>1, EngineCallKept DEF Assembles
  <1>4. ASSUME NEW s \in Sessions, NEW with \in EngineNames, NEW told \in BOOLEAN,
               AfterTurn(s, with, told)
        PROVE  AccountsInv'
    <2>1. NamesAreMine(IF told THEN Remember(s, with, {Owner[s]}) ELSE names)
      BY RememberedIsMine DEF AccountsInv
    <2>2. QED
      BY <1>4, <2>1, EngineCallKept DEF AfterTurn
  <1>5. ASSUME NEW s \in Sessions, NEW with \in EngineNames, Compacts(s, with)
        PROVE  AccountsInv'
    BY <1>5, EngineCallKept DEF Compacts, AccountsInv
  <1>6. ASSUME NEW s \in Sessions, NEW with \in HookNames, HookCalled(s, with)
        PROVE  AccountsInv'
    <2>1. NamesAreMine(names') /\ UNCHANGED <<filed, strayed>>
      BY <1>6, RememberedIsMine DEF HookCalled, AccountsInv
    <2>2. NamesAreMine(names)'
      BY <2>1 DEF NamesAreMine, Mine, Spelled, Plain
    <2>3. SessionKeepsItsAccount'
      BY <2>1, MineStays DEF AccountsInv
    <2>4. QED
      BY <2>2, <2>3 DEF AccountsInv
  <1>7. ASSUME Restart PROVE AccountsInv'
    BY <1>7, MineStays DEF Restart, NamesAreMine, AccountsInv
  <1>8. ASSUME UNCHANGED accountVars PROVE AccountsInv'
    BY <1>1, <1>8 DEF accountVars
  <1>9. QED
    BY <1>2, <1>3, <1>4, <1>5, <1>6, <1>7, <1>8, ToolCallKept, ResetKept DEF AccountsNext

\* Whatever names a session goes by, in whichever order they are learned and however
\* often the gateway starts anew, its calls go to its own agent's account, to the
\* system's, or to that of an agent through whose engine a reset of it went unresolved:
\* filed_under_another is how one comes about.
THEOREM SessionsKeepTheirAccounts == AccountsSpec => []SessionKeepsItsAccount
  <1>1. AccountsInit => AccountsInv
    BY DEF AccountsInit, AccountsInv, NamesAreMine, SessionKeepsItsAccount
  <1>2. AccountsInv /\ [AccountsNext]_accountVars => AccountsInv'
    BY AccountsKept
  <1>3. QED
    BY <1>1, <1>2, PTL DEF AccountsSpec, AccountsInv

-----------------------------------------------------------------------------
(* What an engine has called for is known to the tools *)

\* A stored id that is a hash was made of a key, which is remembered with it.
HashesHaveKeys(ns) == \A s : <<s, "hash">> \in ns => <<s, "key">> \in ns

\* A session the engine called for is remembered by a name the call gave, or tells.
KnownBy(s, with, ns) == KeyTells(s, with) \/ \E n \in with : <<s, n>> \in ns

TaughtInv ==
    /\ HashesHaveKeys(DOMAIN names)
    /\ \A t \in taught : /\ t[2] \in EngineNames
                         /\ KnownBy(t[1], t[2], DOMAIN names)

LEMMA AliasesHaveKeys ==
    ASSUME NEW s, NEW with, NEW ns, HashesHaveKeys(ns)
    PROVE  HashesHaveKeys(ns \cup Aliases(s, with))
  BY DEF HashesHaveKeys, Aliases, StorageId

\* No name is forgotten while the gateway runs.
LEMMA RememberedStays ==
    ASSUME NEW s, NEW with, NEW agents, HashesHaveKeys(DOMAIN names)
    PROVE  /\ DOMAIN names \subseteq DOMAIN Remember(s, with, agents)
           /\ HashesHaveKeys(DOMAIN Remember(s, with, agents))
           /\ agents # {} => Aliases(s, with) \subseteq DOMAIN Remember(s, with, agents)
  BY AliasesHaveKeys DEF Remember

LEMMA ThroughAnEngineStays ==
    ASSUME NEW s, NEW with, NEW e, NEW known, FilesThrough(e, s, with, known),
           HashesHaveKeys(DOMAIN known)
    PROVE  /\ DOMAIN known \subseteq DOMAIN names'
           /\ HashesHaveKeys(DOMAIN names')
  BY AliasesHaveKeys DEF FilesThrough

LEMMA AliasesAreNames ==
    ASSUME AgentRoutingConstants, NEW s, NEW with \in EngineNames, NEW ns,
           Aliases(s, with) \subseteq ns
    PROVE  KnownBy(s, with, ns)
  <1>1. PICK n \in with : n \in {"sid", "key"}
    BY DEF AgentRoutingConstants
  <1>2. <<s, n>> \in Aliases(s, with)
    BY <1>1 DEF Aliases
  <1>3. QED
    BY <1>2 DEF KnownBy

\* Who resolves to somebody is remembered by a name given, or tells.
LEMMA ResolvedIsKnown ==
    ASSUME AgentRoutingConstants, NEW s, NEW with \in EngineNames, NEW known,
           HashesHaveKeys(DOMAIN known), Resolve(s, with, known) # Nobody
    PROVE  KnownBy(s, with, DOMAIN known)
  <1>1. CASE FirstKnown(s, with, known) \in DOMAIN known
    <2>1. with \subseteq {"sid", "key"} /\ with # {}
      BY DEF AgentRoutingConstants
    <2>2. CASE \E n \in with : FirstKnown(s, with, known) = <<s, n>>
      BY <1>1, <2>2 DEF KnownBy
    <2>3. CASE FirstKnown(s, with, known) = <<s, "hash">> /\ "key" \in with
      BY <1>1, <2>3 DEF KnownBy, HashesHaveKeys
    <2>4. QED
      BY <2>1, <2>2, <2>3 DEF FirstKnown, Looked, StorageId
  <1>2. CASE FirstKnown(s, with, known) \notin DOMAIN known
    BY <1>2 DEF Resolve, KnownBy
  <1>3. QED
    BY <1>1, <1>2

\* The engine's call makes the session known by a name it gives.
LEMMA EngineCallTeaches ==
    ASSUME AgentRoutingConstants, TaughtInv, NEW s, NEW with \in EngineNames,
           NEW told \in BOOLEAN, NEW known, EngineCalled(s, with, told, known),
           Owner[s] \in Agents,
           DOMAIN names \subseteq DOMAIN known, HashesHaveKeys(DOMAIN known),
           told => Aliases(s, with) \subseteq DOMAIN known
    PROVE  TaughtInv'
  <1>1. FilesThrough(Owner[s], s, with, known)
    BY DEF EngineCalled
  <1>2. /\ DOMAIN known \subseteq DOMAIN names'
        /\ HashesHaveKeys(DOMAIN names')
    BY <1>1, ThroughAnEngineStays
  <1>3. ASSUME told \/ Owner[s] \notin Unscoped
        PROVE  KnownBy(s, with, DOMAIN names')
    <2>1. CASE told
      BY <1>2, <2>1, AliasesAreNames
    <2>2. CASE Resolve(s, with, known) # Nobody
      <3>1. KnownBy(s, with, DOMAIN known)
        BY <2>2, ResolvedIsKnown
      <3>2. QED
        BY <1>2, <3>1 DEF KnownBy
    <2>3. CASE Resolve(s, with, known) = Nobody /\ ~told
      <3>1. Aliases(s, with) \subseteq DOMAIN names'
        BY <1>1, <1>3, <2>3 DEF FilesThrough
      <3>2. QED
        BY <3>1, AliasesAreNames
    <2>4. QED
      BY <2>1, <2>2, <2>3
  <1>4. \A t \in taught : t[2] \in EngineNames /\ KnownBy(t[1], t[2], DOMAIN names')
    BY <1>2 DEF TaughtInv, KnownBy
  <1>5. \/ taught' = taught
        \/ taught' = taught \cup {<<s, with>>} /\ (told \/ Owner[s] \notin Unscoped)
    BY DEF EngineCalled
  <1>6. \A t \in taught' : t[2] \in EngineNames /\ KnownBy(t[1], t[2], DOMAIN names')
    BY <1>3, <1>4, <1>5
  <1>7. QED
    BY <1>2, <1>6 DEF TaughtInv, KnownBy, KeyTells

LEMMA TaughtKept ==
    ASSUME AgentRoutingConstants, TaughtInv, [AccountsNext]_accountVars
    PROVE  TaughtInv'
  <1>1. ASSUME UNCHANGED taught, DOMAIN names \subseteq DOMAIN names',
               HashesHaveKeys(DOMAIN names')
        PROVE  TaughtInv'
    BY <1>1 DEF TaughtInv, KnownBy, KeyTells, HashesHaveKeys
  <1>2. HashesHaveKeys(DOMAIN names) /\ \A s \in Sessions : Owner[s] \in Agents
    BY DEF TaughtInv, AgentRoutingConstants
  <1>3. ASSUME NEW a \in Agents, EngineCreated(a) PROVE TaughtInv'
    BY <1>1, <1>2, <1>3 DEF EngineCreated
  <1>4. ASSUME NEW s \in Sessions, NEW with \in EngineNames, NEW told \in BOOLEAN,
               Assembles(s, with, told)
        PROVE  TaughtInv'
    BY <1>2, <1>4, RememberedStays, EngineCallTeaches DEF Assembles
  <1>5. ASSUME NEW s \in Sessions, NEW with \in EngineNames, NEW told \in BOOLEAN,
               AfterTurn(s, with, told)
        PROVE  TaughtInv'
    BY <1>2, <1>5, RememberedStays, EngineCallTeaches DEF AfterTurn
  <1>6. ASSUME NEW s \in Sessions, NEW with \in EngineNames, Compacts(s, with)
        PROVE  TaughtInv'
    BY <1>2, <1>6, EngineCallTeaches DEF Compacts
  <1>7. ASSUME NEW s \in Sessions, NEW with \in ToolNames, NEW told \in BOOLEAN,
               ToolCalled(s, with, told)
        PROVE  TaughtInv'
    BY <1>1, <1>2, <1>7, RememberedStays DEF ToolCalled
  <1>8. ASSUME NEW s \in Sessions, NEW with \in HookNames, HookCalled(s, with)
        PROVE  TaughtInv'
    BY <1>1, <1>2, <1>8, RememberedStays DEF HookCalled
  <1>9. ASSUME NEW s \in Sessions, NEW with \in HookNames, BeforeReset(s, with)
        PROVE  TaughtInv'
    <2> DEFINE known == Remember(s, with \ {"agent"}, {})
    <2>1. DOMAIN names \subseteq DOMAIN known /\ HashesHaveKeys(DOMAIN known)
      BY <1>2, RememberedStays
    <2>2. FilesThrough(engine, s, with \ {"agent"}, known) /\ UNCHANGED taught
      BY <1>9 DEF BeforeReset
    <2>3. QED
      BY <1>1, <2>1, <2>2, ThroughAnEngineStays
  <1>10. ASSUME Restart PROVE TaughtInv'
    BY <1>10 DEF Restart, TaughtInv, HashesHaveKeys
  <1>11. ASSUME UNCHANGED accountVars PROVE TaughtInv'
    BY <1>1, <1>2, <1>11 DEF accountVars
  <1>12. QED
    BY <1>3, <1>4, <1>5, <1>6, <1>7, <1>8, <1>9, <1>10, <1>11 DEF AccountsNext

\* What an engine called for by some names is its agent's for every tool that knows the
\* session by those and perhaps by more, whether its key tells the agent or not, unless a
\* stray reset claimed the session.
THEOREM TaughtSessionsResolve ==
    ASSUME AgentRoutingConstants
    PROVE  AccountsSpec => []TaughtToTheTools
  <1>1. AccountsInit => AccountsInv /\ TaughtInv
    BY DEF AccountsInit, AccountsInv, NamesAreMine, SessionKeepsItsAccount, TaughtInv,
           HashesHaveKeys
  <1>2. AccountsInv /\ TaughtInv /\ [AccountsNext]_accountVars => (AccountsInv /\ TaughtInv)'
    BY AccountsKept, TaughtKept
  <1>3. AccountsInv /\ TaughtInv => TaughtToTheTools
    <2> SUFFICES ASSUME AccountsInv, TaughtInv, NEW t \in taught, NEW with \in ToolNames,
                        t[2] \subseteq with
                 PROVE  Mine(t[1], Resolve(t[1], with, names))
      BY DEF TaughtToTheTools, Mine
    <2> DEFINE s == t[1]
    <2>1. KnownBy(s, t[2], DOMAIN names) /\ t[2] \subseteq {"sid", "key"}
      BY DEF TaughtInv, AgentRoutingConstants
    <2>2. CASE KeyTells(s, t[2])
      <3>1. KeyTells(s, with)
        BY <2>2 DEF KeyTells
      <3>2. QED
        BY <3>1, ResolvedIsMine DEF AccountsInv
    <2>3. ASSUME NEW n \in t[2], <<s, n>> \in DOMAIN names
          PROVE  Mine(s, Resolve(s, with, names))
      <3>1. FirstKnown(s, with, names) \in DOMAIN names
        BY <2>1, <2>3 DEF FirstKnown, Looked
      <3>2. FirstKnown(s, with, names)[1] = s
        BY AliasesAreOwn
      <3>3. Resolve(s, with, names) = names[FirstKnown(s, with, names)]
        BY <3>1 DEF Resolve
      <3>4. QED
        BY <3>1, <3>2, <3>3 DEF AccountsInv, NamesAreMine
    <2>4. QED
      BY <2>1, <2>2, <2>3 DEF KnownBy
  <1>4. QED
    BY <1>1, <1>2, <1>3, PTL DEF AccountsSpec
=============================================================================
