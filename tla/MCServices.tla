----------------------------- MODULE MCServices -----------------------------
(***************************************************************************)
(* What the plugin asks of others, on small instances, in one run: a       *)
(* request to the server, a question to the price handle, the routing of   *)
(* resources, the tools that change resources and memories, and whose      *)
(* account a session's calls go to.  The request, the routing and the      *)
(* accounts are this module's own, the others instances.  A behaviour is   *)
(* one of one part, the others standing at rest; what one part takes from  *)
(* another it takes as the other's abstract promise: the tools a request's *)
(* (RemoteCall) and the router's choice (ResourceRouter), not a shared     *)
(* variable.                                                               *)
(***************************************************************************)
EXTENDS Integers, Sequences, ClientRequest, RoutingService, AgentRouting, AgentTools

VARIABLES part,
          pricePc, attempt, elapsed, silent, pieces, told

priceVars == <<pricePc, attempt, elapsed, silent, pieces, told>>

Price == INSTANCE PriceHandle WITH Limit <- 2, BodyLimit <- 3, MaxPieces <- 2,
                              Times <- 1, Pause <- 1, pc <- pricePc

\* A category that only holds others, with one under it; one beside; the fallback.
Node(key, segment, parent, routeable) ==
    [key |-> key, segment |-> segment, parent |-> parent, routeable |-> routeable]
Written == [nodes |-> <<Node("inbox", "inbox", 0, TRUE), Node("code", "code", 0, FALSE),
                        Node("js", "js", 2, TRUE), Node("docs", "docs", 0, TRUE)>>,
            fallback |-> "inbox"]

OneTaxonomy == {Written}
Limits == [topK |-> 2, minScore |-> 2, rerankBelowMargin |-> 1]
SomeSelectors == {<<"js">>, <<"code">>, <<"code", "js">>, <<"docs">>, <<"nothing">>}

\* Sessions by one of their names or both, the key of one of which tells no agent; keys
\* without the prefix and with it.
OwnerOf == [s \in Sessions |-> IF s = "s1" THEN "A" ELSE "B"]
SomeKeys == {<<"plain", "A">>, <<"plain", "B">>, <<"prefixed", "A">>}
EngineForms == {{"sid"}, {"sid", "key"}}
ToolForms == {{"sid"}, {"sid", "key"}, {"key"}}
HookForms == {{"sid"}, {"sid", "key"}, {"sid", "key", "agent"}}
SomeTelling == {<<"s2", "key">>}

\* A memory and its twin, a weaker one, and what is no memory.
Item(uri, score, text, memory) ==
    [uri |-> uri, score |-> score, level |-> "leaf", text |-> text, category |-> "facts",
     event |-> FALSE, boost |-> 0, chars |-> 1, memory |-> memory]
SomeItems == {Item("m1", 9, "a", TRUE), Item("m2", 9, "a", TRUE),
              Item("m3", 5, "b", TRUE), Item("r1", 9, "c", FALSE)}

ASSUME PartsAreInstances ==
    /\ OperationsAssumption /\ Price!PriceHandleConstants
    /\ RoutingAssumption /\ ToolsAssumption
    /\ AgentRoutingConstants /\ MemoryToolsAssumption /\ TwinsAreAlike
-----------------------------------------------------------------------------
RequestRests == /\ op = "read" /\ requestPc = "build" /\ sends = 0 /\ travelling = {}
                /\ handled = [c \in {} |-> "ok"] /\ aborted = FALSE /\ outcome = "none"
RoutingRests == /\ written = "v1" /\ cache = "missing" /\ beside = None
                /\ taxonomy = None /\ router = NoRouter /\ done = 0
                /\ caller = [c \in Callers |-> "idle"]
                /\ edits = 0 /\ troubles = 0 /\ stops = 0

Init == /\ part \in {"request", "price", "routing", "tools", "accounts", "memories"}
        /\ IF part = "request" THEN RequestInit ELSE RequestRests
        /\ IF part = "routing" THEN RoutingInit ELSE RoutingRests
        /\ Price!Init /\ ToolsInit /\ AccountsInit /\ KeeperInit

Next == /\ UNCHANGED part
        /\ \/ part = "request" /\ RequestNext
              /\ UNCHANGED <<priceVars, routingVars, toolVars, accountVars, keeperVars>>
           \/ part = "price" /\ Price!Next
              /\ UNCHANGED <<requestVars, routingVars, toolVars, accountVars, keeperVars>>
           \/ part = "routing" /\ RoutingNext
              /\ UNCHANGED <<requestVars, priceVars, toolVars, accountVars, keeperVars>>
           \/ part = "tools" /\ ToolsNext
              /\ UNCHANGED <<requestVars, priceVars, routingVars, accountVars, keeperVars>>
           \/ part = "accounts" /\ AccountsNext
              /\ UNCHANGED <<requestVars, priceVars, routingVars, toolVars, keeperVars>>
           \/ part = "memories" /\ KeeperNext
              /\ UNCHANGED <<requestVars, priceVars, routingVars, toolVars, accountVars>>

vars == <<part, requestVars, priceVars, routingVars, toolVars, accountVars, keeperVars>>
Spec == Init /\ [][Next]_vars

\* Each part's own fairness; it is owed only to the part that runs.
FairSpec == /\ Spec
            /\ part = "request" => RequestFairness
            /\ part = "price" => Price!Fairness
            /\ part = "routing" => RoutingFairness
-----------------------------------------------------------------------------
(* Whoever calls out comes back: a request though the server say nothing   *)
(* or stop in a body (client.ts), a price though the handle do             *)
(* (price-handle.ts), a routing once the services answer and the taxonomy  *)
(* is mended, without a restart (resource-routing-service.ts).             *)
OuterCallsReturn == /\ part = "request" => RequestReturns
                    /\ part = "price" => Price!PriceReturns
                    /\ part = "routing" => RoutingRecovers
=============================================================================
