---------------------------- MODULE RoutingService ----------------------------
(***************************************************************************)
(* One agent's resource routing (src/routing/resource-routing-service.ts,  *)
(* the building of its vectors in resource-router.ts and their file in     *)
(* resource-routing-cache.ts): a router built once for all who ask, its    *)
(* vectors kept in a file, services that fail, a taxonomy edited by hand,  *)
(* and a gateway that stops in the middle.  A version of the taxonomy      *)
(* stands for everything the file is compared by: hash, model, identity.   *)
(***************************************************************************)
EXTENDS Naturals, FiniteSets

CONSTANTS Callers,        \* tools and the preload
          Versions,       \* what may stand in the taxonomy's file
          Unusable,       \* those of them that do not compile
          Parts,          \* how many categories are embedded, one by one
          MaxEdits, MaxTroubles, MaxStops   \* bounds

\* Assumed where this module is instantiated.
RoutingAssumption ==
    /\ Unusable \subseteq Versions /\ Parts \in Nat \ {0}
    /\ Versions \cap {"none", "missing", "torn"} = {}
    /\ MaxEdits \in Nat /\ MaxTroubles \in Nat /\ MaxStops \in Nat

VARIABLES written,    \* the taxonomy's file
          cache,      \* the vectors' file: "missing", "torn" or the version they are of
          beside,     \* the file beside it, or "none"
          taxonomy,   \* the one the gateway holds, or "none"
          router,     \* the promise of a router: [is, of], see Promises
          done,       \* categories embedded by the build
          caller,     \* caller -> "idle", "waits", "routes", "routed" or "failed"
          edits, troubles, stops

routingVars == <<written, cache, beside, taxonomy, router, done, caller, edits, troubles, stops>>

None == "none"
NoRouter == [is |-> "none", of |-> None]
Building == {"embeds", "puts", "renames"}

RoutingInit ==
    /\ written \in Versions /\ cache \in {"missing", "torn"} \cup (Versions \ Unusable)
    /\ beside = None /\ taxonomy = None /\ router = NoRouter /\ done = 0
    /\ caller = [c \in Callers |-> "idle"]
    /\ edits = 0 /\ troubles = 0 /\ stops = 0

\* The event loop is the build's while it writes the file.
Free == router.is \notin {"puts", "renames"}

Told(who, what) == [c \in Callers |-> IF c \in who THEN what ELSE caller[c]]
Waiting == {c \in Callers : caller[c] = "waits"}

\* Mutant: any whole file will do.
HitOfAnyVersion(of) == cache \notin {"missing", "torn"}

\* What the file is good for, once read and compared.
Hit(of) == cache = of

(***************************************************************************)
(* A caller comes for the router.  The taxonomy is loaded once and held;   *)
(* the first to come starts the build, which reads the vectors' file       *)
(* before it awaits anything; the others wait for the same promise.        *)
(***************************************************************************)
TaxonomyFails(c) ==
    /\ Free /\ caller[c] \in {"idle", "failed"}
    /\ taxonomy = None /\ written \in Unusable
    /\ caller' = [caller EXCEPT ![c] = "failed"]
    /\ UNCHANGED <<written, cache, beside, taxonomy, router, done, edits, troubles, stops>>

Asks(c) ==
    LET held == IF taxonomy = None THEN written ELSE taxonomy IN
    /\ Free /\ caller[c] \in {"idle", "failed"}
    /\ held \notin Unusable
    /\ taxonomy' = held
    /\ CASE router.is = "ready" -> /\ caller' = [caller EXCEPT ![c] = "routes"]
                                   /\ UNCHANGED <<router, done>>
         [] router.is \in Building -> /\ caller' = [caller EXCEPT ![c] = "waits"]
                                      /\ UNCHANGED <<router, done>>
         [] OTHER -> IF Hit(held)
                     THEN /\ router' = [is |-> "ready", of |-> cache]
                          /\ caller' = [caller EXCEPT ![c] = "routes"]
                          /\ UNCHANGED done
                     ELSE /\ router' = [is |-> "embeds", of |-> held] /\ done' = 0
                          /\ caller' = [caller EXCEPT ![c] = "waits"]
    /\ UNCHANGED <<written, cache, beside, edits, troubles, stops>>

Embeds == /\ router.is = "embeds"
          /\ done' = done + 1
          /\ router' = [router EXCEPT !.is = IF done' = Parts THEN "puts" ELSE "embeds"]
          /\ UNCHANGED <<written, cache, beside, taxonomy, caller, edits, troubles, stops>>

PutsBeside == /\ router.is = "puts"
              /\ beside' = router.of
              /\ router' = [router EXCEPT !.is = "renames"]
              /\ UNCHANGED <<written, cache, taxonomy, done, caller, edits, troubles, stops>>

Renames == /\ router.is = "renames"
           /\ cache' = beside /\ beside' = None
           /\ router' = [router EXCEPT !.is = "ready"]
           /\ caller' = Told(Waiting, "routes")
           /\ UNCHANGED <<written, taxonomy, done, edits, troubles, stops>>

\* The embedder fails, or the file cannot be written: all who waited are told,
\* and the promise is forgotten.
BuildFails == /\ router.is \in Building /\ troubles < MaxTroubles
              /\ troubles' = troubles + 1
              /\ router' = NoRouter /\ done' = 0 /\ beside' = None
              /\ caller' = Told(Waiting, "failed")
              /\ UNCHANGED <<written, cache, taxonomy, edits, stops>>

\* The choice itself (ResourceRouter!Decide) and its line in the audit.
Routes(c) == /\ Free /\ caller[c] = "routes"
             /\ caller' = [caller EXCEPT ![c] = "routed"]
             /\ UNCHANGED <<written, cache, beside, taxonomy, router, done, edits, troubles, stops>>

\* A service that is silent, or an audit that cannot be written.
RouteFails(c) == /\ Free /\ caller[c] = "routes" /\ troubles < MaxTroubles
                 /\ troubles' = troubles + 1
                 /\ caller' = [caller EXCEPT ![c] = "failed"]
                 /\ UNCHANGED <<written, cache, beside, taxonomy, router, done, edits, stops>>

Edited(v) == /\ edits < MaxEdits /\ v # written
             /\ written' = v /\ edits' = edits + 1
             /\ UNCHANGED <<cache, beside, taxonomy, router, done, caller, troubles, stops>>

\* Sooner or later somebody mends a file that does not compile.
Mended == /\ written \in Unusable
          /\ written' \in Versions \ Unusable
          /\ UNCHANGED <<cache, beside, taxonomy, router, done, caller, edits, troubles, stops>>

\* The gateway stops, perhaps with the file half written, and starts anew.
Stops == /\ stops < MaxStops /\ stops' = stops + 1
         /\ beside' \in IF router.is = "puts" THEN {None, "torn"} ELSE {beside}
         /\ taxonomy' = None /\ router' = NoRouter /\ done' = 0
         /\ caller' = [c \in Callers |-> IF caller[c] = "routed" THEN "routed" ELSE "idle"]
         /\ UNCHANGED <<written, cache, edits, troubles>>

RoutingNext ==
    \/ \E c \in Callers : TaxonomyFails(c) \/ Asks(c) \/ Routes(c) \/ RouteFails(c)
    \/ Embeds \/ PutsBeside \/ Renames \/ BuildFails
    \/ \E v \in Versions : Edited(v)
    \/ Mended \/ Stops

RoutingSpec == RoutingInit /\ [][RoutingNext]_routingVars

\* The gateway goes on, a caller that failed asks again, a broken file is mended.
RoutingFairness ==
    /\ WF_routingVars(Embeds) /\ WF_routingVars(PutsBeside) /\ WF_routingVars(Renames)
    /\ WF_routingVars(Mended)
    /\ \A c \in Callers : WF_routingVars(Asks(c)) /\ WF_routingVars(Routes(c))
-----------------------------------------------------------------------------
(* The vectors a router compares with are those of the taxonomy it answers *)
(* from, whatever stood in the vectors' file and however the taxonomy was  *)
(* edited meanwhile (src/routing/resource-routing-cache.ts:160-186).       *)
RouterFitsTaxonomy == router.is = "ready" => router.of = taxonomy

(* A gateway that stops while it writes leaves the file as it was or whole *)
(* (src/routing/resource-routing-cache.ts:188-224).                        *)
NeverLeftTorn == [][cache' = "torn" => cache = "torn"]_routingVars

(* No failure stays: once the services answer and the file is mended, who  *)
(* asks is routed, without a restart                                       *)
(* (src/routing/resource-routing-service.ts:253-259).                      *)
RoutingRecovers == \A c \in Callers : <>(caller[c] = "routed")
=============================================================================
