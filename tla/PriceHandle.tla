---------------------------- MODULE PriceHandle ----------------------------
(***************************************************************************)
(* One price asked of the proxy's handle (price-handle.ts, `price` and     *)
(* `ask`): a question under the client's own timer, asked again after a    *)
(* pause when the handle gave no verdict.  The timer is cleared when the   *)
(* headers are there; how long the body may then say nothing between two   *)
(* of its pieces is up to the transport (fetch).  Time goes in ticks.      *)
(***************************************************************************)
EXTENDS Naturals

CONSTANTS Limit,        \* priceTimeoutMs
          BodyLimit,    \* what the transport waits for the next of a body
          MaxPieces,    \* bound: pieces a body comes in before its end
          Times,        \* repeat.times
          Pause         \* repeat.pauseMs

\* Assumed where this module is instantiated.
PriceHandleConstants == /\ Limit \in Nat \ {0} /\ BodyLimit \in Nat \ {0}
                        /\ MaxPieces \in Nat /\ Times \in Nat /\ Pause \in Nat

VARIABLES pc,        \* "ask", "wire", "body", "pause" or "told"
          attempt,
          elapsed,   \* since the question, or the pause, began
          silent,    \* how long the body has said nothing
          pieces,    \* what has come of the body
          told       \* "nothing", "verdict" or "no weight"

vars == <<pc, attempt, elapsed, silent, pieces, told>>

TypeOK == /\ pc \in {"ask", "wire", "body", "pause", "told"}
          /\ attempt \in 0..Times
          /\ elapsed \in Nat /\ silent \in 0..BodyLimit /\ pieces \in 0..MaxPieces
          /\ told \in {"nothing", "verdict", "no weight"}

Init == /\ pc = "ask" /\ attempt = 0 /\ elapsed = 0
        /\ silent = 0 /\ pieces = 0 /\ told = "nothing"

Asks == /\ pc = "ask" /\ pc' = "wire" /\ elapsed' = 0
        /\ UNCHANGED <<attempt, silent, pieces, told>>

\* A timer that is due fires before time goes on.
Tick == /\ \/ pc = "wire" /\ elapsed < Limit /\ UNCHANGED silent
           \/ pc = "body" /\ silent < BodyLimit /\ silent' = silent + 1
           \/ pc = "pause" /\ elapsed < Pause /\ UNCHANGED silent
        /\ elapsed' = elapsed + 1
        /\ UNCHANGED <<pc, attempt, pieces, told>>

HeadersArrive == /\ pc = "wire" /\ pc' = "body" /\ silent' = 0 /\ pieces' = 0
                 /\ UNCHANGED <<attempt, elapsed, told>>

\* The transport's patience starts anew with each piece.
PieceArrives == /\ pc = "body" /\ pieces < MaxPieces
                /\ pieces' = pieces + 1 /\ silent' = 0
                /\ UNCHANGED <<pc, attempt, elapsed, told>>

\* No verdict: a pause and the question again, or no weight.
NoVerdict == /\ IF attempt < Times THEN pc' = "pause" /\ UNCHANGED told
                                   ELSE pc' = "told" /\ told' = "no weight"
             /\ elapsed' = 0
             /\ UNCHANGED <<attempt, silent, pieces>>

\* The connection is refused or dropped, or the timer ends the wait.
Fails == pc = "wire" /\ NoVerdict
TimesOut == pc = "wire" /\ elapsed = Limit /\ NoVerdict

AsksAgain == /\ pc = "pause" /\ elapsed = Pause
             /\ pc' = "ask" /\ attempt' = attempt + 1
             /\ UNCHANGED <<elapsed, silent, pieces, told>>

\* A verdict with status 200; anything else, a body that breaks off too, is none.
BodyEnds == /\ pc = "body"
            /\ \/ pc' = "told" /\ told' = "verdict" /\ UNCHANGED <<attempt, elapsed, silent, pieces>>
               \/ NoVerdict

Next == Asks \/ Tick \/ HeadersArrive \/ PieceArrives \/ Fails \/ TimesOut \/ AsksAgain \/ BodyEnds

Spec == Init /\ [][Next]_vars

\* The client's steps and time go on; a body the transport has waited for is ended.
Fairness == /\ WF_vars(Asks) /\ WF_vars(Tick) /\ WF_vars(TimesOut) /\ WF_vars(AsksAgain)
            /\ WF_vars(silent = BodyLimit /\ BodyEnds)
-----------------------------------------------------------------------------
(* A price is given or given up, whatever the handle does: its silence     *)
(* does not hold the turn that asks (PriceHandle.price).                   *)
PriceReturns == <>(told # "nothing")
=============================================================================
