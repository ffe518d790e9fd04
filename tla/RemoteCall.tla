----------------------------- MODULE RemoteCall -----------------------------
(***************************************************************************)
(* What a caller may rely on when it calls the server: the abstract call.  *)
(* A write's work is done at most once, perhaps only after the caller was  *)
(* told; the caller is told once; "answered" is said only of work that is  *)
(* done, "refused" only of work the server turned down, "blank" only that  *)
(* the server has settled it, and "unheard" says nothing about the work.   *)
(***************************************************************************)
EXTENDS Naturals

VARIABLES once,     \* the work must not be done twice: a write
          work,     \* "open", "done" or "turned down"
          told      \* "nothing", "answered", "refused", "blank" or "unheard"

Works == {"open", "done", "turned down"}

Init == once \in BOOLEAN /\ work = "open" /\ told = "nothing"

Serves == /\ once => work = "open"
          /\ work' \in Works
          /\ UNCHANGED <<once, told>>

Answers == /\ told = "nothing" /\ work = "done" /\ told' = "answered"
           /\ UNCHANGED <<once, work>>

Refuses == /\ told = "nothing" /\ work = "turned down" /\ told' = "refused"
           /\ UNCHANGED <<once, work>>

\* An answer of which nothing but its arrival is told.
AnswersBlank == /\ told = "nothing" /\ work # "open" /\ told' = "blank"
                /\ UNCHANGED <<once, work>>

GivesUp == /\ told = "nothing" /\ told' = "unheard"
           /\ UNCHANGED <<once, work>>

Next == Serves \/ Answers \/ Refuses \/ AnswersBlank \/ GivesUp

Spec == Init /\ [][Next]_<<once, work, told>>
=============================================================================
