------------------------------ MODULE MCWindow ------------------------------
(***************************************************************************)
(* What of a conversation stays in the window and in which form, on small  *)
(* instances and in one run: the search for the kept tail (MCTailSearch),  *)
(* the transcript on its way to the server, back and to the model          *)
(* (Transcript), and the window without a fresh summary (Recovery).  A     *)
(* behaviour is one of one part, the others standing at rest: each is a    *)
(* computation within one turn, and what Recovery takes of the search is   *)
(* its outcome (TailByWeight), the operator both use.                      *)
(***************************************************************************)
EXTENDS MCTailSearch, Recovery, Transcript

VARIABLE part

searchVars == vars
windowVars == <<part, searchVars, transcriptVars, recoveryVars>>

\* One id is the other with what a second call of it would be told by.
TwoIds == {"a", "a11"}
TwoStrict == [id \in TwoIds |-> IF id = "a" THEN <<"a">> ELSE <<"a", "1", "1">>]
NoneOneOrBoth == {<<>>, <<"a">>, <<"a", "a11">>}

\* Four messages in two or three batches, each batch opened by a user.
Batches == {<<1, 1, 2, 2>>, <<1, 2, 2, 3>>, <<1, 1, 1, 2>>, <<1, 1, 2, 3>>}
Conversation(batches, moments) ==
    [i \in 1 .. 4 |-> [batch |-> batches[i], moment |-> moments[i],
                       role |-> IF i = 1 \/ batches[i - 1] # batches[i] THEN "user" ELSE "other"]]
\* Three moments, or two and messages without one.
Moments == [1 .. 4 -> 1 .. 3] \cup [1 .. 4 -> 0 .. 2]
SmallConversations ==
    {c \in {Conversation(b, m) : b \in Batches, m \in Moments} : IsConversation(c)}
SmallArchives == {<<2>>, <<3>>, <<4>>, <<1, 3>>, <<1, 2, 3>>}

-----------------------------------------------------------------------------
SearchRests == /\ query = (CHOOSE q \in Queries : ~q.priced /\ q.total = 0)
               /\ phase = "done" /\ cap = 0 /\ count = 0 /\ lo = 1 /\ hi = 0
               /\ weighed = {} /\ chosen = NoTail
RecoveryRests == /\ said = <<>> /\ timed = {} /\ ends = <<>> /\ fate = <<>>
                 /\ search = [pc |-> "rest", ask |-> 0, found |-> 0]
                 /\ sent = [from |-> 0, dropped |-> 0]
TranscriptRests == kind = "live" /\ messages = <<>>

WindowInit ==
    \/ part = "search" /\ Init /\ TranscriptRests /\ RecoveryRests
    \/ part = "transcript" /\ SearchRests /\ TranscriptInit /\ RecoveryRests
    \/ part = "recovery" /\ SearchRests /\ TranscriptRests /\ RecoveryInit

WindowNext ==
    /\ UNCHANGED part
    /\ \/ part = "search" /\ Next /\ UNCHANGED <<transcriptVars, recoveryVars>>
       \/ part = "transcript" /\ TranscriptNext /\ UNCHANGED <<searchVars, recoveryVars>>
       \/ part = "recovery" /\ RecoveryNext /\ UNCHANGED <<searchVars, transcriptVars>>

WindowSpec == WindowInit /\ [][WindowNext]_windowVars
WindowFairSpec == WindowSpec /\ WF_windowVars(part = "search" /\ WindowNext)
-----------------------------------------------------------------------------
(* The search ends even when the handle falls silent, and asks for about   *)
(* log2 of the starts (tail-by-weight.ts, longestTailWithin).              *)
SearchEndsSoon == SearchEnds /\ []FewQuestions
=============================================================================
