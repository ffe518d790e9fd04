----------------------- MODULE TurnRecordingProofs -----------------------
(***************************************************************************)
(* The recording of turns, for any number of turns and rounds, any texts,  *)
(* any limit of claims.                                                    *)
(*                                                                         *)
(* Whatever fails, the variables keep their types.  When the host begins a *)
(* turn only after its queue is empty and no write fails, what the queue   *)
(* skips of a turn is the turn's own; answered turns are whole when        *)
(* besides none is brought again too soon, and answers of the server are   *)
(* not lost where reads fail or compactions come.  When no read fails      *)
(* either, each message stands once and in order.  The failed write that   *)
(* leaves a turn half recorded is a run of its own (half_recorded.cfg).    *)
(*                                                                         *)
(* The heart is that what was recorded last is the beginning of the turn   *)
(* under way (Stands), whole and in order behind it (StoredInv), so that   *)
(* the longest prefix the server's tail ends with is that beginning and    *)
(* no chance likeness (SkipsWhatStands); and that a claim of a turn stands *)
(* for its last message (ClaimedAreEnded).  Where reads may fail it is     *)
(* enough that the last message is the turn's own (Heard).                 *)
(***************************************************************************)
EXTENDS TurnRecording, SequenceTheorems, WellFoundedInduction, TLAPS

\* The place of a turn's answer, and what its messages compare by.
LastPlace(t) == script[t].rounds + 2

KeyOf(t, place) ==
    IF place = 1 THEN <<"user", script[t].question>>
    ELSE IF place = LastPlace(t) THEN <<"assistant", "done">>
    ELSE <<"tool", t, place - 1>>

\* What the order of the messages needs: a turn that waits, or is read or written in
\* vain, may be torn or doubled.
QuietServer ==
    HostWaits /\ Faults \cap {"read", "write", "impatient", "compact"} = {}

Before(one, other) ==
    \/ one.turn < other.turn
    \/ one.turn = other.turn /\ one.place < other.place

\* The last message recorded is the turn's k-th, or nothing of it is recorded yet.
Stands(t, k) ==
    IF k = 0 THEN \A i \in 1 .. Len(stored) : stored[i].turn # t
             ELSE /\ stored # <<>>
                  /\ stored[Len(stored)].turn = t
                  /\ stored[Len(stored)].place = k

StoredAreMessages ==
    \A i \in 1 .. Len(stored) :
        /\ stored[i].turn \in 1 .. begun
        /\ stored[i].place \in 1 .. LastPlace(stored[i].turn)
        /\ stored[i].key = KeyOf(stored[i].turn, stored[i].place)

StoredOneByOne ==
    \A i, j \in 1 .. Len(stored) : i < j => Before(stored[i], stored[j])

\* Before a message stands the rest of its turn, next to it.
StoredWithoutGaps ==
    \A i \in 1 .. Len(stored) : \A back \in 0 .. stored[i].place - 1 :
        /\ i - back >= 1
        /\ stored[i - back].turn = stored[i].turn
        /\ stored[i - back].place = stored[i].place - back

\* The server hands out from a turn's question on.
TailStartsWithATurn ==
    \/ from = 0
    \/ from < Len(stored) /\ stored[from + 1].place = 1

\* Of the open turn what the hook has brought stands.
OpenTurn ==
    /\ hook => open # 0 /\ hooked >= 1
    /\ open # 0 =>
          /\ open = begun
          /\ queue = <<>> /\ call.pc = "idle"
          /\ hooked <= HookedLength(open)
          /\ Stands(open, IF hook THEN hooked - 1 ELSE hooked)

\* Of the queued turn all stands, or all but the answer.
QueuedTurn ==
    /\ queue # <<>> =>
          /\ queue = <<begun>> /\ begun # 0 /\ open = 0
          /\ \/ Stands(begun, LastPlace(begun) - 1)
             \/ Stands(begun, LastPlace(begun))
    /\ call.pc # "idle" => queue # <<>> /\ call.turn = begun
    /\ call.pc = "write" =>
          call.next = LastPlace(begun) /\ Stands(begun, LastPlace(begun) - 1)

SettledAreEnded == \A t \in settled : IsStored(t, LastPlace(t))

ClaimedAreEnded ==
    \A t \in Turns :
        (Has(claims, AdvancementKey(t)) \/ Has(claims, QueueKey(t))) =>
            \/ IsStored(t, LastPlace(t))
            \/ call.pc # "idle" /\ call.turn = t

Keys == ({"user"} \X Texts) \cup ({"tool"} \X Nat \X Nat) \cup {<<"assistant", "done">>}

Recorded == [turn : Nat, place : Nat, key : Keys]

ClaimKeys == {"hook", "queue", "advancement"} \X Nat \X Nat

Typed ==
    /\ TypeOK
    /\ stored \in Seq(Recorded)
    /\ claims \in Seq(ClaimKeys)

StoredInv == StoredAreMessages /\ StoredOneByOne /\ StoredWithoutGaps

IInv ==
    /\ Typed
    /\ StoredInv
    /\ TailStartsWithATurn
    /\ OpenTurn /\ QueuedTurn
    /\ SettledAreEnded /\ ClaimedAreEnded

---------------------------------------------------------------------------
(* A turn's messages: the question, the rounds, the answer.                *)
LEMMA MessagesOfATurn ==
    ASSUME TurnRecordingConstants, Typed, NEW t \in Turns
    PROVE  /\ script[t].rounds \in 0 .. MaxRounds
           /\ LastPlace(t) \in 2 .. MaxRounds + 2
           /\ Len(Messages(t)) = LastPlace(t)
           /\ \A place \in 1 .. LastPlace(t) :
                 Messages(t)[place] = KeyOf(t, place) /\ KeyOf(t, place) \in Keys
<1> DEFINE rounds == script[t].rounds
           calls == [i \in 1 .. rounds |-> <<"tool", t, i>>]
           ask == <<<<"user", script[t].question>>>>
           answer == <<<<"assistant", "done">>>>
<1>1. /\ rounds \in 0 .. MaxRounds /\ rounds \in Nat
      /\ script[t].question \in Texts /\ MaxRounds \in Nat
  BY DEF Typed, TypeOK, TurnRecordingConstants
<1>2. Messages(t) = (ask \o calls) \o answer
  BY DEF Messages
<1>t. t \in Nat
  BY DEF Turns
<1>3. calls \in Seq(Keys) /\ Len(calls) = rounds
  BY <1>1, <1>t DEF Keys
<1>4. ask \in Seq(Keys) /\ Len(ask) = 1 /\ ask[1] = <<"user", script[t].question>>
  BY <1>1 DEF Keys
<1>5. answer \in Seq(Keys) /\ Len(answer) = 1 /\ answer[1] = <<"assistant", "done">>
  BY DEF Keys
<1>6. \A i \in 1 .. rounds : calls[i] = <<"tool", t, i>>
  OBVIOUS
<1> HIDE DEF calls, ask, answer
<1> HIDE DEF rounds
<1>7. /\ ask \o calls \in Seq(Keys) /\ Len(ask \o calls) = 1 + rounds
      /\ \A i \in 1 .. 1 + rounds :
            (ask \o calls)[i] = IF i <= 1 THEN ask[i] ELSE calls[i - 1]
  <2>1. /\ ask \o calls \in Seq(Keys) /\ Len(ask \o calls) = Len(ask) + Len(calls)
        /\ \A i \in 1 .. Len(ask) + Len(calls) :
              (ask \o calls)[i] = IF i <= Len(ask) THEN ask[i] ELSE calls[i - Len(ask)]
    BY <1>3, <1>4, ConcatProperties, Zenon
  <2> QED
    BY <2>1, <1>3, <1>4, Zenon
<1>8. /\ Messages(t) \in Seq(Keys) /\ Len(Messages(t)) = (1 + rounds) + 1
      /\ \A i \in 1 .. (1 + rounds) + 1 :
            Messages(t)[i] = IF i <= 1 + rounds THEN (ask \o calls)[i]
                             ELSE answer[i - (1 + rounds)]
  <2> DEFINE front == ask \o calls
  <2> HIDE DEF front
  <2>1. front \in Seq(Keys) /\ Len(front) = 1 + rounds
    BY <1>7 DEF front
  <2>2. /\ front \o answer \in Seq(Keys) /\ Len(front \o answer) = Len(front) + Len(answer)
        /\ \A i \in 1 .. Len(front) + Len(answer) :
              (front \o answer)[i] = IF i <= Len(front) THEN front[i]
                                     ELSE answer[i - Len(front)]
    BY <2>1, <1>5, ConcatProperties, Zenon
  <2> QED
    BY <2>1, <2>2, <1>2, <1>5, Zenon DEF front
<1>9. LastPlace(t) = rounds + 2
  BY DEF LastPlace, rounds
<1>10. ASSUME NEW place \in 1 .. LastPlace(t)
       PROVE  Messages(t)[place] = KeyOf(t, place) /\ KeyOf(t, place) \in Keys
  <2>1. CASE place = 1
    <3>1. Messages(t)[1] = ask[1]
      BY <1>1, <1>7, <1>8
    <3> QED
      BY <3>1, <2>1, <1>1, <1>4 DEF KeyOf, Keys
  <2>2. CASE place = LastPlace(t)
    <3>1. place = (1 + rounds) + 1
      BY <2>2, <1>1, <1>9
    <3>2. Messages(t)[place] = answer[1]
      BY <3>1, <1>1, <1>8
    <3> QED
      BY <3>1, <3>2, <2>2, <1>1, <1>5 DEF KeyOf, Keys
  <2>3. CASE place # 1 /\ place # LastPlace(t)
    <3>1. place \in 2 .. rounds + 1 /\ place - 1 \in 1 .. rounds
      BY <2>3, <1>1, <1>9
    <3>2. place \in 1 .. 1 + rounds /\ place \in 1 .. (1 + rounds) + 1
          /\ place <= 1 + rounds /\ ~(place <= 1)
      BY <3>1, <1>1
    <3>a. Messages(t)[place] = calls[place - 1]
      BY <3>2, <1>7, <1>8, Zenon
    <3>3. calls[place - 1] = <<"tool", t, place - 1>>
      BY <3>1, <1>6
    <3>4. KeyOf(t, place) = <<"tool", t, place - 1>>
      BY <2>3 DEF KeyOf
    <3>5. <<"tool", t, place - 1>> \in {"tool"} \X Nat \X Nat
      BY <3>1, <1>1, <1>t
    <3> QED
      BY <3>a, <3>3, <3>4, <3>5 DEF Keys
  <2> QED
    BY <2>1, <2>2, <2>3
<1>11. LastPlace(t) \in 2 .. MaxRounds + 2
  BY <1>1, <1>9
<1>12. Len(Messages(t)) = LastPlace(t)
  BY <1>1, <1>8, <1>9
<1>13. script[t].rounds \in 0 .. MaxRounds
  BY <1>1 DEF rounds
<1> QED
  BY <1>10, <1>11, <1>12, <1>13

(* Nothing else of a turn compares equal to its answer, or has its         *)
(* question's role.                                                        *)
LEMMA KeysTellPlaces ==
    ASSUME TurnRecordingConstants, Typed, NEW t \in Turns, NEW place \in 1 .. LastPlace(t)
    PROVE  /\ KeyOf(t, place)[1] = "user" => place = 1
           /\ KeyOf(t, place) = KeyOf(t, LastPlace(t)) => place = LastPlace(t)
<1>1. LastPlace(t) \in 2 .. MaxRounds + 2 /\ MaxRounds \in Nat
  BY MessagesOfATurn DEF TurnRecordingConstants
<1>2. KeyOf(t, LastPlace(t)) = <<"assistant", "done">>
  BY <1>1 DEF KeyOf
<1>3. KeyOf(t, place) # <<"assistant", "done">> \/ place = LastPlace(t)
  BY <1>1 DEF KeyOf
<1>4. KeyOf(t, place)[1] = "user" => place = 1
  BY <1>1 DEF KeyOf
<1> QED
  BY <1>2, <1>3, <1>4

(* addSessionMessage of the next message of the turn under way.            *)
LEMMA StoreKeepsOrder ==
    ASSUME TurnRecordingConstants, Typed, StoredInv, begun \in Turns,
           NEW place \in 1 .. LastPlace(begun), Stands(begun, place - 1),
           Store(begun, place), UNCHANGED <<script, begun>>
    PROVE  /\ stored' \in Seq(Recorded)
           /\ Len(stored') = Len(stored) + 1
           /\ \A i \in 1 .. Len(stored) : stored'[i] = stored[i]
           /\ StoredInv' /\ Stands(begun, place)'
<1> DEFINE new == [turn |-> begun, place |-> place, key |-> KeyOf(begun, place)]
<1>0. begun \in Nat /\ begun >= 1 /\ LastPlace(begun) \in Nat /\ place \in Nat /\ place >= 1
  BY MessagesOfATurn DEF TurnRecordingConstants, Turns
<1>1. stored' = Append(stored, new)
  BY MessagesOfATurn DEF Store
<1>2. new \in Recorded
  BY <1>0, MessagesOfATurn DEF Recorded
<1>3. new.turn = begun /\ new.place = place /\ new.key = KeyOf(begun, place)
  OBVIOUS
<1> HIDE DEF new
<1>4. /\ stored \in Seq(Recorded)
      /\ stored' \in Seq(Recorded)
      /\ Len(stored) \in Nat
      /\ Len(stored') = Len(stored) + 1
      /\ \A i \in 1 .. Len(stored) : stored'[i] = stored[i]
      /\ stored'[Len(stored) + 1] = new
      /\ stored' # <<>>
  BY <1>1, <1>2, AppendProperties, LenProperties DEF Typed
<1>5. \A t, p : LastPlace(t)' = LastPlace(t) /\ KeyOf(t, p)' = KeyOf(t, p)
  BY DEF LastPlace, KeyOf
<1>6. \A i \in 1 .. Len(stored) : stored[i].turn \in Nat /\ stored[i].place \in Nat
  <2> SUFFICES ASSUME NEW i \in 1 .. Len(stored)
               PROVE  stored[i].turn \in Nat /\ stored[i].place \in Nat
    OBVIOUS
  <2>1. stored[i] \in Recorded
    BY <1>4, ElementOfSeq
  <2> QED
    BY <2>1 DEF Recorded
<1>7. StoredAreMessages'
  <2> SUFFICES ASSUME NEW i \in 1 .. Len(stored')
               PROVE  /\ stored'[i].turn \in 1 .. begun
                      /\ stored'[i].place \in 1 .. LastPlace(stored'[i].turn)
                      /\ stored'[i].key = KeyOf(stored'[i].turn, stored'[i].place)
    BY <1>5 DEF StoredAreMessages, LastPlace, KeyOf
  <2>1. CASE i \in 1 .. Len(stored)
    BY <2>1, <1>4 DEF StoredInv, StoredAreMessages
  <2>2. CASE i = Len(stored) + 1
    BY <2>2, <1>0, <1>3, <1>4
  <2> QED
    BY <2>1, <2>2, <1>4
<1>8. \A i \in 1 .. Len(stored) : Before(stored[i], new)
  <2> SUFFICES ASSUME NEW i \in 1 .. Len(stored), stored[i].turn = begun
               PROVE  stored[i].place < place
    BY <1>0, <1>3, <1>6 DEF Before, StoredInv, StoredAreMessages
  <2>1. place - 1 # 0 /\ stored[Len(stored)].turn = begun /\ stored[Len(stored)].place = place - 1
    BY <1>0, <1>4 DEF Stands
  <2>2. CASE i = Len(stored)
    BY <2>1, <2>2, <1>0
  <2>3. CASE i < Len(stored)
    <3>1. Len(stored) \in 1 .. Len(stored)
      BY <2>3, <1>4
    <3>2. Before(stored[i], stored[Len(stored)])
      BY <2>3, <3>1 DEF StoredInv, StoredOneByOne
    <3> QED
      BY <3>1, <3>2, <2>1, <1>0, <1>6 DEF Before
  <2> QED
    BY <2>2, <2>3, <1>4
<1>9. StoredOneByOne'
  <2> SUFFICES ASSUME NEW i \in 1 .. Len(stored'), NEW j \in 1 .. Len(stored'), i < j
               PROVE  Before(stored'[i], stored'[j])
    BY DEF StoredOneByOne, Before
  <2>1. i \in 1 .. Len(stored) /\ stored'[i] = stored[i]
    BY <1>4
  <2>2. CASE j \in 1 .. Len(stored)
    <3>1. Before(stored[i], stored[j])
      BY <2>1, <2>2 DEF StoredInv, StoredOneByOne
    <3> QED
      BY <1>4, <2>1, <2>2, <3>1
  <2>3. CASE j = Len(stored) + 1
    BY <1>4, <1>8, <2>1, <2>3
  <2> QED
    BY <1>4, <2>2, <2>3
<1>10. StoredWithoutGaps'
  <2> SUFFICES ASSUME NEW i \in 1 .. Len(stored'), NEW back \in 0 .. stored'[i].place - 1
               PROVE  /\ i - back >= 1
                      /\ stored'[i - back].turn = stored'[i].turn
                      /\ stored'[i - back].place = stored'[i].place - back
    BY DEF StoredWithoutGaps
  <2>1. CASE i \in 1 .. Len(stored)
    <3>1. stored'[i] = stored[i] /\ stored[i].place \in Nat
      BY <2>1, <1>4, <1>6
    <3>2. i - back >= 1 /\ stored[i - back].turn = stored[i].turn
          /\ stored[i - back].place = stored[i].place - back
      BY <2>1, <3>1 DEF StoredInv, StoredWithoutGaps
    <3>3. i - back \in 1 .. Len(stored)
      BY <2>1, <3>1, <3>2, <1>4
    <3> QED
      BY <3>1, <3>2, <3>3, <1>4
  <2>2. CASE i = Len(stored) + 1 /\ back = 0
    BY <2>2, <1>3, <1>4, <1>0
  <2>3. CASE i = Len(stored) + 1 /\ back # 0
    <3>1. stored'[i] = new /\ back \in 1 .. place - 1
      BY <2>3, <1>3, <1>4, <1>0
    <3>2. /\ Len(stored) >= 1
          /\ stored[Len(stored)].turn = begun /\ stored[Len(stored)].place = place - 1
      BY <3>1, <1>0, <1>4 DEF Stands
    <3>3. back - 1 \in 0 .. stored[Len(stored)].place - 1 /\ Len(stored) \in 1 .. Len(stored)
      BY <3>1, <3>2, <1>0, <1>4
    <3>4. /\ Len(stored) - (back - 1) >= 1
          /\ stored[Len(stored) - (back - 1)].turn = begun
          /\ stored[Len(stored) - (back - 1)].place = (place - 1) - (back - 1)
      BY <3>2, <3>3 DEF StoredInv, StoredWithoutGaps
    <3>5. i - back = Len(stored) - (back - 1) /\ i - back \in 1 .. Len(stored)
      BY <2>3, <3>1, <3>4, <1>0, <1>4
    <3> QED
      BY <3>1, <3>4, <3>5, <1>0, <1>3, <1>4
  <2> QED
    BY <2>1, <2>2, <2>3, <1>4
<1>11. Stands(begun, place)'
  BY <1>0, <1>3, <1>4 DEF Stands
<1> QED
  BY <1>4, <1>7, <1>9, <1>10, <1>11 DEF StoredInv

(* When a turn's k-th message stands last, its first k are the last k, in  *)
(* order.                                                                  *)
LEMMA StandingIsStored ==
    ASSUME TurnRecordingConstants, Typed, StoredInv,
           NEW t \in Turns, NEW k \in 1 .. LastPlace(t), Stands(t, k)
    PROVE  /\ k <= Len(stored)
           /\ \A place \in 1 .. k :
                 /\ Len(stored) - (k - place) \in 1 .. Len(stored)
                 /\ stored[Len(stored) - (k - place)].turn = t
                 /\ stored[Len(stored) - (k - place)].place = place
           /\ \A place \in 1 .. k : IsStored(t, place)
<1>1. /\ Len(stored) \in Nat /\ Len(stored) >= 1
      /\ k \in Nat /\ k >= 1
      /\ stored[Len(stored)].turn = t /\ stored[Len(stored)].place = k
  <2>1. LastPlace(t) \in Nat
    BY MessagesOfATurn DEF TurnRecordingConstants
  <2>2. stored \in Seq(Recorded) /\ stored # <<>>
    BY <2>1 DEF Stands, Typed
  <2> QED
    BY <2>1, <2>2, EmptySeq, LenProperties DEF Stands
<1>2. ASSUME NEW place \in 1 .. k
      PROVE  /\ Len(stored) - (k - place) \in 1 .. Len(stored)
             /\ stored[Len(stored) - (k - place)].turn = t
             /\ stored[Len(stored) - (k - place)].place = place
  <2>1. k - place \in 0 .. k - 1 /\ Len(stored) \in 1 .. Len(stored)
    BY <1>1
  <2>2. /\ Len(stored) - (k - place) >= 1
        /\ stored[Len(stored) - (k - place)].turn = stored[Len(stored)].turn
        /\ stored[Len(stored) - (k - place)].place = stored[Len(stored)].place - (k - place)
    BY <1>1, <2>1 DEF StoredInv, StoredWithoutGaps
  <2> QED
    BY <1>1, <2>1, <2>2
<1>3. k <= Len(stored)
  <2>1. Len(stored) - (k - 1) \in 1 .. Len(stored)
    BY <1>1, <1>2
  <2> QED
    BY <1>1, <2>1
<1>4. ASSUME NEW place \in 1 .. k
      PROVE  IsStored(t, place)
  BY <1>2 DEF IsStored
<1> QED
  BY <1>2, <1>3, <1>4

(* A pour-off leaves the turn under way in the server's tail.              *)
LEMMA TheTailHoldsTheTurn ==
    ASSUME TurnRecordingConstants, Typed, StoredInv, TailStartsWithATurn,
           NEW t \in Turns, NEW k \in 1 .. LastPlace(t), Stands(t, k)
    PROVE  /\ ServerTail \in Seq(Recorded)
           /\ Len(ServerTail) = Len(stored) - from
           /\ \A i \in 1 .. Len(stored) - from : ServerTail[i] = stored[from + i]
           /\ k <= Len(ServerTail)
<1>1. /\ stored \in Seq(Recorded) /\ Len(stored) \in Nat /\ from \in 0 .. Len(stored)
      /\ k \in Nat /\ k >= 1 /\ k <= Len(stored)
  <2>1. LastPlace(t) \in Nat
    BY MessagesOfATurn DEF TurnRecordingConstants
  <2> QED
    BY <2>1, StandingIsStored, LenProperties DEF Typed, TypeOK
<1>2. /\ ServerTail \in Seq(Recorded)
      /\ Len(ServerTail) = IF from + 1 <= Len(stored) THEN Len(stored) - (from + 1) + 1 ELSE 0
      /\ \A i \in 1 .. Len(stored) - (from + 1) + 1 :
            ServerTail[i] = stored[(from + 1) + i - 1]
  <2>1. \A i \in from + 1 .. Len(stored) : stored[i] \in Recorded
    BY <1>1, ElementOfSeq
  <2> QED
    BY <1>1, <2>1, SubSeqProperties DEF ServerTail
<1>3. /\ Len(ServerTail) = Len(stored) - from
      /\ \A i \in 1 .. Len(stored) - from : ServerTail[i] = stored[from + i]
  <2>1. ASSUME NEW i \in 1 .. Len(stored) - from
        PROVE  ServerTail[i] = stored[from + i]
    <3>1. i \in 1 .. Len(stored) - (from + 1) + 1 /\ (from + 1) + i - 1 = from + i
      BY <1>1
    <3> QED
      BY <3>1, <1>2
  <2> QED
    BY <2>1, <1>1, <1>2
<1>4. k <= Len(stored) - from
  <2> SUFFICES ASSUME from > Len(stored) - k, from # 0
               PROVE  FALSE
    BY <1>1
  <2>1. from < Len(stored) /\ stored[from + 1].place = 1
    BY DEF TailStartsWithATurn
  <2> DEFINE place == k - (Len(stored) - (from + 1))
  <2>2. place \in 1 .. k /\ place # 1 /\ Len(stored) - (k - place) = from + 1
    BY <1>1, <2>1
  <2> HIDE DEF place
  <2>3. stored[Len(stored) - (k - place)].place = place
    BY <2>2, StandingIsStored
  <2> QED
    BY <2>1, <2>2, <2>3
<1> QED
  BY <1>2, <1>3, <1>4

(* recordedPrefixLength finds what stands of the turn, no more, no less.   *)
LEMMA SkipsWhatStands ==
    ASSUME TurnRecordingConstants, Typed, StoredInv, TailStartsWithATurn,
           NEW t \in Turns, NEW m \in {LastPlace(t) - 1, LastPlace(t)}, Stands(t, m)
    PROVE  RecordedPrefixLength(Messages(t), ServerTail) = m
<1> DEFINE n == LastPlace(t)
           tail == ServerTail
           mine == Messages(t)
<1>1. n \in Nat /\ n >= 2 /\ Len(mine) = n /\ m \in 1 .. n /\ m \in Nat
  BY MessagesOfATurn DEF TurnRecordingConstants
<1>2. /\ Len(tail) = Len(stored) - from /\ m <= Len(tail)
      /\ \A i \in 1 .. Len(stored) - from : tail[i] = stored[from + i]
  BY <1>1, TheTailHoldsTheTurn
<1>3. Len(stored) \in Nat /\ from \in 0 .. Len(stored) /\ Len(tail) \in Nat
  BY <1>2, LenProperties DEF Typed, TypeOK
<1>4. \A i \in 1 .. n : mine[i] = KeyOf(t, i)
  BY <1>1, MessagesOfATurn
<1> HIDE DEF n, tail, mine
<1>5. ASSUME NEW k \in 1 .. Len(tail), NEW i \in 1 .. k
      PROVE  tail[Len(tail) - k + i] = stored[Len(stored) - (k - i)]
  <2>1. /\ Len(tail) - k + i \in 1 .. Len(stored) - from
        /\ from + (Len(tail) - k + i) = Len(stored) - (k - i)
    BY <1>2, <1>3
  <2> QED
    BY <2>1, <1>2
<1>6. \A i \in 1 .. m : stored[Len(stored) - (m - i)].key = KeyOf(t, i)
  <2> SUFFICES ASSUME NEW i \in 1 .. m
               PROVE  stored[Len(stored) - (m - i)].key = KeyOf(t, i)
    OBVIOUS
  <2>1. /\ Len(stored) - (m - i) \in 1 .. Len(stored)
        /\ stored[Len(stored) - (m - i)].turn = t
        /\ stored[Len(stored) - (m - i)].place = i
    BY <1>1, StandingIsStored DEF n
  <2> QED
    BY <2>1 DEF StoredInv, StoredAreMessages
<1>7. EndsWithPrefix(tail, mine, m)
  <2> SUFFICES ASSUME NEW i \in 1 .. m
               PROVE  tail[Len(tail) - m + i].key = mine[i]
    BY DEF EndsWithPrefix
  <2>0. m \in 1 .. Len(tail)
    BY <1>1, <1>2, <1>3
  <2>1. tail[Len(tail) - m + i] = stored[Len(stored) - (m - i)]
    BY <2>0, <1>5
  <2>2. i \in 1 .. n
    BY <1>1
  <2> QED
    BY <2>1, <2>2, <1>4, <1>6
<1>8. ASSUME NEW k \in m + 1 .. n, k <= Len(tail), EndsWithPrefix(tail, mine, k)
      PROVE  FALSE
  <2>1. k = n /\ m = n - 1 /\ k \in 1 .. Len(tail) /\ k \in 1 .. k
    BY <1>1, <1>2, <1>3, <1>8 DEF n
  <2>2. tail[Len(tail) - k + k].key = mine[n]
    BY <2>1, <1>8 DEF EndsWithPrefix
  <2>3. tail[Len(tail) - k + k] = stored[Len(stored) - (k - k)]
    BY <2>1, <1>5
  <2>4. Len(stored) - (k - k) = Len(stored) - (m - m) /\ m \in 1 .. m /\ n \in 1 .. n
    BY <2>1, <1>1, <1>3
  <2>5. KeyOf(t, m) = KeyOf(t, n)
    BY <2>2, <2>3, <2>4, <1>4, <1>6
  <2>6. m = n
    BY <2>5, <1>1, KeysTellPlaces DEF n
  <2> QED
    BY <2>1, <2>6, <1>1
<1> DEFINE Longest(k) ==
      /\ k <= Len(tail) /\ EndsWithPrefix(tail, mine, k)
      /\ \A j \in k + 1 .. Len(mine) : j <= Len(tail) => ~EndsWithPrefix(tail, mine, j)
<1>9. m \in 0 .. Len(mine) /\ Longest(m)
  BY <1>1, <1>2, <1>7, <1>8
<1>10. ASSUME NEW k \in 0 .. Len(mine), Longest(k)
       PROVE  k = m
  <2>1. ~(k < m)
    <3> SUFFICES ASSUME k < m
                 PROVE  FALSE
      OBVIOUS
    <3>1. m \in k + 1 .. Len(mine)
      BY <1>1
    <3> QED
      BY <3>1, <1>2, <1>7, <1>10
  <2>2. ~(k > m)
    <3> SUFFICES ASSUME k > m
                 PROVE  FALSE
      OBVIOUS
    <3>1. k \in m + 1 .. n
      BY <1>1
    <3> QED
      BY <3>1, <1>8, <1>10
  <2> QED
    BY <2>1, <2>2, <1>1
<1>11. RecordedPrefixLength(mine, tail) = CHOOSE k \in 0 .. Len(mine) : Longest(k)
  BY DEF RecordedPrefixLength
<1> HIDE DEF Longest
<1>12. RecordedPrefixLength(mine, tail) = m
  BY <1>9, <1>10, <1>11
<1> QED
  BY <1>12 DEF mine, tail

(* claimTurn adds its key and no other.                                    *)
LEMMA ClaimingAdds ==
    ASSUME TurnRecordingConstants, NEW seen \in Seq(ClaimKeys), NEW key \in ClaimKeys,
           Len(seen) <= ClaimLimit
    PROVE  /\ Claimed(seen, key) \in Seq(ClaimKeys)
           /\ Len(Claimed(seen, key)) <= ClaimLimit
           /\ \A other : Has(Claimed(seen, key), other) => Has(seen, other) \/ other = key
<1> DEFINE more == Append(seen, key)
<1>1. /\ more \in Seq(ClaimKeys) /\ more # <<>> /\ Len(more) = Len(seen) + 1
      /\ \A i \in 1 .. Len(seen) : more[i] = seen[i]
      /\ more[Len(seen) + 1] = key
      /\ Len(seen) \in Nat /\ ClaimLimit \in Nat
  BY AppendProperties, LenProperties DEF TurnRecordingConstants
<1>2. Claimed(seen, key) = IF Len(more) > ClaimLimit THEN Tail(more) ELSE more
  BY DEF Claimed
<1> HIDE DEF more
<1>3. \A other : Has(more, other) => Has(seen, other) \/ other = key
  BY <1>1 DEF Has
<1>4. /\ Tail(more) \in Seq(ClaimKeys) /\ Len(Tail(more)) = Len(more) - 1
      /\ \A i \in 1 .. Len(Tail(more)) : Tail(more)[i] = more[i + 1]
  BY <1>1, HeadTailProperties
<1>5. \A other : Has(Tail(more), other) => Has(more, other)
  BY <1>1, <1>4 DEF Has
<1> QED
  BY <1>1, <1>2, <1>3, <1>4, <1>5

---------------------------------------------------------------------------
LEMMA NothingStoredKeeps ==
    ASSUME TurnRecordingConstants, Typed, begun' \in Nat, begun <= begun',
           UNCHANGED <<script, stored>>
    PROVE  /\ StoredInv => StoredInv'
           /\ \A t : LastPlace(t)' = LastPlace(t) /\ HookedLength(t)' = HookedLength(t)
           /\ \A t, k : Stands(t, k)' = Stands(t, k)
           /\ \A t, place : IsStored(t, place)' = IsStored(t, place)
<1>1. begun \in Nat
  BY DEF Typed, TypeOK, TurnRecordingConstants
<1>2. StoredAreMessages => StoredAreMessages'
  BY <1>1 DEF StoredAreMessages, LastPlace, KeyOf
<1>3. StoredOneByOne => StoredOneByOne'
  BY DEF StoredOneByOne, Before
<1>4. StoredWithoutGaps => StoredWithoutGaps'
  BY DEF StoredWithoutGaps
<1> QED
  BY <1>2, <1>3, <1>4 DEF StoredInv, LastPlace, HookedLength, Stands, IsStored

LEMMA InitIsGood == ASSUME TurnRecordingConstants, Init PROVE IInv
<1>1. Typed
  <2>1. stored = <<>> /\ claims = <<>> /\ queue = <<>> /\ begun = 0
    BY DEF Init
  <2>2. /\ stored \in Seq(Recorded) /\ claims \in Seq(ClaimKeys)
        /\ queue \in Seq(1 .. begun) /\ Len(claims) = 0 /\ Len(stored) = 0
    BY <2>1, EmptySeq
  <2>3. call \in [pc : {"idle", "read", "write"}, turn : 0 .. begun, next : 0 .. MaxRounds + 2]
    BY <2>1 DEF Init, IdleCall, TurnRecordingConstants
  <2>4. /\ begun \in 0 .. MaxTurns /\ open \in 0 .. begun /\ hooked \in 0 .. MaxRounds + 1
        /\ Len(claims) <= ClaimLimit /\ from \in 0 .. Len(stored)
    BY <2>1, <2>2 DEF Init, TurnRecordingConstants
  <2>5. /\ script \in [Turns -> [question : Texts, rounds : 0 .. MaxRounds]]
        /\ hook \in BOOLEAN /\ settled \subseteq 1 .. begun
    BY DEF Init
  <2> QED
    BY <2>2, <2>3, <2>4, <2>5 DEF Typed, TypeOK
<1>2. Len(stored) = 0 /\ Len(claims) = 0
  BY DEF Init
<1> QED
  BY <1>1, <1>2 DEF Init, IInv, StoredInv, StoredAreMessages, StoredOneByOne, StoredWithoutGaps,
     TailStartsWithATurn, OpenTurn, QueuedTurn, SettledAreEnded, ClaimedAreEnded, Has, IdleCall

LEMMA BeginTurnIsGood ==
    ASSUME TurnRecordingConstants, QuietServer, IInv, BeginTurn PROVE IInv'
<1> USE DEF IInv, BeginTurn, pluginVars, serverVars
<1>1. /\ begun \in Nat /\ begun' = begun + 1 /\ begun' \in 1 .. MaxTurns
      /\ queue = <<>> /\ call.pc = "idle" /\ ~hook
  BY DEF Typed, TypeOK, TurnRecordingConstants, QuietServer, OpenTurn
<1>2. Typed'
  <2>1. queue' \in Seq(1 .. begun')
    BY <1>1
  <2> QED
    BY <1>1, <2>1 DEF Typed, TypeOK, TurnRecordingConstants
<1>3. StoredInv' /\ Stands(begun, 0)'
  <2>1. begun' \in Nat /\ begun <= begun' /\ UNCHANGED <<script, stored>>
    BY <1>1
  <2>2. StoredInv'
    BY <2>1, NothingStoredKeeps
  <2>3. \A i \in 1 .. Len(stored) : stored[i].turn # begun'
    BY <1>1 DEF StoredInv, StoredAreMessages
  <2> QED
    BY <2>1, <2>2, <2>3 DEF Stands
<1>4. TailStartsWithATurn'
  BY DEF TailStartsWithATurn
<1>5. OpenTurn'
  <2>1. HookedLength(begun)' >= 0
    BY <1>1 DEF HookedLength, Typed, TypeOK, Turns
  <2> QED
    BY <1>1, <1>3, <2>1 DEF OpenTurn
<1>6. QueuedTurn'
  BY <1>1 DEF QueuedTurn
<1>7. SettledAreEnded' /\ ClaimedAreEnded'
  BY DEF SettledAreEnded, ClaimedAreEnded, IsStored, LastPlace, AdvancementKey, QueueKey, Has
<1> QED
  BY <1>2, <1>3, <1>4, <1>5, <1>6, <1>7

LEMMA NumbersOfTurns ==
    ASSUME TurnRecordingConstants, Typed
    PROVE  /\ begun \in 0 .. MaxTurns /\ open \in 0 .. begun /\ hooked \in Nat
           /\ begun \in Nat /\ open \in Nat /\ MaxRounds \in Nat
           /\ begun # 0 => begun \in Turns
           /\ \A t \in Turns : /\ HookedLength(t) \in 1 .. MaxRounds + 1
                              /\ LastPlace(t) = HookedLength(t) + 1
<1>1. /\ begun \in 0 .. MaxTurns /\ open \in 0 .. begun /\ hooked \in 0 .. MaxRounds + 1
      /\ MaxTurns \in Nat /\ MaxRounds \in Nat
  BY DEF Typed, TypeOK, TurnRecordingConstants
<1>2. ASSUME NEW t \in Turns
      PROVE  HookedLength(t) \in 1 .. MaxRounds + 1 /\ LastPlace(t) = HookedLength(t) + 1
  <2>1. script[t].rounds \in 0 .. MaxRounds
    BY DEF Typed, TypeOK
  <2> QED
    BY <1>1, <2>1 DEF HookedLength, LastPlace
<1> QED
  BY <1>1, <1>2 DEF Turns

LEMMA HookCalledIsGood ==
    ASSUME TurnRecordingConstants, QuietServer, IInv, HookCalled PROVE IInv'
<1> USE DEF IInv, HookCalled, serverVars
<1>1. /\ open = begun /\ begun \in Turns /\ open \in Nat /\ hooked \in Nat
      /\ hooked' = hooked + 1 /\ hooked' \in 1 .. HookedLength(open)
      /\ HookedLength(open) \in 1 .. MaxRounds + 1
      /\ MaxRounds \in Nat
  BY NumbersOfTurns DEF OpenTurn
<1>2. HookKey(open, hooked') \in ClaimKeys
  BY <1>1 DEF HookKey, ClaimKeys
<1>3. /\ claims' \in Seq(ClaimKeys) /\ Len(claims') <= ClaimLimit
      /\ \A other : Has(claims', other) => Has(claims, other) \/ other = HookKey(open, hooked')
  BY <1>2, ClaimingAdds DEF Typed, TypeOK
<1>4. Typed'
  <2>1. hooked' \in 0 .. MaxRounds + 1
    BY <1>1
  <2> QED
    BY <1>3, <2>1 DEF Typed, TypeOK
<1>5. StoredInv'
  BY NothingStoredKeeps DEF Typed, TypeOK, TurnRecordingConstants
<1>6. TailStartsWithATurn'
  BY DEF TailStartsWithATurn
<1>7. OpenTurn'
  <2>1. Stands(open, hooked - 1)'
    BY <1>1 DEF OpenTurn, Stands
  <2>2. HookedLength(open)' = HookedLength(open)
    BY DEF HookedLength
  <2> QED
    BY <1>1, <2>1, <2>2 DEF OpenTurn
<1>8. QueuedTurn'
  BY DEF QueuedTurn, OpenTurn
<1>9. SettledAreEnded'
  BY DEF SettledAreEnded, IsStored, LastPlace
<1>10. ClaimedAreEnded'
  BY <1>3 DEF ClaimedAreEnded, IsStored, LastPlace, AdvancementKey, QueueKey, HookKey
<1> QED
  BY <1>4, <1>5, <1>6, <1>7, <1>8, <1>9, <1>10

LEMMA StoringKeepsWhatIsStored ==
    ASSUME stored' \in Seq(Recorded), stored \in Seq(Recorded),
           Len(stored') = Len(stored) + 1,
           \A i \in 1 .. Len(stored) : stored'[i] = stored[i],
           UNCHANGED script
    PROVE  /\ \A t, place : IsStored(t, place) => IsStored(t, place)'
           /\ \A t : LastPlace(t)' = LastPlace(t) /\ HookedLength(t)' = HookedLength(t)
           /\ UNCHANGED from /\ TailStartsWithATurn /\ from \in Nat => TailStartsWithATurn'
<1>1. Len(stored) \in Nat /\ Len(stored') \in Nat
  BY LenProperties
<1>2. \A t, place : IsStored(t, place) => IsStored(t, place)'
  BY <1>1 DEF IsStored
<1>3. UNCHANGED from /\ TailStartsWithATurn /\ from \in Nat => TailStartsWithATurn'
  BY <1>1 DEF TailStartsWithATurn
<1> QED
  BY <1>2, <1>3 DEF LastPlace, HookedLength

LEMMA HookStoresIsGood ==
    ASSUME TurnRecordingConstants, IInv, hook, Store(open, hooked), hook' = FALSE,
           UNCHANGED <<hostVars, call, claims, from>>
    PROVE  IInv'
<1> USE DEF IInv, hostVars
<1>1. /\ open = begun /\ begun \in Turns /\ open \in Nat
      /\ hooked \in 1 .. LastPlace(open) - 1 /\ Stands(begun, hooked - 1)
      /\ queue = <<>> /\ call.pc = "idle"
  BY NumbersOfTurns DEF OpenTurn
<1>2. LastPlace(open) \in Nat /\ hooked \in 1 .. LastPlace(begun)
  BY <1>1, MessagesOfATurn DEF TurnRecordingConstants
<1>3. /\ stored' \in Seq(Recorded) /\ Len(stored') = Len(stored) + 1
      /\ \A i \in 1 .. Len(stored) : stored'[i] = stored[i]
      /\ StoredInv' /\ Stands(begun, hooked)'
  BY <1>1, <1>2, StoreKeepsOrder
<1>4. /\ \A t, place : IsStored(t, place) => IsStored(t, place)'
      /\ \A t : LastPlace(t)' = LastPlace(t) /\ HookedLength(t)' = HookedLength(t)
      /\ TailStartsWithATurn'
  BY <1>3, StoringKeepsWhatIsStored DEF Typed, TypeOK
<1>5. Typed'
  <2>1. Len(stored) \in Nat /\ from \in 0 .. Len(stored)'
    BY <1>3, LenProperties DEF Typed, TypeOK
  <2> QED
    BY <1>3, <2>1 DEF Typed, TypeOK
<1>6. OpenTurn'
  BY <1>1, <1>3, <1>4 DEF OpenTurn
<1>7. QueuedTurn'
  BY <1>1 DEF QueuedTurn
<1>8. SettledAreEnded'
  BY <1>4 DEF SettledAreEnded
<1>9. ClaimedAreEnded'
  BY <1>4 DEF ClaimedAreEnded, AdvancementKey, QueueKey, Has
<1> QED
  BY <1>3, <1>4, <1>5, <1>6, <1>7, <1>8, <1>9

LEMMA CloseTurnIsGood ==
    ASSUME TurnRecordingConstants, QuietServer, IInv, CloseTurn PROVE IInv'
<1> USE DEF IInv, CloseTurn, pluginVars, serverVars
<1>1. /\ open = begun /\ begun \in Nat /\ begun # 0 /\ begun \in Turns
      /\ Stands(begun, hooked) /\ hooked = LastPlace(begun) - 1
      /\ queue = <<>> /\ call.pc = "idle" /\ hook = FALSE
  BY NumbersOfTurns DEF OpenTurn
<1>2. queue' = <<begun>> /\ queue' \in Seq(1 .. begun)
  BY <1>1
<1>3. Typed'
  BY <1>1, <1>2 DEF Typed, TypeOK, TurnRecordingConstants
<1>4. StoredInv' /\ Stands(begun, LastPlace(begun) - 1)'
  <2>1. begun' \in Nat /\ begun <= begun' /\ UNCHANGED <<script, stored>>
    BY <1>1
  <2>2. StoredInv'
    BY <2>1, NothingStoredKeeps
  <2>3. Stands(begun, LastPlace(begun) - 1)'
    BY <1>1 DEF Stands, LastPlace
  <2> QED
    BY <2>2, <2>3
<1>5. TailStartsWithATurn'
  BY DEF TailStartsWithATurn
<1>6. OpenTurn'
  BY <1>1 DEF OpenTurn
<1>7. QueuedTurn'
  BY <1>1, <1>2, <1>4 DEF QueuedTurn
<1>8. SettledAreEnded' /\ ClaimedAreEnded'
  BY DEF SettledAreEnded, ClaimedAreEnded, IsStored, LastPlace, AdvancementKey, QueueKey, Has
<1> QED
  BY <1>3, <1>4, <1>5, <1>6, <1>7, <1>8

---------------------------------------------------------------------------
LEMMA TheQueuedTurn ==
    ASSUME TurnRecordingConstants, IInv, queue # <<>>
    PROVE  /\ queue = <<begun>> /\ Head(queue) = begun /\ Tail(queue) = <<>>
           /\ begun \in Nat /\ begun \in Turns /\ begun \in 1 .. begun
           /\ open = 0 /\ ~hook
           /\ LastPlace(begun) \in Nat /\ LastPlace(begun) >= 2
           /\ LastPlace(begun) <= MaxRounds + 2 /\ MaxRounds \in Nat
           /\ Len(Messages(begun)) = LastPlace(begun)
<1>1. /\ queue = <<begun>> /\ begun \in Nat /\ begun \in Turns /\ begun \in 1 .. begun
      /\ open = 0 /\ ~hook /\ MaxRounds \in Nat
  BY DEF IInv, QueuedTurn, OpenTurn, Typed, TypeOK, TurnRecordingConstants, Turns
<1>2. /\ LastPlace(begun) \in Nat /\ LastPlace(begun) >= 2
      /\ LastPlace(begun) <= MaxRounds + 2
      /\ Len(Messages(begun)) = LastPlace(begun)
  BY <1>1, MessagesOfATurn DEF IInv
<1> QED
  BY <1>1, <1>2

LEMMA AnsweringTheQueuedTurn ==
    ASSUME TurnRecordingConstants, IInv, queue # <<>>, Answered(begun)
    PROVE  /\ queue' = <<>> \/ queue' = queue
           /\ queue' \in Seq(1 .. begun)
           /\ settled' \subseteq settled \cup {begun}
<1>1. queue = <<begun>> /\ Head(queue) = begun /\ Tail(queue) = <<>> /\ begun \in 1 .. begun
  BY TheQueuedTurn
<1>2. Without(queue, begun) = <<>>
  BY <1>1 DEF Without
<1>3. queue' = <<>> \/ queue' = queue
  BY <1>2 DEF Answered
<1>4. settled' \subseteq settled \cup {begun}
  BY DEF Answered
<1>5. queue \in Seq(1 .. begun) /\ <<>> \in Seq(1 .. begun)
  BY EmptySeq DEF IInv, Typed, TypeOK
<1> QED
  BY <1>3, <1>4, <1>5

LEMMA CommitDuplicateIsGood ==
    ASSUME TurnRecordingConstants, QuietServer, IInv, CommitDuplicate PROVE IInv'
<1> DEFINE t == Head(queue)
<1>1. /\ t = begun /\ begun \in Nat /\ begun \in 1 .. begun /\ begun \in Turns /\ open = 0 /\ ~hook
      /\ queue = <<begun>>
  BY TheQueuedTurn DEF CommitDuplicate
<1>2. /\ IsDuplicate(begun)
      /\ claims' = IF Has(claims, AdvancementKey(begun)) THEN claims
                   ELSE Claimed(claims, AdvancementKey(begun))
      /\ Answered(begun)
      /\ UNCHANGED <<script, begun, open, hooked, hook, call, stored, from>>
      /\ call.pc = "idle" /\ queue # <<>>
  BY <1>1 DEF CommitDuplicate, QuietServer, Fails, serverVars
<1>3. /\ AdvancementKey(begun) \in ClaimKeys
      /\ claims \in Seq(ClaimKeys) /\ Len(claims) <= ClaimLimit
  BY <1>1 DEF AdvancementKey, ClaimKeys, IInv, Typed, TypeOK
<1>4. /\ claims' \in Seq(ClaimKeys) /\ Len(claims') <= ClaimLimit
      /\ \A other : Has(claims', other) => Has(claims, other) \/ other = AdvancementKey(begun)
  BY <1>2, <1>3, ClaimingAdds
<1>5. Has(claims, AdvancementKey(begun)) \/ Has(claims, QueueKey(begun))
  <2>1. QueueKey(begun) # AdvancementKey(begun)
    BY DEF QueueKey, AdvancementKey
  <2>2. Has(Claimed(claims, AdvancementKey(begun)), QueueKey(begun)) => Has(claims, QueueKey(begun))
    BY <2>1, <1>3, ClaimingAdds
  <2> QED
    BY <2>2, <1>2 DEF IsDuplicate
<1>6. IsStored(begun, LastPlace(begun))
  BY <1>1, <1>2, <1>5 DEF IInv, ClaimedAreEnded
<1>7. /\ queue' = <<>> \/ queue' = queue
      /\ queue' \in Seq(1 .. begun)
      /\ settled' \subseteq settled \cup {begun}
  BY <1>2, AnsweringTheQueuedTurn
<1>8. Typed'
  BY <1>1, <1>2, <1>4, <1>7 DEF IInv, Typed, TypeOK
<1>9. /\ StoredInv' /\ TailStartsWithATurn'
      /\ \A x : LastPlace(x)' = LastPlace(x)
      /\ \A x, place : IsStored(x, place)' = IsStored(x, place)
  BY <1>1, <1>2, NothingStoredKeeps DEF IInv, TailStartsWithATurn
<1>10. OpenTurn'
  BY <1>1, <1>2 DEF OpenTurn
<1>11. QueuedTurn'
  BY <1>1, <1>2, <1>7 DEF IInv, QueuedTurn, Stands, LastPlace
<1>12. SettledAreEnded'
  BY <1>6, <1>7, <1>9 DEF IInv, SettledAreEnded
<1>13. ClaimedAreEnded'
  <2> SUFFICES ASSUME NEW x \in Turns, (Has(claims, AdvancementKey(x)) \/ Has(claims, QueueKey(x)))'
               PROVE  IsStored(x, LastPlace(x))
    BY <1>9 DEF ClaimedAreEnded
  <2>1. Has(claims, AdvancementKey(x)) \/ Has(claims, QueueKey(x)) \/ x = begun
    BY <1>4 DEF AdvancementKey, QueueKey
  <2> QED
    BY <2>1, <1>2, <1>6 DEF IInv, ClaimedAreEnded
<1> QED
  BY <1>8, <1>9, <1>10, <1>11, <1>12, <1>13 DEF IInv

LEMMA CommitStartsIsGood ==
    ASSUME TurnRecordingConstants, QuietServer, IInv, CommitStarts PROVE IInv'
<1>1. /\ Head(queue) = begun /\ begun \in Nat /\ begun \in Turns /\ begun \in 1 .. begun
      /\ open = 0 /\ ~hook /\ queue = <<begun>> /\ queue # <<>>
  BY TheQueuedTurn DEF CommitStarts
<1>2. /\ claims' = Claimed(Claimed(claims, AdvancementKey(begun)), QueueKey(begun))
      /\ call' = [pc |-> "read", turn |-> begun, next |-> 0]
      /\ UNCHANGED <<script, begun, open, hooked, queue, settled, hook, stored, from>>
  BY <1>1 DEF CommitStarts, IdleCall, hostVars, serverVars
<1>3. /\ AdvancementKey(begun) \in ClaimKeys /\ QueueKey(begun) \in ClaimKeys
      /\ claims \in Seq(ClaimKeys) /\ Len(claims) <= ClaimLimit
  BY <1>1 DEF AdvancementKey, QueueKey, ClaimKeys, IInv, Typed, TypeOK
<1>4. /\ claims' \in Seq(ClaimKeys) /\ Len(claims') <= ClaimLimit
      /\ \A other : Has(claims', other) =>
            Has(claims, other) \/ other = AdvancementKey(begun) \/ other = QueueKey(begun)
  <2> DEFINE withKey == Claimed(claims, AdvancementKey(begun))
  <2>1. /\ withKey \in Seq(ClaimKeys) /\ Len(withKey) <= ClaimLimit
        /\ \A other : Has(withKey, other) => Has(claims, other) \/ other = AdvancementKey(begun)
    BY <1>3, ClaimingAdds
  <2>2. claims' = Claimed(withKey, QueueKey(begun))
    BY <1>2
  <2> HIDE DEF withKey
  <2> QED
    BY <2>1, <2>2, <1>3, ClaimingAdds
<1>5. Typed'
  <2>1. call' \in [pc : {"idle", "read", "write"}, turn : 0 .. begun, next : 0 .. MaxRounds + 2]
    BY <1>1, <1>2 DEF TurnRecordingConstants
  <2> QED
    BY <2>1, <1>2, <1>4 DEF IInv, Typed, TypeOK
<1>6. StoredInv' /\ TailStartsWithATurn'
  BY <1>1, <1>2, NothingStoredKeeps DEF IInv, TailStartsWithATurn
<1>7. OpenTurn'
  BY <1>1, <1>2 DEF OpenTurn
<1>8. QueuedTurn'
  BY <1>1, <1>2 DEF IInv, QueuedTurn, Stands, LastPlace
<1>9. SettledAreEnded'
  BY <1>2 DEF IInv, SettledAreEnded, IsStored, LastPlace
<1>10. ClaimedAreEnded'
  <2> SUFFICES ASSUME NEW x \in Turns, (Has(claims, AdvancementKey(x)) \/ Has(claims, QueueKey(x)))',
                      x # begun
               PROVE  IsStored(x, LastPlace(x))
    BY <1>2 DEF ClaimedAreEnded, IsStored, LastPlace
  <2>1. Has(claims, AdvancementKey(x)) \/ Has(claims, QueueKey(x))
    BY <1>4 DEF AdvancementKey, QueueKey
  <2>2. call.pc = "idle"
    BY DEF CommitStarts
  <2> QED
    BY <2>1, <2>2 DEF IInv, ClaimedAreEnded
<1> QED
  BY <1>5, <1>6, <1>7, <1>8, <1>9, <1>10 DEF IInv

LEMMA TheCallIsOver ==
    ASSUME TurnRecordingConstants, IInv, queue # <<>>, Answered(begun), call' = IdleCall,
           stored' \in Seq(Recorded), StoredInv', TailStartsWithATurn', from \in 0 .. Len(stored'),
           \A t, place : IsStored(t, place) => IsStored(t, place)',
           Stands(begun, LastPlace(begun))', IsStored(begun, LastPlace(begun))',
           UNCHANGED <<script, begun, open, hooked, hook, claims, from>>,
           call.pc # "idle" => call.turn = begun
    PROVE  IInv'
<1>1. /\ begun \in Nat /\ begun \in Turns /\ begun \in 1 .. begun /\ open = 0 /\ ~hook
      /\ queue = <<begun>>
  BY TheQueuedTurn
<1>2. /\ queue' = <<>> \/ queue' = queue
      /\ queue' \in Seq(1 .. begun)
      /\ settled' \subseteq settled \cup {begun}
  BY AnsweringTheQueuedTurn
<1>3. Typed'
  <2>1. call' \in [pc : {"idle", "read", "write"}, turn : 0 .. begun, next : 0 .. MaxRounds + 2]
    BY <1>1 DEF IdleCall, TurnRecordingConstants
  <2> QED
    BY <2>1, <1>1, <1>2 DEF IInv, Typed, TypeOK
<1>4. call'.pc = "idle"
  BY DEF IdleCall
<1>5. OpenTurn'
  BY <1>1 DEF OpenTurn
<1>6. QueuedTurn'
  BY <1>1, <1>2, <1>4 DEF QueuedTurn
<1>7. \A x : LastPlace(x)' = LastPlace(x)
  BY DEF LastPlace
<1>8. SettledAreEnded'
  BY <1>2, <1>7 DEF IInv, SettledAreEnded
<1>9. ClaimedAreEnded'
  BY <1>7 DEF IInv, ClaimedAreEnded, AdvancementKey, QueueKey, Has
<1> QED
  BY <1>3, <1>5, <1>6, <1>8, <1>9 DEF IInv

LEMMA CommitReadsIsGood ==
    ASSUME TurnRecordingConstants, IInv, CommitReads PROVE IInv' /\ SkipsItsOwn
<1>1. /\ queue # <<>> /\ call.turn = begun /\ call.pc # "idle"
      /\ Stands(begun, LastPlace(begun) - 1) \/ Stands(begun, LastPlace(begun))
  BY DEF CommitReads, IInv, QueuedTurn
<1>2. /\ begun \in Nat /\ begun \in Turns /\ begun \in 1 .. begun /\ open = 0 /\ ~hook
      /\ queue = <<begun>>
      /\ LastPlace(begun) \in Nat /\ LastPlace(begun) >= 2
      /\ LastPlace(begun) <= MaxRounds + 2 /\ MaxRounds \in Nat
      /\ Len(Messages(begun)) = LastPlace(begun)
  BY <1>1, TheQueuedTurn
<1>3. /\ RecordFrom(RecordedPrefixLength(Messages(begun), ServerTail) + 1)
      /\ UNCHANGED <<script, begun, open, hooked, hook, claims, stored, from>>
  BY <1>1 DEF CommitReads, serverVars
<1>4. CASE Stands(begun, LastPlace(begun))
  <2>1. RecordedPrefixLength(Messages(begun), ServerTail) = LastPlace(begun)
    BY <1>2, <1>4, SkipsWhatStands DEF IInv
  <2>2. call' = IdleCall /\ Answered(begun)
    BY <2>1, <1>1, <1>2, <1>3 DEF RecordFrom
  <2>3. \A place \in 1 .. LastPlace(begun) : IsStored(begun, place)
    BY <1>2, <1>4, StandingIsStored DEF IInv
  <2>4. /\ StoredInv' /\ TailStartsWithATurn' /\ stored' \in Seq(Recorded)
        /\ from \in 0 .. Len(stored')
        /\ \A t, place : IsStored(t, place) => IsStored(t, place)'
    BY <1>2, <1>3, NothingStoredKeeps DEF IInv, TailStartsWithATurn, Typed, TypeOK
  <2>5. Stands(begun, LastPlace(begun))' /\ IsStored(begun, LastPlace(begun))'
    BY <1>2, <1>3, <1>4, <2>3 DEF Stands, IsStored, LastPlace
  <2>6. IInv'
    BY <1>1, <1>3, <2>2, <2>4, <2>5, TheCallIsOver
  <2>7. SkipsItsOwn
    BY <1>1, <1>2, <2>2, <2>3 DEF SkipsItsOwn, IdleCall
  <2> QED
    BY <2>6, <2>7
<1>5. CASE Stands(begun, LastPlace(begun) - 1)
  <2>1. RecordedPrefixLength(Messages(begun), ServerTail) = LastPlace(begun) - 1
    BY <1>2, <1>5, SkipsWhatStands DEF IInv
  <2>a. RecordFrom(LastPlace(begun)) /\ ~(LastPlace(begun) > Len(Messages(call.turn)))
    <3>1. (LastPlace(begun) - 1) + 1 = LastPlace(begun)
      BY <1>2
    <3> QED
      BY <3>1, <2>1, <1>1, <1>2, <1>3
  <2>2. /\ call' = [call EXCEPT !.pc = "write", !.next = LastPlace(begun)]
        /\ UNCHANGED <<queue, settled>>
    BY <2>a, Zenon DEF RecordFrom
  <2>3. call' = [pc |-> "write", turn |-> begun, next |-> LastPlace(begun)]
    BY <2>2, <1>1 DEF IInv, Typed, TypeOK
  <2>4. \A place \in 1 .. LastPlace(begun) - 1 : IsStored(begun, place)
    BY <1>2, <1>5, StandingIsStored DEF IInv
  <2>5. /\ StoredInv' /\ TailStartsWithATurn'
        /\ Stands(begun, LastPlace(begun) - 1)' /\ LastPlace(begun)' = LastPlace(begun)
    <3>1. StoredInv' /\ TailStartsWithATurn'
      BY <1>2, <1>3, NothingStoredKeeps DEF IInv, TailStartsWithATurn
    <3> QED
      BY <3>1, <1>3, <1>5 DEF Stands, LastPlace
  <2>6. Typed'
    <3>1. call' \in [pc : {"idle", "read", "write"}, turn : 0 .. begun, next : 0 .. MaxRounds + 2]
      BY <2>3, <1>2
    <3> QED
      BY <3>1, <2>2, <1>3 DEF IInv, Typed, TypeOK
  <2>7. OpenTurn'
    BY <1>2, <1>3 DEF OpenTurn
  <2>8. QueuedTurn'
    <3>1. /\ queue' = <<begun'>> /\ begun' # 0 /\ open' = 0 /\ queue' # <<>>
          /\ call'.turn = begun' /\ call'.next = LastPlace(begun)'
      BY <1>1, <1>2, <1>3, <2>2, <2>3, <2>5
    <3> QED
      BY <3>1, <2>5 DEF QueuedTurn
  <2>9. SettledAreEnded'
    BY <1>3, <2>2 DEF IInv, SettledAreEnded, IsStored, LastPlace
  <2>10. ClaimedAreEnded'
    BY <1>1, <1>3, <2>3 DEF IInv, ClaimedAreEnded, IsStored, LastPlace,
       AdvancementKey, QueueKey, Has
  <2>11. SkipsItsOwn
    BY <1>1, <2>3, <2>4 DEF SkipsItsOwn
  <2> QED
    BY <2>5, <2>6, <2>7, <2>8, <2>9, <2>10, <2>11 DEF IInv
<1> QED
  BY <1>1, <1>4, <1>5

LEMMA TheAnswerIsStored ==
    ASSUME TurnRecordingConstants, IInv, call.pc = "write", Store(call.turn, call.next),
           call' = IdleCall, Answered(call.turn),
           UNCHANGED <<script, begun, open, hooked, hook, claims, from>>
    PROVE  IInv'
<1>1. /\ queue # <<>> /\ call.turn = begun /\ call.pc # "idle"
      /\ call.next = LastPlace(begun) /\ Stands(begun, LastPlace(begun) - 1)
  BY DEF IInv, QueuedTurn
<1>2. /\ begun \in Nat /\ begun \in Turns
      /\ LastPlace(begun) \in Nat /\ LastPlace(begun) >= 2
      /\ LastPlace(begun) \in 1 .. LastPlace(begun)
  BY <1>1, TheQueuedTurn
<1>3. /\ stored' \in Seq(Recorded) /\ Len(stored') = Len(stored) + 1
      /\ \A i \in 1 .. Len(stored) : stored'[i] = stored[i]
      /\ StoredInv' /\ Stands(begun, LastPlace(begun))'
  <2>1. Store(begun, LastPlace(begun))
    BY <1>1
  <2> DEFINE place == LastPlace(begun)
  <2>2. place \in 1 .. LastPlace(begun) /\ place' = place
    BY <1>2 DEF LastPlace
  <2> QED
    BY <1>1, <1>2, <2>1, <2>2, StoreKeepsOrder DEF IInv
<1>4. /\ \A t, k : IsStored(t, k) => IsStored(t, k)'
      /\ TailStartsWithATurn' /\ from \in 0 .. Len(stored')
  BY <1>3, StoringKeepsWhatIsStored, LenProperties DEF IInv, Typed, TypeOK
<1>5. IsStored(begun, LastPlace(begun))'
  <2>1. /\ Len(stored') \in 1 .. Len(stored')
        /\ stored'[Len(stored')].turn = begun'
        /\ stored'[Len(stored')].place = LastPlace(begun)'
    <3>1. Len(stored) \in Nat /\ LastPlace(begun)' = LastPlace(begun)
      BY LenProperties DEF IInv, Typed, LastPlace
    <3> QED
      BY <3>1, <1>2, <1>3 DEF Stands
  <2> QED
    BY <2>1 DEF IsStored
<1> QED
  BY <1>1, <1>3, <1>4, <1>5, TheCallIsOver

LEMMA CommitRecordsIsGood ==
    ASSUME TurnRecordingConstants, IInv, CommitRecords PROVE IInv'
<1>1. /\ queue # <<>> /\ call.turn = begun /\ call.next = LastPlace(begun)
  BY DEF IInv, QueuedTurn, CommitRecords
<1>2. Len(Messages(begun)) = LastPlace(begun) /\ LastPlace(begun) \in Nat
  BY <1>1, TheQueuedTurn
<1>3. call' = IdleCall /\ Answered(call.turn)
  BY <1>1, <1>2 DEF CommitRecords, RecordFrom
<1> QED
  BY <1>3, TheAnswerIsStored DEF CommitRecords

LEMMA AroundTheRecordingIsGood ==
    ASSUME TurnRecordingConstants, IInv, PourOffStands \/ Restart PROVE IInv'
<1>0. begun \in Nat
  BY DEF IInv, Typed, TypeOK, TurnRecordingConstants
<1>1. CASE PourOffStands
  <2> USE DEF pluginVars, hostVars
  <2>1. PICK s \in from + 1 .. Len(stored) - 1 : stored[s + 1].key[1] = "user" /\ from' = s
    BY <1>1 DEF PourOffStands
  <2>2. UNCHANGED <<hook, call, claims, script, begun, open, hooked, queue, settled, stored>>
    BY <1>1 DEF PourOffStands
  <2>3. s \in Nat /\ s < Len(stored) /\ s + 1 \in 1 .. Len(stored) /\ Len(stored) \in Nat
    BY LenProperties DEF IInv, Typed, TypeOK
  <2>t. 1 .. begun \subseteq Turns
    BY DEF IInv, Typed, TypeOK, Turns, TurnRecordingConstants
  <2>4. /\ stored[s + 1].turn \in Turns
        /\ stored[s + 1].place \in 1 .. LastPlace(stored[s + 1].turn)
        /\ stored[s + 1].key = KeyOf(stored[s + 1].turn, stored[s + 1].place)
    BY <2>3, <2>t DEF IInv, StoredInv, StoredAreMessages
  <2>5. stored[s + 1].place = 1
    BY <2>1, <2>4, KeysTellPlaces DEF IInv
  <2>6. TailStartsWithATurn'
    BY <2>1, <2>2, <2>3, <2>5 DEF TailStartsWithATurn
  <2>7. Typed'
    BY <2>1, <2>2, <2>3 DEF IInv, Typed, TypeOK
  <2>8. StoredInv'
    BY <2>2, <1>0, NothingStoredKeeps DEF IInv
  <2>9. OpenTurn'
    BY <2>2 DEF IInv, OpenTurn, HookedLength, Stands
  <2>10. QueuedTurn'
    BY <2>2 DEF IInv, QueuedTurn, LastPlace, Stands
  <2>11. SettledAreEnded' /\ ClaimedAreEnded'
    BY <2>2 DEF IInv, SettledAreEnded, ClaimedAreEnded, IsStored, LastPlace, Has,
                AdvancementKey, QueueKey
  <2> QED
    BY <2>6, <2>7, <2>8, <2>9, <2>10, <2>11 DEF IInv
<1>2. CASE Restart
  <2>1. /\ hook' = FALSE /\ call' = IdleCall /\ claims' = <<>> /\ open' = 0 /\ hooked' = 0
        /\ UNCHANGED <<script, begun, queue, settled, stored, from>>
    BY <1>2 DEF Restart, serverVars
  <2>2. claims' \in Seq(ClaimKeys) /\ Len(claims') = 0
    BY <2>1, EmptySeq
  <2>3. call' \in [pc : {"idle", "read", "write"}, turn : 0 .. begun, next : 0 .. MaxRounds + 2]
    BY <2>1, <1>0 DEF IdleCall, TurnRecordingConstants
  <2>4. /\ open' \in 0 .. begun' /\ hooked' \in 0 .. MaxRounds + 1 /\ Len(claims') <= ClaimLimit
    BY <2>1, <2>2, <1>0 DEF TurnRecordingConstants
  <2>5. Typed'
    BY <2>1, <2>2, <2>3, <2>4 DEF IInv, Typed, TypeOK
  <2>6. StoredInv' /\ TailStartsWithATurn'
    BY <2>1, <1>0, NothingStoredKeeps DEF IInv, TailStartsWithATurn
  <2>7. OpenTurn'
    BY <2>1 DEF OpenTurn
  <2>8. QueuedTurn'
    BY <2>1 DEF IInv, QueuedTurn, LastPlace, Stands, IdleCall
  <2>9. SettledAreEnded'
    BY <2>1 DEF IInv, SettledAreEnded, IsStored, LastPlace
  <2>10. ClaimedAreEnded'
    BY <2>2 DEF ClaimedAreEnded, Has
  <2> QED
    BY <2>5, <2>6, <2>7, <2>8, <2>9, <2>10 DEF IInv
<1> QED
  BY <1>1, <1>2

LEMMA StepIsGood ==
    ASSUME TurnRecordingConstants, QuietServer, IInv, [Next]_vars PROVE IInv' /\ SkipsItsOwn
<1> USE DEF QuietServer, Fails
<1>1. ASSUME CommitReads PROVE IInv' /\ SkipsItsOwn
  BY <1>1, CommitReadsIsGood
<1>2. ASSUME BeginTurn PROVE IInv'
  BY <1>2, BeginTurnIsGood
<1>3. ASSUME HookCalled PROVE IInv'
  BY <1>3, HookCalledIsGood
<1>4. ASSUME HookRecords \/ HookRecordFails PROVE IInv'
  BY <1>4, HookStoresIsGood DEF HookRecords, HookRecordFails
<1>5. ASSUME CloseTurn PROVE IInv'
  BY <1>5, CloseTurnIsGood
<1>6. ASSUME CommitDuplicate PROVE IInv'
  BY <1>6, CommitDuplicateIsGood
<1>7. ASSUME CommitStarts PROVE IInv'
  BY <1>7, CommitStartsIsGood
<1>8. ASSUME CommitReadFails \/ CompactionStands PROVE IInv'
  BY <1>8 DEF CommitReadFails, CompactionStands
<1>9. ASSUME CommitRecords PROVE IInv'
  BY <1>9, CommitRecordsIsGood
<1>10. ASSUME CommitRecordFails PROVE IInv'
  BY <1>10, TheAnswerIsStored DEF CommitRecordFails
<1>11. ASSUME PourOffStands \/ Restart PROVE IInv'
  BY <1>11, AroundTheRecordingIsGood
<1>12. ASSUME UNCHANGED vars PROVE IInv'
  <2>1. UNCHANGED <<hook, call, claims, script, begun, open, hooked, queue, settled, stored, from>>
    BY <1>12 DEF vars, pluginVars, hostVars, serverVars
  <2>2. begun \in Nat
    BY DEF IInv, Typed, TypeOK, TurnRecordingConstants
  <2>3. StoredInv'
    BY <2>1, <2>2, NothingStoredKeeps DEF IInv
  <2>4. Typed' /\ TailStartsWithATurn'
    BY <2>1 DEF IInv, Typed, TypeOK, TailStartsWithATurn
  <2>5. OpenTurn' /\ QueuedTurn'
    BY <2>1 DEF IInv, OpenTurn, QueuedTurn, Stands, LastPlace, HookedLength
  <2>6. SettledAreEnded' /\ ClaimedAreEnded'
    BY <2>1 DEF IInv, SettledAreEnded, ClaimedAreEnded, IsStored, LastPlace, Has,
       AdvancementKey, QueueKey
  <2> QED
    BY <2>3, <2>4, <2>5, <2>6 DEF IInv
<1>13. IInv'
  BY <1>1, <1>2, <1>3, <1>4, <1>5, <1>6, <1>7, <1>8, <1>9, <1>10, <1>11, <1>12
     DEF Next, CommitStep
<1>14. SkipsItsOwn
  BY <1>1 DEF SkipsItsOwn
<1> QED
  BY <1>13, <1>14

LEMMA StoredIsGood == ASSUME TurnRecordingConstants, IInv PROVE EachMessageOnce /\ StoredInOrder
<1>1. \A i, j \in 1 .. Len(stored) :
         /\ i \in Int /\ j \in Int
         /\ stored[i].turn \in Nat /\ stored[i].place \in Nat
         /\ stored[j].turn \in Nat /\ stored[j].place \in Nat
  <2>1. \A i \in 1 .. Len(stored) : stored[i] \in Recorded
    BY ElementOfSeq DEF IInv, Typed
  <2>2. \A i \in 1 .. Len(stored) : stored[i].turn \in Nat /\ stored[i].place \in Nat
    BY <2>1 DEF Recorded
  <2>3. \A i \in 1 .. Len(stored) : i \in Int
    OBVIOUS
  <2> QED
    BY <2>2, <2>3
<1>2. StoredInOrder
  BY <1>1 DEF IInv, StoredInv, StoredOneByOne, Before, StoredInOrder
<1>3. EachMessageOnce
  BY <1>1 DEF IInv, StoredInv, StoredOneByOne, Before, EachMessageOnce
<1> QED
  BY <1>2, <1>3

LEMMA SettledIsGood == ASSUME TurnRecordingConstants, IInv PROVE SettledTurnsAreWhole
<1> SUFFICES ASSUME NEW t \in settled, NEW place \in 1 .. Len(Messages(t))
             PROVE  IsStored(t, place)
  BY DEF SettledTurnsAreWhole
<1>1. t \in Turns
  BY DEF IInv, Typed, TypeOK, TurnRecordingConstants, Turns
<1>2. Len(Messages(t)) = LastPlace(t) /\ LastPlace(t) \in Nat
  BY <1>1, MessagesOfATurn DEF IInv, TurnRecordingConstants
<1>3. PICK i \in 1 .. Len(stored) : stored[i].turn = t /\ stored[i].place = LastPlace(t)
  BY DEF IInv, SettledAreEnded, IsStored
<1> DEFINE back == LastPlace(t) - place
<1>4. back \in 0 .. stored[i].place - 1 /\ Len(stored) \in Nat
  BY <1>2, <1>3, LenProperties DEF IInv, Typed
<1>5. /\ i - back >= 1 /\ stored[i - back].turn = t
      /\ stored[i - back].place = LastPlace(t) - back
  BY <1>3, <1>4 DEF IInv, StoredInv, StoredWithoutGaps
<1>6. i - back \in 1 .. Len(stored) /\ LastPlace(t) - back = place
  BY <1>2, <1>3, <1>4, <1>5
<1> QED
  BY <1>5, <1>6 DEF IsStored

LEMMA InvariantHolds == ASSUME TurnRecordingConstants, QuietServer PROVE Spec => []IInv
<1>1. Init => IInv
  BY InitIsGood
<1>2. IInv /\ [Next]_vars => IInv'
  BY StepIsGood
<1> QED
  BY <1>1, <1>2, PTL DEF Spec

---------------------------------------------------------------------------
(* Types, whatever fails and whether or not the host waits: the hook       *)
(* brings messages of the open turn, a call records messages of its own.   *)
InRange ==
    /\ hook => open # 0 /\ hooked \in 1 .. HookedLength(open)
    /\ call.pc = "idle" => call.turn = 0
    /\ call.pc # "idle" => call.turn # 0
    /\ call.pc = "write" => call.next \in 1 .. LastPlace(call.turn)

TypesInv == Typed /\ InRange

LEMMA HasLeast ==
    ASSUME NEW S, S \subseteq Nat, S # {}
    PROVE  \E x \in S : \A y \in S : x <= y
<1>1. PICK x \in S : \A y \in S : ~(<<y, x>> \in OpToRel(<, Nat))
  BY NatLessThanWellFounded, WFMin
<1>2. \A y \in S : ~(y < x)
  BY <1>1 DEF OpToRel
<1> QED
  BY <1>2

(* recordedPrefixLength is of the turn and of the tail, and what it counts *)
(* compares equal.                                                         *)
LEMMA ThePrefixIsThere ==
    ASSUME NEW mine, NEW tail, Len(mine) \in Nat, Len(tail) \in Nat
    PROVE  /\ RecordedPrefixLength(mine, tail) \in 0 .. Len(mine)
           /\ RecordedPrefixLength(mine, tail) <= Len(tail)
           /\ EndsWithPrefix(tail, mine, RecordedPrefixLength(mine, tail))
<1> DEFINE n == Len(mine)
           Fits(k) == k <= Len(tail) /\ EndsWithPrefix(tail, mine, k)
           Longest(k) == /\ k <= Len(tail) /\ EndsWithPrefix(tail, mine, k)
                         /\ \A j \in k + 1 .. Len(mine) :
                               j <= Len(tail) => ~EndsWithPrefix(tail, mine, j)
           D == {d \in 0 .. n : Fits(n - d)}
<1>1. n \in D
  BY DEF EndsWithPrefix
<1>2. D \subseteq Nat
  OBVIOUS
<1>3. PICK d \in D : \A e \in D : d <= e
  BY <1>1, <1>2, HasLeast
<1>4. n - d \in 0 .. n /\ Fits(n - d)
  OBVIOUS
<1>5. ASSUME NEW j \in (n - d) + 1 .. n, Fits(j)
      PROVE  FALSE
  <2>1. n - j \in 0 .. n /\ n - (n - j) = j /\ n - j < d
    OBVIOUS
  <2>2. n - j \in D
    BY <2>1, <1>5
  <2> QED
    BY <2>1, <2>2, <1>3
<1>6. Longest(n - d)
  BY <1>4, <1>5
<1>7. RecordedPrefixLength(mine, tail) = CHOOSE k \in 0 .. Len(mine) : Longest(k)
  BY DEF RecordedPrefixLength
<1>8. \E k \in 0 .. Len(mine) : Longest(k)
  BY <1>4, <1>6
<1> HIDE DEF Longest, D
<1>9. /\ RecordedPrefixLength(mine, tail) \in 0 .. Len(mine)
      /\ Longest(RecordedPrefixLength(mine, tail))
  BY <1>7, <1>8
<1> QED
  BY <1>9 DEF Longest

(* addSessionMessage of any message of a turn that has begun.              *)
LEMMA StoringAMessage ==
    ASSUME TurnRecordingConstants, Typed, NEW t \in Turns, NEW place \in 1 .. LastPlace(t),
           Store(t, place), UNCHANGED <<script, from>>
    PROVE  /\ stored' \in Seq(Recorded)
           /\ Len(stored') = Len(stored) + 1 /\ Len(stored) \in Nat
           /\ \A i \in 1 .. Len(stored) : stored'[i] = stored[i]
           /\ stored'[Len(stored) + 1] = [turn |-> t, place |-> place, key |-> KeyOf(t, place)]
           /\ from' \in 0 .. Len(stored')
           /\ \A x, p : IsStored(x, p) => IsStored(x, p)'
           /\ \E i \in 1 .. Len(stored') : stored'[i].turn = t /\ stored'[i].place = place
           /\ stored' # <<>> /\ stored'[Len(stored')].turn = t
<1> DEFINE new == [turn |-> t, place |-> place, key |-> KeyOf(t, place)]
<1>0. t \in Nat /\ place \in Nat /\ LastPlace(t) \in Nat
  BY MessagesOfATurn DEF TurnRecordingConstants, Turns
<1>1. stored' = Append(stored, new)
  BY MessagesOfATurn DEF Store
<1>2. new \in Recorded
  BY <1>0, MessagesOfATurn DEF Recorded
<1>3. new.turn = t /\ new.place = place
  OBVIOUS
<1>n. new = [turn |-> t, place |-> place, key |-> KeyOf(t, place)]
  OBVIOUS
<1> HIDE DEF new
<1>4. /\ stored \in Seq(Recorded) /\ stored' \in Seq(Recorded)
      /\ Len(stored) \in Nat /\ Len(stored') = Len(stored) + 1
      /\ \A i \in 1 .. Len(stored) : stored'[i] = stored[i]
      /\ stored'[Len(stored) + 1] = new
      /\ stored' # <<>>
  BY <1>1, <1>2, AppendProperties, LenProperties DEF Typed
<1>5. from' \in 0 .. Len(stored')
  BY <1>4 DEF Typed, TypeOK
<1>6. \A x, p : IsStored(x, p) => IsStored(x, p)'
  BY <1>4 DEF IsStored
<1>7. Len(stored') \in 1 .. Len(stored') /\ stored'[Len(stored')] = new
  BY <1>4
<1> QED
  BY <1>3, <1>n, <1>4, <1>5, <1>6, <1>7

(* What is answered was in the queue, or its call was under way.           *)
LEMMA AnsweringKeepsTypes ==
    ASSUME TurnRecordingConstants, Typed, NEW t \in 1 .. begun, Answered(t), UNCHANGED begun
    PROVE  queue' \in Seq(1 .. begun') /\ settled' \subseteq 1 .. begun'
<1>1. queue \in Seq(1 .. begun) /\ settled \subseteq 1 .. begun
  BY DEF Typed, TypeOK
<1>2. queue # <<>> => Tail(queue) \in Seq(1 .. begun)
  BY <1>1, HeadTailProperties
<1>3. Without(queue, t) \in Seq(1 .. begun)
  BY <1>1, <1>2 DEF Without
<1> QED
  BY <1>1, <1>3 DEF Answered

LEMMA TheCallsTurn ==
    ASSUME TurnRecordingConstants, TypesInv, call.pc # "idle"
    PROVE  /\ call.turn \in 1 .. begun /\ call.turn \in Turns /\ begun \in Nat
           /\ LastPlace(call.turn) \in 2 .. MaxRounds + 2 /\ MaxRounds \in Nat
           /\ Len(Messages(call.turn)) = LastPlace(call.turn)
<1>1. call.turn \in 1 .. begun /\ call.turn \in Turns /\ begun \in Nat /\ MaxRounds \in Nat
  BY DEF TypesInv, InRange, Typed, TypeOK, TurnRecordingConstants, Turns
<1> QED
  BY <1>1, MessagesOfATurn DEF TypesInv

(* The next message to record is the turn's, or the call is over.          *)
LEMMA RecordingFrom ==
    ASSUME TurnRecordingConstants, TypesInv, call.pc # "idle", NEW place \in Nat, place >= 1,
           RecordFrom(place), UNCHANGED <<script, begun>>
    PROVE  /\ call' \in [pc : {"idle", "read", "write"}, turn : 0 .. begun',
                         next : 0 .. MaxRounds + 2]
           /\ queue' \in Seq(1 .. begun') /\ settled' \subseteq 1 .. begun'
           /\ \/ place > LastPlace(call.turn) /\ call' = IdleCall /\ Answered(call.turn)
              \/ /\ place \in 1 .. LastPlace(call.turn) /\ UNCHANGED <<queue, settled>>
                 /\ call'.pc = "write" /\ call'.turn = call.turn /\ call'.next = place
<1>1. /\ call.turn \in 1 .. begun /\ LastPlace(call.turn) \in 2 .. MaxRounds + 2
      /\ MaxRounds \in Nat /\ Len(Messages(call.turn)) = LastPlace(call.turn) /\ begun \in Nat
  BY TheCallsTurn
<1>2. CASE place > LastPlace(call.turn)
  <2>1. call' = IdleCall /\ Answered(call.turn)
    BY <1>1, <1>2 DEF RecordFrom
  <2>2. queue' \in Seq(1 .. begun') /\ settled' \subseteq 1 .. begun'
    BY <2>1, <1>1, AnsweringKeepsTypes DEF TypesInv
  <2> QED
    BY <2>1, <2>2, <1>1, <1>2 DEF IdleCall
<1>3. CASE ~(place > LastPlace(call.turn))
  <2>1. call' = [call EXCEPT !.pc = "write", !.next = place] /\ UNCHANGED <<queue, settled>>
    BY <1>1, <1>3, Zenon DEF RecordFrom
  <2>2. call' = [pc |-> "write", turn |-> call.turn, next |-> place]
    BY <2>1 DEF TypesInv, Typed, TypeOK
  <2>3. queue' \in Seq(1 .. begun') /\ settled' \subseteq 1 .. begun'
    BY <2>1 DEF TypesInv, Typed, TypeOK
  <2> QED
    BY <2>1, <2>2, <2>3, <1>1, <1>3
<1> QED
  BY <1>2, <1>3

LEMMA TheOpenTurn ==
    ASSUME TurnRecordingConstants, Typed, open # 0
    PROVE  open \in Turns /\ open \in Nat
  BY DEF Typed, TypeOK, TurnRecordingConstants, Turns

(* Every step keeps the types.                                             *)
LEMMA HookKeepsTypes ==
    ASSUME TurnRecordingConstants, TypesInv,
           HookCalled \/ HookRecords \/ HookRecordFails
    PROVE  TypesInv'
<1> USE DEF TypesInv
<1>0. \A t : LastPlace(t)' = LastPlace(t) /\ HookedLength(t)' = HookedLength(t)
  BY DEF HookCalled, HookRecords, HookRecordFails, hostVars, LastPlace, HookedLength
<1>1. CASE HookCalled
  <2>1. /\ open \in Turns /\ open \in Nat /\ hooked' = hooked + 1
        /\ hooked' \in 1 .. HookedLength(open) /\ hooked' \in 0 .. MaxRounds + 1
        /\ hooked' \in Nat
    <3>1. /\ hooked \in Nat /\ hooked < HookedLength(open) /\ hooked' = hooked + 1
          /\ open \in Turns /\ open \in Nat
      <4>1. hooked \in Nat /\ hooked < HookedLength(open) /\ hooked' = hooked + 1 /\ open # 0
        BY <1>1, NumbersOfTurns DEF HookCalled
      <4> QED
        BY <4>1, TheOpenTurn
    <3>2. HookedLength(open) \in 1 .. MaxRounds + 1 /\ MaxRounds \in Nat
      BY <3>1, NumbersOfTurns
    <3> QED
      BY <3>1, <3>2
  <2>2. HookKey(open, hooked') \in ClaimKeys
    BY <2>1 DEF HookKey, ClaimKeys
  <2>3. claims' \in Seq(ClaimKeys) /\ Len(claims') <= ClaimLimit
    BY <1>1, <2>2, ClaimingAdds DEF HookCalled, Typed, TypeOK
  <2>4. Typed'
    BY <1>1, <2>1, <2>3 DEF HookCalled, serverVars, Typed, TypeOK
  <2> QED
    BY <1>0, <1>1, <2>1, <2>4 DEF HookCalled, InRange
<1>2. CASE HookRecords \/ HookRecordFails
  <2>1. /\ hook /\ hook' = FALSE
        /\ UNCHANGED <<script, begun, open, hooked, queue, settled, call, claims, from>>
        /\ Store(open, hooked) \/ UNCHANGED stored
    BY <1>2 DEF HookRecords, HookRecordFails, hostVars
  <2>2. open \in Turns /\ hooked \in 1 .. LastPlace(open)
    <3>1. open \in Turns /\ hooked \in 1 .. HookedLength(open)
      BY <2>1, TheOpenTurn DEF InRange
    <3>2. HookedLength(open) \in Nat /\ LastPlace(open) = HookedLength(open) + 1
      BY <3>1, NumbersOfTurns
    <3> QED
      BY <3>1, <3>2
  <2>3. stored' \in Seq(Recorded) /\ from' \in 0 .. Len(stored')
    <3>1. CASE Store(open, hooked)
      BY <3>1, <2>1, <2>2, StoringAMessage
    <3>2. CASE UNCHANGED stored
      BY <3>2, <2>1 DEF Typed, TypeOK
    <3> QED
      BY <3>1, <3>2, <2>1
  <2>4. Typed'
    BY <2>1, <2>3 DEF Typed, TypeOK
  <2> QED
    BY <1>0, <2>1, <2>4 DEF InRange
<1> QED
  BY <1>1, <1>2

LEMMA QueueKeepsTypes ==
    ASSUME TurnRecordingConstants, TypesInv, CommitDuplicate \/ CommitStarts
    PROVE  TypesInv'
<1> USE DEF TypesInv
<1> DEFINE t == Head(queue)
<1>0. \A x : LastPlace(x)' = LastPlace(x) /\ HookedLength(x)' = HookedLength(x)
  BY DEF CommitDuplicate, CommitStarts, hostVars, LastPlace, HookedLength
<1>1. /\ t \in 1 .. begun /\ t \in Nat /\ t # 0 /\ t \in 0 .. begun
      /\ claims \in Seq(ClaimKeys) /\ Len(claims) <= ClaimLimit
  <2>1. queue \in Seq(1 .. begun) /\ queue # <<>> /\ begun \in Nat
    BY DEF CommitDuplicate, CommitStarts, Typed, TypeOK
  <2>2. t \in 1 .. begun
    BY <2>1, HeadTailProperties
  <2> QED
    BY <2>1, <2>2 DEF Typed, TypeOK
<1> HIDE DEF t
<1>2. AdvancementKey(t) \in ClaimKeys /\ QueueKey(t) \in ClaimKeys
  BY <1>1 DEF AdvancementKey, QueueKey, ClaimKeys
<1> DEFINE withKey == Claimed(claims, AdvancementKey(t))
<1>3. withKey \in Seq(ClaimKeys) /\ Len(withKey) <= ClaimLimit
  BY <1>1, <1>2, ClaimingAdds
<1> HIDE DEF withKey
<1>4. CASE CommitDuplicate
  <2>1. /\ claims' = claims \/ claims' = withKey
        /\ Answered(t) /\ UNCHANGED <<script, begun, open, hooked, hook, call, stored, from>>
    BY <1>4 DEF CommitDuplicate, serverVars, t, withKey
  <2>2. queue' \in Seq(1 .. begun') /\ settled' \subseteq 1 .. begun'
    BY <2>1, <1>1, AnsweringKeepsTypes
  <2>3. claims' \in Seq(ClaimKeys) /\ Len(claims') <= ClaimLimit
    BY <2>1, <1>1, <1>3
  <2>4. Typed'
    BY <2>1, <2>2, <2>3 DEF Typed, TypeOK
  <2> QED
    BY <1>0, <2>1, <2>4 DEF InRange
<1>5. CASE CommitStarts
  <2>1. /\ claims' = Claimed(withKey, QueueKey(t))
        /\ call' = [pc |-> "read", turn |-> t, next |-> 0]
        /\ UNCHANGED <<script, begun, open, hooked, queue, settled, hook, stored, from>>
    BY <1>5 DEF CommitStarts, IdleCall, hostVars, serverVars, t, withKey
  <2>2. claims' \in Seq(ClaimKeys) /\ Len(claims') <= ClaimLimit
    BY <2>1, <1>2, <1>3, ClaimingAdds
  <2>3. call' \in [pc : {"idle", "read", "write"}, turn : 0 .. begun, next : 0 .. MaxRounds + 2]
    BY <2>1, <1>1 DEF TurnRecordingConstants
  <2>4. Typed'
    BY <2>1, <2>2, <2>3 DEF Typed, TypeOK
  <2> QED
    BY <1>0, <1>1, <2>1, <2>4 DEF InRange
<1> QED
  BY <1>4, <1>5

LEMMA CallKeepsTypes ==
    ASSUME TurnRecordingConstants, TypesInv,
           CommitReads \/ CommitReadFails \/ CommitRecords \/ CommitRecordFails
    PROVE  TypesInv'
<1> USE DEF TypesInv
<1>0. /\ call.pc # "idle"
      /\ UNCHANGED <<script, begun, open, hooked, hook, claims, from>>
  BY DEF CommitReads, CommitReadFails, CommitRecords, CommitRecordFails, serverVars
<1>1. \A x : LastPlace(x)' = LastPlace(x) /\ HookedLength(x)' = HookedLength(x)
  BY <1>0 DEF LastPlace, HookedLength
<1>2. /\ call.turn \in 1 .. begun /\ call.turn \in Turns
      /\ LastPlace(call.turn) \in 2 .. MaxRounds + 2 /\ MaxRounds \in Nat
      /\ Len(Messages(call.turn)) = LastPlace(call.turn) /\ begun \in Nat
  BY <1>0, TheCallsTurn
<1>3. stored' \in Seq(Recorded) /\ from' \in 0 .. Len(stored')
  <2>1. CASE UNCHANGED stored
    BY <2>1, <1>0 DEF Typed, TypeOK
  <2>2. CASE Store(call.turn, call.next) /\ call.pc = "write"
    BY <2>2, <1>0, <1>2, StoringAMessage DEF InRange
  <2> QED
    BY <2>1, <2>2 DEF CommitReads, CommitReadFails, CommitRecords, CommitRecordFails, serverVars
<1>4. ASSUME NEW place \in Nat, place >= 1, RecordFrom(place)
      PROVE  TypesInv'
  <2>1. /\ call' \in [pc : {"idle", "read", "write"}, turn : 0 .. begun',
                      next : 0 .. MaxRounds + 2]
        /\ queue' \in Seq(1 .. begun') /\ settled' \subseteq 1 .. begun'
        /\ \/ call' = IdleCall
           \/ /\ place \in 1 .. LastPlace(call.turn)
              /\ call'.pc = "write" /\ call'.turn = call.turn /\ call'.next = place
    BY <1>0, <1>4, RecordingFrom
  <2>2. Typed'
    BY <2>1, <1>0, <1>3 DEF Typed, TypeOK
  <2>3. InRange'
    <3>1. CASE call' = IdleCall
      BY <3>1, <1>0, <1>1 DEF InRange, IdleCall
    <3>2. CASE /\ place \in 1 .. LastPlace(call.turn)
               /\ call'.pc = "write" /\ call'.turn = call.turn /\ call'.next = place
      BY <3>2, <1>0, <1>1, <1>2 DEF InRange
    <3> QED
      BY <2>1, <3>1, <3>2
  <2> QED
    BY <2>2, <2>3
<1>5. CASE CommitReads
  <2> DEFINE k == RecordedPrefixLength(Messages(call.turn), ServerTail)
  <2>1. Len(ServerTail) \in Nat
    <3>1. stored \in Seq(Recorded) /\ from \in 0 .. Len(stored) /\ Len(stored) \in Nat
      BY LenProperties DEF Typed, TypeOK
    <3> QED
      BY <3>1, SubSeqProperties DEF ServerTail
  <2>2. k \in Nat
    BY <1>2, <2>1, ThePrefixIsThere
  <2>3. RecordFrom(k + 1)
    BY <1>5 DEF CommitReads
  <2> HIDE DEF k
  <2> QED
    BY <2>2, <2>3, <1>4
<1>6. CASE CommitReadFails
  BY <1>6, <1>4 DEF CommitReadFails
<1>7. CASE CommitRecords
  <2>1. call.next \in Nat /\ RecordFrom(call.next + 1)
    BY <1>7, <1>2 DEF CommitRecords, InRange
  <2> QED
    BY <2>1, <1>4
<1>8. CASE CommitRecordFails
  <2>1. call' = IdleCall /\ Answered(call.turn)
    BY <1>8 DEF CommitRecordFails
  <2>2. queue' \in Seq(1 .. begun') /\ settled' \subseteq 1 .. begun'
    BY <2>1, <1>0, <1>2, AnsweringKeepsTypes
  <2>3. call' \in [pc : {"idle", "read", "write"}, turn : 0 .. begun', next : 0 .. MaxRounds + 2]
    BY <2>1, <1>0, <1>2 DEF IdleCall
  <2>4. Typed'
    BY <2>2, <2>3, <1>0, <1>3 DEF Typed, TypeOK
  <2> QED
    BY <2>1, <2>4, <1>0, <1>1 DEF InRange, IdleCall
<1> QED
  BY <1>5, <1>6, <1>7, <1>8

LEMMA HostKeepsTypes ==
    ASSUME TurnRecordingConstants, TypesInv,
           BeginTurn \/ CloseTurn \/ PourOffStands \/ CompactionStands \/ Restart
           \/ UNCHANGED vars
    PROVE  TypesInv'
<1> USE DEF TypesInv, pluginVars, hostVars, serverVars
<1>0. /\ begun \in 0 .. MaxTurns /\ begun \in Nat /\ MaxTurns \in Nat /\ MaxRounds \in Nat
      /\ queue \in Seq(1 .. begun) /\ settled \subseteq 1 .. begun
      /\ from \in 0 .. Len(stored) /\ Len(stored) \in Nat
  BY LenProperties DEF Typed, TypeOK, TurnRecordingConstants
<1>s. UNCHANGED script
  BY DEF BeginTurn, CloseTurn, PourOffStands, CompactionStands, Restart, vars
<1>l. \A t : LastPlace(t)' = LastPlace(t) /\ HookedLength(t)' = HookedLength(t)
  BY <1>s DEF LastPlace, HookedLength
<1>1. CASE BeginTurn
  <2>1. /\ begun' = begun + 1 /\ begun' \in 0 .. MaxTurns /\ open' = begun' /\ hooked' = 0
        /\ UNCHANGED <<queue, settled, hook, call, claims, stored, from>> /\ open = 0
    BY <1>1, <1>0 DEF BeginTurn
  <2>2. queue' \in Seq(1 .. begun')
    <3>1. 1 .. begun \subseteq 1 .. begun'
      BY <2>1, <1>0
    <3> QED
      BY <3>1, <2>1, <1>0, SeqMonotonic
  <2>3. call' \in [pc : {"idle", "read", "write"}, turn : 0 .. begun', next : 0 .. MaxRounds + 2]
    <3>1. 0 .. begun \subseteq 0 .. begun'
      BY <2>1, <1>0
    <3>2. call \in [pc : {"idle", "read", "write"}, turn : 0 .. begun, next : 0 .. MaxRounds + 2]
      BY DEF Typed, TypeOK
    <3> QED
      BY <3>1, <3>2, <2>1
  <2>4. Typed'
    BY <1>0, <1>s, <2>1, <2>2, <2>3 DEF Typed, TypeOK
  <2> QED
    BY <2>1, <2>4, <1>l DEF InRange
<1>2. CASE CloseTurn
  <2>1. open \in 1 .. begun
    BY <1>2, <1>0 DEF CloseTurn, Typed, TypeOK
  <2>2. queue' \in Seq(1 .. begun')
    BY <1>2, <1>0, <2>1, AppendProperties DEF CloseTurn
  <2>3. Typed'
    BY <1>0, <1>2, <2>2 DEF CloseTurn, Typed, TypeOK
  <2> QED
    BY <1>2, <2>3, <1>l DEF CloseTurn, InRange
<1>3. CASE PourOffStands \/ CompactionStands
  <2>1. /\ from' \in 0 .. Len(stored)
        /\ UNCHANGED <<script, begun, open, hooked, hook, call, claims, queue, settled, stored>>
    BY <1>0, <1>3 DEF PourOffStands, CompactionStands
  <2>2. Typed'
    BY <2>1 DEF Typed, TypeOK
  <2> QED
    BY <2>1, <2>2, <1>l DEF InRange
<1>4. CASE Restart
  <2>1. /\ hook' = FALSE /\ call' = IdleCall /\ claims' = <<>> /\ open' = 0 /\ hooked' = 0
        /\ UNCHANGED <<script, begun, queue, settled, stored, from>>
    BY <1>4 DEF Restart
  <2>2. claims' \in Seq(ClaimKeys) /\ Len(claims') = 0
    BY <2>1, EmptySeq
  <2>3. call' \in [pc : {"idle", "read", "write"}, turn : 0 .. begun', next : 0 .. MaxRounds + 2]
    BY <2>1, <1>0 DEF IdleCall
  <2>4. /\ open' \in 0 .. begun' /\ hooked' \in 0 .. MaxRounds + 1 /\ Len(claims') <= ClaimLimit
    BY <2>1, <2>2, <1>0 DEF TurnRecordingConstants
  <2>5. Typed'
    BY <2>1, <2>2, <2>3, <2>4 DEF Typed, TypeOK
  <2> QED
    BY <2>1, <2>5 DEF InRange, IdleCall
<1>5. CASE UNCHANGED vars
  BY <1>5, <1>l DEF vars, Typed, TypeOK, InRange
<1> QED
  BY <1>1, <1>2, <1>3, <1>4, <1>5

LEMMA TypesInvHolds == ASSUME TurnRecordingConstants PROVE Spec => []TypesInv
<1>1. Init => TypesInv
  <2>1. Init => Typed
    BY InitIsGood DEF IInv
  <2>2. Init => InRange
    BY DEF Init, InRange, IdleCall
  <2> QED
    BY <2>1, <2>2 DEF TypesInv
<1>2. TypesInv /\ [Next]_vars => TypesInv'
  BY HookKeepsTypes, QueueKeepsTypes, CallKeepsTypes, HostKeepsTypes DEF Next, CommitStep
<1> QED
  BY <1>1, <1>2, PTL DEF Spec

---------------------------------------------------------------------------
(* What the queue skips, when the host waits and no write fails: reads may *)
(* fail, answers may be lost on either way or come too late for the host,  *)
(* pour-offs, compactions and restarts come anywhere.                      *)
NoWriteFails == HostWaits /\ "write" \notin Faults

\* The turn's first n messages stand, and nothing of another turn after them.
Heard(t, n) ==
    /\ n # 0 => stored # <<>> /\ stored[Len(stored)].turn = t
    /\ \A place \in 1 .. n : IsStored(t, place)

OpenIsHeard ==
    open # 0 => /\ open = begun /\ queue = <<>> /\ call.pc = "idle"
                /\ Heard(open, IF hook THEN hooked - 1 ELSE hooked)

QueuedIsHeard ==
    /\ queue # <<>> => queue = <<begun>> /\ begun # 0 /\ open = 0
    /\ call.pc # "idle" => call.turn = begun /\ open = 0
    /\ queue # <<>> \/ call.pc # "idle" => Heard(begun, LastPlace(begun) - 1)

OwnInv == TypesInv /\ StoredAreMessages /\ OpenIsHeard /\ QueuedIsHeard

LEMMA NothingHeardKeeps ==
    ASSUME TurnRecordingConstants, Typed, begun' \in Nat, begun <= begun',
           UNCHANGED <<script, stored>>
    PROVE  /\ StoredAreMessages => StoredAreMessages'
           /\ \A t : LastPlace(t)' = LastPlace(t) /\ HookedLength(t)' = HookedLength(t)
           /\ \A t, n : Heard(t, n)' = Heard(t, n)
           /\ \A t, place : IsStored(t, place)' = IsStored(t, place)
<1>1. begun \in Nat
  BY DEF Typed, TypeOK, TurnRecordingConstants
<1>2. StoredAreMessages => StoredAreMessages'
  BY <1>1 DEF StoredAreMessages, LastPlace, KeyOf
<1> QED
  BY <1>2 DEF LastPlace, HookedLength, Heard, IsStored

(* addSessionMessage of a message of the last turn begun.                  *)
LEMMA HearingAMessage ==
    ASSUME TurnRecordingConstants, Typed, StoredAreMessages, begun \in Turns,
           NEW place \in 1 .. LastPlace(begun), Store(begun, place),
           UNCHANGED <<script, begun, from>>
    PROVE  /\ StoredAreMessages'
           /\ \A t : LastPlace(t)' = LastPlace(t) /\ HookedLength(t)' = HookedLength(t)
           /\ \A x, p : IsStored(x, p) => IsStored(x, p)'
           /\ \E i \in 1 .. Len(stored') : stored'[i].turn = begun /\ stored'[i].place = place
           /\ stored' # <<>> /\ stored'[Len(stored')].turn = begun
<1> DEFINE new == [turn |-> begun, place |-> place, key |-> KeyOf(begun, place)]
<1>1. /\ Len(stored') = Len(stored) + 1 /\ Len(stored) \in Nat
      /\ \A i \in 1 .. Len(stored) : stored'[i] = stored[i]
      /\ stored'[Len(stored) + 1] = new
      /\ \A x, p : IsStored(x, p) => IsStored(x, p)'
      /\ \E i \in 1 .. Len(stored') : stored'[i].turn = begun /\ stored'[i].place = place
      /\ stored' # <<>> /\ stored'[Len(stored')].turn = begun
  BY StoringAMessage
<1>2. begun \in Nat /\ begun >= 1
  BY DEF Turns
<1>3. new.turn = begun /\ new.place = place /\ new.key = KeyOf(begun, place)
  OBVIOUS
<1> HIDE DEF new
<1>4. \A t, p : LastPlace(t)' = LastPlace(t) /\ KeyOf(t, p)' = KeyOf(t, p)
  BY DEF LastPlace, KeyOf
<1>5. StoredAreMessages'
  <2> SUFFICES ASSUME NEW i \in 1 .. Len(stored')
               PROVE  /\ stored'[i].turn \in 1 .. begun
                      /\ stored'[i].place \in 1 .. LastPlace(stored'[i].turn)
                      /\ stored'[i].key = KeyOf(stored'[i].turn, stored'[i].place)
    BY <1>4 DEF StoredAreMessages, LastPlace, KeyOf
  <2>1. CASE i \in 1 .. Len(stored)
    BY <2>1, <1>1 DEF StoredAreMessages
  <2>2. CASE i = Len(stored) + 1
    BY <2>2, <1>1, <1>2, <1>3
  <2> QED
    BY <2>1, <2>2, <1>1
<1>6. \A t : HookedLength(t)' = HookedLength(t)
  BY DEF HookedLength
<1> QED
  BY <1>1, <1>4, <1>5, <1>6

(* recordedPrefixLength: of the turn under way, all it skips stands.       *)
LEMMA SkippedIsStored ==
    ASSUME TurnRecordingConstants, OwnInv, call.pc # "idle"
    PROVE  /\ RecordedPrefixLength(Messages(begun), ServerTail) \in 0 .. LastPlace(begun)
           /\ \A place \in 1 .. RecordedPrefixLength(Messages(begun), ServerTail) :
                 IsStored(begun, place)
<1> DEFINE k == RecordedPrefixLength(Messages(begun), ServerTail)
           n == LastPlace(begun)
           tail == ServerTail
<1>1. /\ begun \in Turns /\ begun \in 1 .. begun /\ begun \in Nat
      /\ n \in Nat /\ n >= 2 /\ Len(Messages(begun)) = n
      /\ Heard(begun, n - 1)
  <2>1. call.turn = begun /\ Heard(begun, n - 1)
    BY DEF OwnInv, QueuedIsHeard
  <2>2. /\ begun \in 1 .. begun /\ begun \in Turns /\ begun \in Nat
        /\ n \in 2 .. MaxRounds + 2 /\ MaxRounds \in Nat /\ Len(Messages(begun)) = n
    BY <2>1, TheCallsTurn DEF OwnInv
  <2> QED
    BY <2>1, <2>2
<1>2. /\ Len(tail) \in Nat /\ Len(stored) \in Nat /\ from \in 0 .. Len(stored)
      /\ Len(tail) = Len(stored) - from
      /\ \A i \in 1 .. Len(stored) - from : tail[i] = stored[from + i]
  <2>1. stored \in Seq(Recorded) /\ from \in 0 .. Len(stored) /\ Len(stored) \in Nat
    BY LenProperties DEF OwnInv, TypesInv, Typed, TypeOK
  <2> QED
    BY <2>1, SubSeqProperties DEF ServerTail
<1>3. k \in 0 .. n /\ k <= Len(tail) /\ EndsWithPrefix(tail, Messages(begun), k)
  BY <1>1, <1>2, ThePrefixIsThere
<1>4. \A place \in 1 .. n : Messages(begun)[place] = KeyOf(begun, place)
  BY <1>1, MessagesOfATurn DEF OwnInv, TypesInv
<1> HIDE DEF k, n, tail
<1>5. \A place \in 1 .. n - 1 : IsStored(begun, place)
  BY <1>1 DEF Heard
<1>6. k = n => IsStored(begun, n)
  <2> SUFFICES ASSUME k = n
               PROVE  IsStored(begun, n)
    OBVIOUS
  <2>1. tail[Len(tail) - k + k].key = Messages(begun)[k]
    BY <1>1, <1>3 DEF EndsWithPrefix
  <2>2. Len(tail) - k + k = Len(stored) - from /\ from + (Len(stored) - from) = Len(stored)
        /\ Len(stored) - from \in 1 .. Len(stored) - from /\ Len(stored) \in 1 .. Len(stored)
    BY <1>1, <1>2, <1>3
  <2>3. stored[Len(stored)].key = KeyOf(begun, n)
    BY <2>1, <2>2, <1>1, <1>2, <1>4
  <2>4. stored[Len(stored)].turn = begun
    BY <1>1 DEF Heard
  <2> DEFINE place == stored[Len(stored)].place
  <2>5. place \in 1 .. LastPlace(begun) /\ stored[Len(stored)].key = KeyOf(begun, place)
    BY <2>2, <2>4 DEF OwnInv, StoredAreMessages
  <2>6. KeyOf(begun, place) = KeyOf(begun, LastPlace(begun))
    BY <2>3, <2>5 DEF n
  <2> HIDE DEF place
  <2>7. place = n
    BY <2>5, <2>6, <1>1, KeysTellPlaces DEF n, OwnInv, TypesInv
  <2> QED
    BY <2>2, <2>4, <2>7 DEF IsStored, place
<1>7. \A place \in 1 .. k : IsStored(begun, place)
  BY <1>1, <1>3, <1>5, <1>6
<1> QED
  BY <1>3, <1>7 DEF k, n, tail

LEMMA AnsweringTheLastTurn ==
    ASSUME QueuedIsHeard, Answered(begun)
    PROVE  /\ queue' = <<>> \/ queue' = queue
           /\ settled' \subseteq settled \cup {begun}
<1>1. queue = <<>> \/ queue = <<begun>>
  BY DEF QueuedIsHeard
<1>2. Head(<<begun>>) = begun /\ Tail(<<begun>>) = <<>>
  OBVIOUS
<1>3. Without(queue, begun) = <<>>
  BY <1>1, <1>2 DEF Without
<1> QED
  BY <1>3 DEF Answered

LEMMA OpenTurnKeepsOwn ==
    ASSUME TurnRecordingConstants, NoWriteFails, OwnInv, TypesInv',
           BeginTurn \/ HookCalled \/ HookRecords \/ HookRecordFails \/ CloseTurn
    PROVE  OwnInv'
<1> USE DEF pluginVars, hostVars, serverVars
<1>0. Typed /\ begun \in Nat /\ hooked \in Nat
  BY NumbersOfTurns DEF OwnInv, TypesInv
<1>1. CASE BeginTurn
  <2>1. /\ begun' = begun + 1 /\ open' = begun' /\ hooked' = 0 /\ ~hook /\ begun' # 0
        /\ UNCHANGED <<script, queue, settled, hook, call, claims, stored, from>>
        /\ queue = <<>> /\ call.pc = "idle"
    BY <1>0, <1>1 DEF BeginTurn, NoWriteFails, OwnInv, TypesInv, InRange
  <2>2. StoredAreMessages'
    BY <1>0, <2>1, NothingHeardKeeps DEF OwnInv
  <2>3. Heard(open, hooked)'
    BY <2>1 DEF Heard
  <2>4. OpenIsHeard' /\ QueuedIsHeard'
    BY <2>1, <2>3 DEF OpenIsHeard, QueuedIsHeard
  <2> QED
    BY <2>2, <2>4 DEF OwnInv
<1>2. CASE HookCalled
  <2>1. /\ open # 0 /\ ~hook /\ hook' = TRUE /\ hooked' = hooked + 1 /\ hooked' - 1 = hooked
        /\ UNCHANGED <<script, begun, open, queue, settled, call, stored, from>>
    BY <1>0, <1>2 DEF HookCalled
  <2>2. StoredAreMessages' /\ \A t, n : Heard(t, n)' = Heard(t, n)
    BY <1>0, <2>1, NothingHeardKeeps DEF OwnInv
  <2>3. Heard(open, hooked)
    BY <2>1 DEF OwnInv, OpenIsHeard
  <2>4. OpenIsHeard'
    <3>1. (IF hook THEN hooked - 1 ELSE hooked)' = hooked
      BY <2>1
    <3>2. /\ hooked # 0 => stored' # <<>> /\ stored'[Len(stored')].turn = open'
          /\ \A place \in 1 .. hooked : IsStored(open, place)'
      BY <2>1, <2>3 DEF Heard, IsStored
    <3>3. Heard(open, IF hook THEN hooked - 1 ELSE hooked)'
      BY <3>1, <3>2 DEF Heard
    <3> QED
      BY <3>3, <2>1 DEF OwnInv, OpenIsHeard
  <2>5. QueuedIsHeard'
    BY <2>1 DEF OwnInv, QueuedIsHeard, OpenIsHeard
  <2> QED
    BY <2>2, <2>4, <2>5 DEF OwnInv
<1>3. CASE HookRecords \/ HookRecordFails
  <2>1. /\ hook /\ hook' = FALSE /\ Store(open, hooked)
        /\ UNCHANGED <<script, begun, open, hooked, queue, settled, call, claims, from>>
    BY <1>3 DEF HookRecords, HookRecordFails, NoWriteFails, Fails
  <2>2. /\ open # 0 /\ open = begun /\ begun \in Turns /\ queue = <<>> /\ call.pc = "idle"
        /\ Heard(open, hooked - 1)
        /\ hooked \in 1 .. HookedLength(open)
    BY <2>1, <1>0, TheOpenTurn DEF OwnInv, OpenIsHeard, TypesInv, InRange
  <2>3. hooked \in 1 .. LastPlace(begun)
    <3>1. HookedLength(begun) \in Nat /\ LastPlace(begun) = HookedLength(begun) + 1
      BY <1>0, <2>2, NumbersOfTurns
    <3> QED
      BY <3>1, <2>2
  <2>4. /\ StoredAreMessages'
        /\ \A x, p : IsStored(x, p) => IsStored(x, p)'
        /\ \E i \in 1 .. Len(stored') : stored'[i].turn = begun /\ stored'[i].place = hooked
        /\ stored' # <<>> /\ stored'[Len(stored')].turn = begun
    BY <1>0, <2>1, <2>2, <2>3, HearingAMessage DEF OwnInv
  <2>5. Heard(open, hooked)'
    <3>0. \A place \in 1 .. hooked - 1 : IsStored(open, place)
      BY <2>2 DEF Heard
    <3>a. open' = open
      BY <2>1
    <3>b. \A x, p : x = open /\ IsStored(x, p) => IsStored(open, p)'
      BY <2>4, <3>a DEF IsStored
    <3>1. \A place \in 1 .. hooked - 1 : IsStored(open, place)'
      BY <3>0, <3>b
    <3>2. IsStored(open, hooked)'
      BY <2>1, <2>2, <2>4 DEF IsStored
    <3>3. \A place \in 1 .. hooked : place \in 1 .. hooked - 1 \/ place = hooked
      BY <2>2, <1>0
    <3>4. \A place \in 1 .. hooked : IsStored(open, place)'
      BY <3>1, <3>2, <3>3, <2>1 DEF IsStored
    <3> QED
      BY <3>4, <2>1, <2>2, <2>4 DEF Heard
  <2>6. OpenIsHeard' /\ QueuedIsHeard'
    BY <2>1, <2>2, <2>5 DEF OpenIsHeard, QueuedIsHeard
  <2> QED
    BY <2>4, <2>6 DEF OwnInv
<1>4. CASE CloseTurn
  <2>1. /\ open # 0 /\ ~hook /\ hooked = HookedLength(open) /\ open' = 0
        /\ UNCHANGED <<script, begun, settled, hook, call, claims, stored, from>>
        /\ open = begun /\ queue = <<>> /\ call.pc = "idle" /\ Heard(open, hooked)
        /\ queue' = <<begun>>
    BY <1>4 DEF CloseTurn, OwnInv, OpenIsHeard
  <2>2. LastPlace(begun) - 1 = HookedLength(begun)
    <3>1. begun \in Turns
      BY <2>1, <1>0, TheOpenTurn
    <3> QED
      BY <3>1, <1>0, NumbersOfTurns
  <2>3. /\ StoredAreMessages' /\ \A t, n : Heard(t, n)' = Heard(t, n)
        /\ \A t : LastPlace(t)' = LastPlace(t)
    BY <1>0, <2>1, NothingHeardKeeps DEF OwnInv
  <2>4. Heard(begun, LastPlace(begun) - 1)'
    BY <2>1, <2>2 DEF Heard, IsStored, LastPlace
  <2>5. OpenIsHeard' /\ QueuedIsHeard'
    BY <2>1, <2>4 DEF OpenIsHeard, QueuedIsHeard
  <2> QED
    BY <2>3, <2>5 DEF OwnInv
<1> QED
  BY <1>1, <1>2, <1>3, <1>4

(* A step that records nothing and leaves the turns that have begun.       *)
LEMMA RestKeepsOwn ==
    ASSUME TurnRecordingConstants, OwnInv, TypesInv',
           UNCHANGED <<script, begun, stored>>,
           queue' = <<>> \/ queue' = queue,
           open' # 0 => open' = open /\ hooked' = hooked /\ hook' = hook,
           call'.pc # "idle" => call'.turn = begun /\ (queue # <<>> \/ call.pc # "idle"),
           open' # 0 => call' = call
    PROVE  OwnInv'
<1>1. Typed /\ begun \in Nat
  BY DEF OwnInv, TypesInv, Typed, TypeOK, TurnRecordingConstants
<1>2. /\ StoredAreMessages' /\ \A t, n : Heard(t, n)' = Heard(t, n)
      /\ \A t : LastPlace(t)' = LastPlace(t)
  BY <1>1, NothingHeardKeeps DEF OwnInv
<1>3. OpenIsHeard'
  BY DEF OwnInv, OpenIsHeard, Heard, IsStored
<1>4. queue # <<>> \/ call.pc # "idle" => Heard(begun, LastPlace(begun) - 1)'
  BY DEF OwnInv, QueuedIsHeard, Heard, IsStored, LastPlace
<1>5. queue # <<>> \/ call.pc # "idle" => open = 0
  BY DEF OwnInv, QueuedIsHeard
<1>6. QueuedIsHeard'
  BY <1>4, <1>5 DEF OwnInv, QueuedIsHeard
<1> QED
  BY <1>2, <1>3, <1>6 DEF OwnInv

LEMMA QueueKeepsOwn ==
    ASSUME TurnRecordingConstants, OwnInv, TypesInv',
           CommitDuplicate \/ CommitStarts \/ CommitReads \/ CommitReadFails
    PROVE  OwnInv'
<1> USE DEF hostVars, serverVars
<1>0. Typed /\ TypesInv /\ QueuedIsHeard
  BY DEF OwnInv, TypesInv
<1>h. queue # <<>> => Head(queue) = begun /\ open = 0
  BY <1>0 DEF QueuedIsHeard
<1>1. CASE CommitDuplicate
  <2>1. /\ Answered(begun) /\ queue # <<>>
        /\ UNCHANGED <<script, begun, open, hooked, hook, call, stored, from>>
    BY <1>1, <1>h DEF CommitDuplicate
  <2>2. queue' = <<>> \/ queue' = queue
    BY <2>1, <1>0, AnsweringTheLastTurn
  <2>3. call'.pc # "idle" => call'.turn = begun
    BY <2>1, <1>0 DEF QueuedIsHeard
  <2> QED
    BY <2>1, <2>2, <2>3, RestKeepsOwn
<1>2. CASE CommitStarts
  <2>1. /\ call'.turn = begun /\ queue # <<>> /\ open = 0
        /\ UNCHANGED <<script, begun, open, hooked, queue, settled, hook, stored, from>>
    BY <1>2, <1>h DEF CommitStarts, IdleCall
  <2> QED
    BY <2>1, RestKeepsOwn
<1>3. CASE CommitReads \/ CommitReadFails
  <2>1. /\ call.pc # "idle" /\ call.turn = begun /\ open = 0
        /\ UNCHANGED <<script, begun, open, hooked, hook, claims, stored, from>>
    BY <1>3, <1>0 DEF CommitReads, CommitReadFails, QueuedIsHeard
  <2>2. PICK place \in Nat : place >= 1 /\ RecordFrom(place)
    <3>1. CASE CommitReadFails
      BY <3>1 DEF CommitReadFails
    <3>2. CASE CommitReads
      <4> DEFINE k == RecordedPrefixLength(Messages(begun), ServerTail)
      <4>1. k \in 0 .. LastPlace(begun)
        BY <2>1, SkippedIsStored
      <4>2. LastPlace(begun) \in 2 .. MaxRounds + 2 /\ MaxRounds \in Nat
        BY <2>1, <1>0, TheCallsTurn
      <4>3. RecordFrom(k + 1)
        BY <3>2, <2>1 DEF CommitReads
      <4> HIDE DEF k
      <4> QED
        BY <4>1, <4>2, <4>3
    <3> QED
      BY <1>3, <3>1, <3>2
  <2>3. \/ call' = IdleCall /\ Answered(begun)
        \/ UNCHANGED <<queue, settled>> /\ call'.turn = begun
    BY <2>1, <2>2, <1>0, RecordingFrom
  <2>4. queue' = <<>> \/ queue' = queue
    BY <2>3, <1>0, AnsweringTheLastTurn
  <2>5. call'.pc # "idle" => call'.turn = begun
    BY <2>3 DEF IdleCall
  <2> QED
    BY <2>1, <2>4, <2>5, RestKeepsOwn
<1> QED
  BY <1>1, <1>2, <1>3

LEMMA RecordsKeepOwn ==
    ASSUME TurnRecordingConstants, NoWriteFails, OwnInv, TypesInv',
           CommitRecords \/ CommitRecordFails
    PROVE  OwnInv'
<1>0. Typed /\ TypesInv /\ QueuedIsHeard
  BY DEF OwnInv, TypesInv
<1>1. /\ call.pc = "write" /\ call.turn = begun /\ open = 0
      /\ Store(begun, call.next)
      /\ UNCHANGED <<script, begun, open, hooked, hook, claims, from>>
      /\ Heard(begun, LastPlace(begun) - 1)
  BY <1>0 DEF CommitRecords, CommitRecordFails, QueuedIsHeard, NoWriteFails, Fails
<1>2. /\ begun \in Turns /\ LastPlace(begun) \in Nat /\ LastPlace(begun) >= 2
      /\ call.next \in 1 .. LastPlace(begun) /\ call.next \in Nat
  BY <1>0, <1>1, TheCallsTurn DEF TypesInv, InRange
<1>3. \/ call' = IdleCall /\ Answered(begun)
      \/ UNCHANGED <<queue, settled>> /\ call'.turn = begun
  <2>1. CASE CommitRecordFails
    BY <2>1, <1>1 DEF CommitRecordFails
  <2>2. CASE CommitRecords
    <3>1. call.next + 1 \in Nat /\ call.next + 1 >= 1 /\ RecordFrom(call.next + 1)
      BY <2>2, <1>2 DEF CommitRecords
    <3> QED
      BY <3>1, <1>0, <1>1, RecordingFrom
  <2> QED
    BY <2>1, <2>2
<1>4. queue' = <<>> \/ queue' = queue
  BY <1>3, <1>0, AnsweringTheLastTurn
<1>5. /\ StoredAreMessages'
      /\ LastPlace(begun)' = LastPlace(begun)
      /\ \A x, p : IsStored(x, p) => IsStored(x, p)'
      /\ stored' # <<>> /\ stored'[Len(stored')].turn = begun
  <2> DEFINE next == call.next
  <2>1. next \in 1 .. LastPlace(begun) /\ Store(begun, next)
    BY <1>1, <1>2
  <2> HIDE DEF next
  <2>2. LastPlace(begun)' = LastPlace(begun)
    BY <1>1 DEF LastPlace
  <2> QED
    BY <2>1, <2>2, <1>0, <1>1, <1>2, HearingAMessage DEF OwnInv
<1>6. Heard(begun, LastPlace(begun) - 1)'
  <2>1. \A place \in 1 .. LastPlace(begun) - 1 : IsStored(begun, place)'
    BY <1>1, <1>5 DEF Heard, IsStored
  <2> QED
    BY <2>1, <1>1, <1>5 DEF Heard, IsStored
<1>7. call'.pc # "idle" => call'.turn = begun
  BY <1>3 DEF IdleCall
<1>8. OpenIsHeard' /\ QueuedIsHeard'
  BY <1>0, <1>1, <1>4, <1>6, <1>7 DEF OpenIsHeard, QueuedIsHeard
<1> QED
  BY <1>5, <1>8 DEF OwnInv

LEMMA AroundKeepsOwn ==
    ASSUME TurnRecordingConstants, OwnInv, TypesInv',
           PourOffStands \/ CompactionStands \/ Restart \/ UNCHANGED vars
    PROVE  OwnInv'
<1> USE DEF vars, pluginVars, hostVars, serverVars
<1>1. CASE PourOffStands \/ CompactionStands \/ UNCHANGED vars
  <2>1. UNCHANGED <<script, begun, stored, queue, open, hooked, hook, call>>
    BY <1>1 DEF PourOffStands, CompactionStands
  <2>2. call.pc # "idle" => call.turn = begun
    BY DEF OwnInv, QueuedIsHeard
  <2> QED
    BY <2>1, <2>2, RestKeepsOwn
<1>2. CASE Restart
  <2>1. UNCHANGED <<script, begun, stored, queue>> /\ open' = 0 /\ call'.pc = "idle"
    BY <1>2 DEF Restart, IdleCall
  <2> QED
    BY <2>1, RestKeepsOwn
<1> QED
  BY <1>1, <1>2

LEMMA CommitReadsSkipsOwn ==
    ASSUME TurnRecordingConstants, OwnInv, [Next]_vars PROVE SkipsItsOwn
<1> SUFFICES ASSUME CommitReads
             PROVE  \A place \in 1 .. (IF call'.pc = "write" THEN call'.next - 1
                                                             ELSE Len(Messages(call.turn))) :
                        IsStored(call.turn, place)
  BY DEF SkipsItsOwn
<1> DEFINE k == RecordedPrefixLength(Messages(begun), ServerTail)
<1>1. /\ call.pc # "idle" /\ call.turn = begun
      /\ UNCHANGED <<script, begun, open, hooked, hook, claims, stored, from>>
  BY DEF CommitReads, OwnInv, QueuedIsHeard, serverVars
<1>2. /\ LastPlace(begun) \in 2 .. MaxRounds + 2 /\ MaxRounds \in Nat
      /\ Len(Messages(begun)) = LastPlace(begun)
  BY <1>1, TheCallsTurn DEF OwnInv
<1>3. k \in 0 .. LastPlace(begun) /\ \A place \in 1 .. k : IsStored(begun, place)
  BY <1>1, SkippedIsStored
<1>4. RecordFrom(k + 1)
  BY <1>1 DEF CommitReads
<1> HIDE DEF k
<1>5. \/ k + 1 > LastPlace(begun) /\ call' = IdleCall
      \/ call'.pc = "write" /\ call'.next = k + 1
  <2>1. k + 1 \in Nat /\ k + 1 >= 1
    BY <1>2, <1>3
  <2> QED
    BY <2>1, <1>1, <1>4, RecordingFrom DEF OwnInv
<1>6. CASE call'.pc = "write" /\ call'.next = k + 1
  <2>1. call'.next - 1 = k
    BY <1>2, <1>3, <1>6
  <2> QED
    BY <2>1, <1>1, <1>3, <1>6
<1>7. CASE k + 1 > LastPlace(begun) /\ call' = IdleCall
  <2>1. k = LastPlace(begun) /\ call'.pc # "write"
    BY <1>2, <1>3, <1>7 DEF IdleCall
  <2> QED
    BY <2>1, <1>1, <1>2, <1>3
<1> QED
  BY <1>5, <1>6, <1>7

LEMMA StepKeepsOwn ==
    ASSUME TurnRecordingConstants, NoWriteFails, OwnInv, TypesInv', [Next]_vars PROVE OwnInv'
  BY OpenTurnKeepsOwn, QueueKeepsOwn, RecordsKeepOwn, AroundKeepsOwn DEF Next, CommitStep

LEMMA OwnInvHolds == ASSUME TurnRecordingConstants, NoWriteFails PROVE Spec => []OwnInv
<1>1. Init /\ TypesInv => OwnInv
  <2>1. Init => /\ Len(stored) = 0 /\ open = 0 /\ queue = <<>> /\ call.pc = "idle"
    BY DEF Init, IdleCall
  <2> QED
    BY <2>1 DEF OwnInv, StoredAreMessages, OpenIsHeard, QueuedIsHeard
<1>2. OwnInv /\ TypesInv' /\ [Next]_vars => OwnInv'
  BY StepKeepsOwn
<1> QED
  BY <1>1, <1>2, TypesInvHolds, PTL DEF Spec

---------------------------------------------------------------------------
(* That answered turns are whole, when besides the host hears no answer    *)
(* too late and no answer of the server is lost: reads may fail, pour-offs,*)
(* compactions and restarts come anywhere.                                 *)
NoAnswerIsLost == NoWriteFails /\ Faults \cap {"lost", "impatient"} = {}

Whole(t) == \A place \in 1 .. LastPlace(t) : IsStored(t, place)

SettledIsWhole == \A t \in settled : Whole(t)

ClaimedIsWhole ==
    \A t \in Turns :
        (Has(claims, AdvancementKey(t)) \/ Has(claims, QueueKey(t))) =>
            \/ Whole(t)
            \/ call.pc # "idle" /\ call.turn = t

\* The call has recorded or skipped what comes before its next message.
WrittenSoFar ==
    call.pc = "write" => \A place \in 1 .. call.next - 1 : IsStored(call.turn, place)

WholeInv == OwnInv /\ SettledIsWhole /\ ClaimedIsWhole /\ WrittenSoFar

(* A step that claims no turn of the queue and leaves what is stored, but  *)
(* for what it adds.                                                       *)
LEMMA RestKeepsWhole ==
    ASSUME WholeInv, OwnInv', UNCHANGED <<script, settled>>,
           \A x, p : IsStored(x, p) => IsStored(x, p)',
           \A t \in Turns :
               (Has(claims, AdvancementKey(t)) \/ Has(claims, QueueKey(t)))' =>
                   Has(claims, AdvancementKey(t)) \/ Has(claims, QueueKey(t)),
           call'.pc # "idle" \/ claims' # <<>> => UNCHANGED call
    PROVE  WholeInv'
<1>1. \A t : LastPlace(t)' = LastPlace(t)
  BY DEF LastPlace
<1>2. \A t : Whole(t) => Whole(t)'
  BY <1>1 DEF Whole
<1>3. SettledIsWhole'
  BY <1>2 DEF WholeInv, SettledIsWhole
<1>4. ClaimedIsWhole'
  <2>1. CASE UNCHANGED call
    BY <2>1, <1>2 DEF WholeInv, ClaimedIsWhole
  <2>2. CASE claims' = <<>>
    <3>1. Len(claims') = 0
      BY <2>2, EmptySeq
    <3> QED
      BY <3>1 DEF ClaimedIsWhole, Has
  <2> QED
    BY <2>1, <2>2
<1>5. WrittenSoFar'
  <2> SUFFICES ASSUME call'.pc = "write", NEW place \in 1 .. call'.next - 1
               PROVE  IsStored(call.turn, place)'
    BY DEF WrittenSoFar
  <2>1. UNCHANGED call
    OBVIOUS
  <2>2. IsStored(call.turn, place)
    BY <2>1 DEF WholeInv, WrittenSoFar
  <2>3. \A x, p : IsStored(x, p) =>
            \E i \in 1 .. Len(stored') : stored'[i].turn = x /\ stored'[i].place = p
    BY DEF IsStored
  <2>4. \E i \in 1 .. Len(stored') : stored'[i].turn = call.turn /\ stored'[i].place = place
    BY <2>2, <2>3
  <2> QED
    BY <2>1, <2>4 DEF IsStored
<1> QED
  BY <1>3, <1>4, <1>5 DEF WholeInv

LEMMA HostKeepsWhole ==
    ASSUME TurnRecordingConstants, NoWriteFails, WholeInv, OwnInv',
           BeginTurn \/ HookCalled \/ HookRecords \/ HookRecordFails \/ CloseTurn
           \/ PourOffStands \/ CompactionStands \/ Restart \/ UNCHANGED vars
    PROVE  WholeInv'
<1> USE DEF vars, pluginVars, hostVars, serverVars
<1>0. OwnInv /\ Typed
  BY DEF WholeInv, OwnInv, TypesInv
<1>1. CASE HookRecords \/ HookRecordFails
  <2>1. /\ Store(open, hooked) /\ hook
        /\ UNCHANGED <<script, begun, open, hooked, queue, settled, call, claims, from>>
    BY <1>1 DEF HookRecords, HookRecordFails, NoWriteFails, Fails
  <2>2. open \in Turns /\ hooked \in 1 .. LastPlace(open)
    <3>1. open \in Turns /\ hooked \in 1 .. HookedLength(open)
      BY <2>1, <1>0, TheOpenTurn DEF OwnInv, TypesInv, InRange
    <3>2. HookedLength(open) \in Nat /\ LastPlace(open) = HookedLength(open) + 1
      BY <3>1, <1>0, NumbersOfTurns
    <3> QED
      BY <3>1, <3>2
  <2>3. \A x, p : IsStored(x, p) => IsStored(x, p)'
    BY <2>1, <2>2, <1>0, StoringAMessage
  <2> QED
    BY <2>1, <2>3, RestKeepsWhole DEF Has, AdvancementKey, QueueKey
<1>2. CASE HookCalled
  <2>1. /\ open \in Turns /\ open \in Nat /\ hooked' \in Nat
        /\ claims' = Claimed(claims, HookKey(open, hooked'))
        /\ UNCHANGED <<script, settled, call, stored>>
    BY <1>2, <1>0, TheOpenTurn, NumbersOfTurns DEF HookCalled
  <2>2. HookKey(open, hooked') \in ClaimKeys
    BY <2>1 DEF HookKey, ClaimKeys
  <2>3. \A other : Has(claims', other) => Has(claims, other) \/ other = HookKey(open, hooked')
    BY <2>1, <2>2, <1>0, ClaimingAdds DEF Typed, TypeOK
  <2>4. \A t : /\ Has(claims, AdvancementKey(t))' => Has(claims, AdvancementKey(t))
               /\ Has(claims, QueueKey(t))' => Has(claims, QueueKey(t))
    BY <2>3 DEF Has, AdvancementKey, QueueKey, HookKey
  <2>5. \A x, p : IsStored(x, p) => IsStored(x, p)'
    BY <2>1 DEF IsStored
  <2> QED
    BY <2>1, <2>4, <2>5, RestKeepsWhole
<1>3. CASE BeginTurn \/ CloseTurn \/ PourOffStands \/ CompactionStands \/ UNCHANGED vars
  <2>1. UNCHANGED <<script, settled, call, claims, stored>>
    BY <1>3 DEF BeginTurn, CloseTurn, PourOffStands, CompactionStands
  <2>2. \A x, p : IsStored(x, p) => IsStored(x, p)'
    BY <2>1 DEF IsStored
  <2> QED
    BY <2>1, <2>2, RestKeepsWhole DEF Has, AdvancementKey, QueueKey
<1>4. CASE Restart
  <2>1. UNCHANGED <<script, settled, stored>> /\ call'.pc = "idle" /\ claims' = <<>>
    BY <1>4 DEF Restart, IdleCall
  <2>2. \A x, p : IsStored(x, p) => IsStored(x, p)'
    BY <2>1 DEF IsStored
  <2>3. \A key : ~Has(claims', key)
    BY <2>1, EmptySeq DEF Has
  <2>4. \A t : ~Has(claims, AdvancementKey(t))' /\ ~Has(claims, QueueKey(t))'
    BY <2>3 DEF Has, AdvancementKey, QueueKey
  <2> QED
    BY <2>1, <2>2, <2>4, RestKeepsWhole
<1> QED
  BY <1>1, <1>2, <1>3, <1>4

LEMMA QueueKeepsWhole ==
    ASSUME TurnRecordingConstants, NoAnswerIsLost, WholeInv, OwnInv',
           CommitDuplicate \/ CommitStarts
    PROVE  WholeInv'
<1> USE DEF hostVars, serverVars
<1>0. /\ OwnInv /\ Typed /\ call.pc = "idle" /\ UNCHANGED <<script, stored>>
      /\ claims \in Seq(ClaimKeys) /\ Len(claims) <= ClaimLimit
  BY DEF WholeInv, OwnInv, TypesInv, Typed, TypeOK, CommitDuplicate, CommitStarts,
         NoAnswerIsLost, Fails
<1>1. /\ queue # <<>> /\ Head(queue) = begun /\ begun \in Turns /\ begun \in Nat
  <2>1. queue # <<>> /\ queue = <<begun>> /\ begun # 0
    BY <1>0 DEF OwnInv, QueuedIsHeard, CommitDuplicate, CommitStarts
  <2>2. begun \in Turns /\ begun \in Nat
    BY <2>1, <1>0, NumbersOfTurns
  <2> QED
    BY <2>1, <2>2
<1>2. AdvancementKey(begun) \in ClaimKeys /\ QueueKey(begun) \in ClaimKeys
      /\ QueueKey(begun) # AdvancementKey(begun)
  BY <1>1 DEF AdvancementKey, QueueKey, ClaimKeys
<1> DEFINE withKey == Claimed(claims, AdvancementKey(begun))
<1>3. /\ withKey \in Seq(ClaimKeys) /\ Len(withKey) <= ClaimLimit
      /\ \A other : Has(withKey, other) => Has(claims, other) \/ other = AdvancementKey(begun)
  BY <1>0, <1>2, ClaimingAdds
<1> HIDE DEF withKey
<1>4. \A t : Whole(t) => Whole(t)'
  BY <1>0 DEF Whole, IsStored, LastPlace
<1>5. CASE CommitDuplicate
  <2>1. /\ IsDuplicate(begun) /\ Answered(begun) /\ UNCHANGED <<call, begun>>
        /\ claims' = claims \/ claims' = withKey
    BY <1>5, <1>1 DEF CommitDuplicate, withKey
  <2>2. Has(claims, AdvancementKey(begun)) \/ Has(claims, QueueKey(begun))
    BY <2>1, <1>2, <1>3 DEF IsDuplicate, withKey
  <2>3. Whole(begun)
    BY <2>2, <1>0, <1>1 DEF WholeInv, ClaimedIsWhole
  <2>4. settled' \subseteq settled \cup {begun}
    BY <2>1 DEF Answered
  <2>5. SettledIsWhole'
    BY <2>3, <2>4, <1>4 DEF WholeInv, SettledIsWhole
  <2>6. ClaimedIsWhole'
    <3> SUFFICES ASSUME NEW t \in Turns,
                        (Has(claims, AdvancementKey(t)) \/ Has(claims, QueueKey(t)))'
                 PROVE  Whole(t)'
      BY DEF ClaimedIsWhole
    <3>1. \/ Has(claims, AdvancementKey(t)) \/ Has(claims, QueueKey(t)) \/ t = begun
      BY <2>1, <1>3 DEF AdvancementKey, QueueKey
    <3>2. Whole(t)
      BY <3>1, <2>3, <1>0 DEF WholeInv, ClaimedIsWhole
    <3> QED
      BY <3>2, <1>4
  <2>7. WrittenSoFar'
    BY <2>1, <1>0 DEF WrittenSoFar
  <2> QED
    BY <2>5, <2>6, <2>7 DEF WholeInv
<1>6. CASE CommitStarts
  <2>1. /\ claims' = Claimed(withKey, QueueKey(begun)) /\ UNCHANGED settled
        /\ call'.pc = "read" /\ call'.turn = begun
    BY <1>6, <1>1 DEF CommitStarts, withKey, IdleCall
  <2>2. \A other : Has(claims', other) =>
            Has(claims, other) \/ other = AdvancementKey(begun) \/ other = QueueKey(begun)
    BY <2>1, <1>2, <1>3, ClaimingAdds
  <2>3. SettledIsWhole'
    BY <2>1, <1>4 DEF WholeInv, SettledIsWhole
  <2>4. ClaimedIsWhole'
    <3> SUFFICES ASSUME NEW t \in Turns, t # begun,
                        (Has(claims, AdvancementKey(t)) \/ Has(claims, QueueKey(t)))'
                 PROVE  Whole(t)'
      BY <2>1 DEF ClaimedIsWhole
    <3>1. Has(claims, AdvancementKey(t)) \/ Has(claims, QueueKey(t))
      BY <2>2 DEF AdvancementKey, QueueKey
    <3>2. Whole(t)
      BY <3>1, <1>0 DEF WholeInv, ClaimedIsWhole
    <3> QED
      BY <3>2, <1>4
  <2>5. WrittenSoFar'
    BY <2>1 DEF WrittenSoFar
  <2> QED
    BY <2>3, <2>4, <2>5 DEF WholeInv
<1> QED
  BY <1>5, <1>6

(* A message further, or over: by then the turn is whole.                  *)
LEMMA RecordingFromKeepsWhole ==
    ASSUME TurnRecordingConstants, WholeInv, OwnInv', call.pc # "idle",
           NEW place \in Nat, place >= 1, RecordFrom(place),
           UNCHANGED <<script, begun, claims>>,
           \A x, p : IsStored(x, p) => IsStored(x, p)',
           \A p \in 1 .. place - 1 : p <= LastPlace(begun) => IsStored(begun, p)'
    PROVE  WholeInv'
<1>0. /\ OwnInv /\ TypesInv /\ call.turn = begun /\ begun \in Turns
      /\ LastPlace(begun) \in Nat
  <2>1. OwnInv /\ TypesInv /\ call.turn = begun
    BY DEF WholeInv, OwnInv, QueuedIsHeard
  <2>2. begun \in Turns /\ LastPlace(begun) \in 2 .. MaxRounds + 2 /\ MaxRounds \in Nat
    BY <2>1, TheCallsTurn
  <2> QED
    BY <2>1, <2>2
<1>1. \A t : LastPlace(t)' = LastPlace(t)
  BY DEF LastPlace
<1>2. \A t : Whole(t) => Whole(t)'
  BY <1>1 DEF Whole
<1>3. \/ place > LastPlace(begun) /\ call' = IdleCall /\ Answered(begun)
      \/ /\ place \in 1 .. LastPlace(begun) /\ UNCHANGED <<queue, settled>>
         /\ call'.pc = "write" /\ call'.turn = begun /\ call'.next = place
  BY <1>0, RecordingFrom
<1>4. \A t \in Turns : t # begun /\ (Has(claims, AdvancementKey(t)) \/ Has(claims, QueueKey(t)))'
                       => Whole(t)'
  BY <1>0, <1>2 DEF WholeInv, ClaimedIsWhole, Has, AdvancementKey, QueueKey
<1>5. CASE place > LastPlace(begun) /\ call' = IdleCall /\ Answered(begun)
  <2>1. \A p \in 1 .. LastPlace(begun) : IsStored(begun, p)'
    BY <1>0, <1>5
  <2>2. Whole(begun)'
    BY <2>1, <1>1 DEF Whole, IsStored
  <2>3. settled' \subseteq settled \cup {begun}
    BY <1>5 DEF Answered
  <2>4. SettledIsWhole'
    BY <2>2, <2>3, <1>2 DEF WholeInv, SettledIsWhole
  <2>5. ClaimedIsWhole'
    BY <2>2, <1>4 DEF ClaimedIsWhole
  <2>6. WrittenSoFar'
    BY <1>5 DEF WrittenSoFar, IdleCall
  <2> QED
    BY <2>4, <2>5, <2>6 DEF WholeInv
<1>6. CASE /\ place \in 1 .. LastPlace(begun) /\ UNCHANGED <<queue, settled>>
           /\ call'.pc = "write" /\ call'.turn = begun /\ call'.next = place
  <2>1. SettledIsWhole'
    BY <1>2, <1>6 DEF WholeInv, SettledIsWhole
  <2>2. ClaimedIsWhole'
    BY <1>4, <1>6 DEF ClaimedIsWhole
  <2>3. WrittenSoFar'
    <3>1. \A p \in 1 .. place - 1 : IsStored(begun, p)'
      BY <1>0, <1>6
    <3> QED
      BY <3>1, <1>6 DEF WrittenSoFar, IsStored
  <2> QED
    BY <2>1, <2>2, <2>3 DEF WholeInv
<1> QED
  BY <1>3, <1>5, <1>6

LEMMA CallKeepsWhole ==
    ASSUME TurnRecordingConstants, NoAnswerIsLost, WholeInv, OwnInv',
           CommitReads \/ CommitReadFails \/ CommitRecords \/ CommitRecordFails
    PROVE  WholeInv'
<1>0. /\ OwnInv /\ TypesInv /\ Typed /\ call.pc # "idle" /\ call.turn = begun
      /\ UNCHANGED <<script, begun, open, hooked, hook, claims, from>>
  BY DEF WholeInv, OwnInv, TypesInv, QueuedIsHeard, serverVars,
         CommitReads, CommitReadFails, CommitRecords, CommitRecordFails
<1>t. /\ begun \in Turns /\ LastPlace(begun) \in Nat
  <2>1. begun \in Turns /\ LastPlace(begun) \in 2 .. MaxRounds + 2 /\ MaxRounds \in Nat
    BY <1>0, TheCallsTurn
  <2> QED
    BY <2>1
<1>1. CASE CommitReads
  <2> DEFINE k == RecordedPrefixLength(Messages(begun), ServerTail)
  <2>1. k \in 0 .. LastPlace(begun) /\ \A p \in 1 .. k : IsStored(begun, p)
    BY <1>0, SkippedIsStored
  <2>2. RecordFrom(k + 1) /\ UNCHANGED stored
    BY <1>0, <1>1 DEF CommitReads, serverVars
  <2> HIDE DEF k
  <2>3. \A x, p : IsStored(x, p) => IsStored(x, p)'
    BY <2>2 DEF IsStored
  <2>4. \A p \in 1 .. (k + 1) - 1 : IsStored(begun, p)'
    BY <2>1, <2>2, <1>0, <1>t DEF IsStored
  <2>5. k + 1 \in Nat /\ k + 1 >= 1
    BY <2>1, <1>t
  <2> QED
    BY <2>2, <2>3, <2>4, <2>5, <1>0, RecordingFromKeepsWhole
<1>2. CASE CommitReadFails
  <2>1. RecordFrom(1) /\ UNCHANGED stored
    BY <1>2 DEF CommitReadFails, serverVars
  <2>2. \A x, p : IsStored(x, p) => IsStored(x, p)'
    BY <2>1 DEF IsStored
  <2>3. 1 \in Nat /\ 1 >= 1 /\ 1 .. 1 - 1 = {}
    OBVIOUS
  <2> QED
    BY <2>1, <2>2, <2>3, <1>0, RecordingFromKeepsWhole
<1>3. CASE CommitRecords
  <2> DEFINE next == call.next
  <2>1. /\ next \in 1 .. LastPlace(begun) /\ next \in Nat
        /\ Store(begun, next) /\ RecordFrom(next + 1)
        /\ \A p \in 1 .. next - 1 : IsStored(begun, p)
    BY <1>0, <1>3, <1>t DEF CommitRecords, TypesInv, InRange, WholeInv, WrittenSoFar
  <2> HIDE DEF next
  <2>2. /\ \A x, p : IsStored(x, p) => IsStored(x, p)'
        /\ \E i \in 1 .. Len(stored') : stored'[i].turn = begun /\ stored'[i].place = next
    BY <2>1, <1>0, <1>t, StoringAMessage
  <2>3. \A p : p = next => IsStored(begun, p)'
    BY <2>2, <1>0 DEF IsStored
  <2>4. \A x, p : x = begun /\ IsStored(x, p) => IsStored(begun, p)'
    BY <2>2, <1>0 DEF IsStored
  <2>5. \A p \in 1 .. (next + 1) - 1 : IsStored(begun, p)'
    BY <2>1, <2>3, <2>4
  <2>6. next + 1 \in Nat /\ next + 1 >= 1
    BY <2>1
  <2> QED
    BY <2>1, <2>2, <2>5, <2>6, <1>0, RecordingFromKeepsWhole
<1>4. CASE CommitRecordFails
  BY <1>4 DEF CommitRecordFails, NoAnswerIsLost, NoWriteFails, Fails
<1> QED
  BY <1>1, <1>2, <1>3, <1>4

LEMMA WholeInvHolds == ASSUME TurnRecordingConstants, NoAnswerIsLost PROVE Spec => []WholeInv
<1>1. Init /\ OwnInv => WholeInv
  <2>1. Init => Len(claims) = 0 /\ settled = {} /\ call.pc = "idle"
    BY DEF Init, IdleCall
  <2> QED
    BY <2>1 DEF WholeInv, SettledIsWhole, ClaimedIsWhole, WrittenSoFar, Has
<1>2. WholeInv /\ OwnInv' /\ [Next]_vars => WholeInv'
  BY HostKeepsWhole, QueueKeepsWhole, CallKeepsWhole DEF Next, CommitStep, NoAnswerIsLost
<1>3. NoWriteFails
  BY DEF NoAnswerIsLost
<1> QED
  BY <1>1, <1>2, <1>3, OwnInvHolds, PTL DEF Spec

LEMMA WholeIsSettled == ASSUME TurnRecordingConstants, WholeInv PROVE SettledTurnsAreWhole
<1> SUFFICES ASSUME NEW t \in settled, NEW place \in 1 .. Len(Messages(t))
             PROVE  IsStored(t, place)
  BY DEF SettledTurnsAreWhole
<1>1. t \in Turns
  BY DEF WholeInv, OwnInv, TypesInv, Typed, TypeOK, TurnRecordingConstants, Turns
<1>2. Len(Messages(t)) = LastPlace(t)
  BY <1>1, MessagesOfATurn DEF WholeInv, OwnInv, TypesInv
<1> QED
  BY <1>2 DEF WholeInv, SettledIsWhole, Whole

---------------------------------------------------------------------------
(* The variables keep their types, whatever fails and whether or not the   *)
(* host waits; what is to be recorded next is a place of the turn          *)
(* (context-engine.ts, commitTurn).                                        *)
THEOREM TypesHold == ASSUME TurnRecordingConstants PROVE Spec => []TypeOK
<1>1. TypesInv => TypeOK
  BY DEF TypesInv, Typed
<1> QED
  BY <1>1, TypesInvHolds, PTL

(* A message stands on the server once, when the host waits and no read or *)
(* write fails: "a restart or a replayed commit does not double it either" *)
(* (context-engine.ts).                                                    *)
THEOREM OnceEach ==
    ASSUME TurnRecordingConstants, QuietServer PROVE Spec => []EachMessageOnce
<1>1. IInv => EachMessageOnce
  BY StoredIsGood
<1> QED
  BY <1>1, InvariantHolds, PTL

(* The session reads as the conversation went, in the same setting: hook   *)
(* and queue do not tear a turn (context-lifecycle-service.ts, afterTurn). *)
THEOREM InOrder ==
    ASSUME TurnRecordingConstants, QuietServer PROVE Spec => []StoredInOrder
<1>1. IInv => StoredInOrder
  BY StoredIsGood
<1> QED
  BY <1>1, InvariantHolds, PTL

\* What whole turns need: a recording that ends early leaves only the last message out.
NothingIsCutShort ==
    /\ NoWriteFails /\ "impatient" \notin Faults
    /\ "lost" \in Faults => Faults \cap {"read", "compact"} = {}

(* A turn the host has its answer for stands on the server whole, when the *)
(* host waits, no write fails and no turn is brought again too soon; reads *)
(* may fail and compactions come between where no write's answer is lost   *)
(* (context-engine.ts, commitTurn).                                        *)
THEOREM SettledAreWhole ==
    ASSUME TurnRecordingConstants, NothingIsCutShort PROVE Spec => []SettledTurnsAreWhole
<1>1. CASE "lost" \in Faults
  <2>1. QuietServer
    BY <1>1 DEF NothingIsCutShort, NoWriteFails, QuietServer
  <2>2. IInv => SettledTurnsAreWhole
    BY SettledIsGood
  <2> QED
    BY <2>1, <2>2, InvariantHolds, PTL
<1>2. CASE "lost" \notin Faults
  <2>1. NoAnswerIsLost
    BY <1>2 DEF NothingIsCutShort, NoAnswerIsLost
  <2>2. WholeInv => SettledTurnsAreWhole
    BY WholeIsSettled
  <2> QED
    BY <2>1, <2>2, WholeInvHolds, PTL
<1> QED
  BY <1>1, <1>2

(* What the queue's path skips of a turn is that turn's own, when the host *)
(* waits and no write fails, whatever else does: "an earlier identical     *)
(* message is not a repeat" (recordedPrefixLength).                        *)
THEOREM SkipsOnlyItsOwn ==
    ASSUME TurnRecordingConstants, NoWriteFails PROVE Spec => SkippedIsOwn
<1>1. OwnInv /\ [Next]_vars => [SkipsItsOwn]_vars
  BY CommitReadsSkipsOwn
<1> QED
  BY <1>1, OwnInvHolds, PTL DEF Spec, SkippedIsOwn
===========================================================================
