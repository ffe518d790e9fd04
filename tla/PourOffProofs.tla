--------------------------- MODULE PourOffProofs ---------------------------
(***************************************************************************)
(* For every X, K, floor, price handle, fault and length of a session, and *)
(* whoever runs beside whom: the variables keep their types, a pour-off is *)
(* decided on what its reads saw, and what it keeps opens with a user's    *)
(* message, not under the floor, and fits under X as the reads weighed it. *)
(***************************************************************************)
EXTENDS PourOff, WellFoundedInduction, TLAPS

---------------------------------------------------------------------------
(* The kept tail *)

LEMMA HasLeast ==
    ASSUME NEW S, S \subseteq Nat, S # {}
    PROVE  \E x \in S : \A y \in S : x <= y
  <1>1. PICK x \in S : \A y \in S : ~(<<y, x>> \in OpToRel(<, Nat))
    BY NatLessThanWellFounded, WFMin
  <1>2. \A y \in S : ~(y < x)
    BY <1>1 DEF OpToRel
  <1>3. QED
    BY <1>2

LEMMA HasGreatest ==
    ASSUME NEW n \in Nat, NEW S, S \subseteq 0 .. n, S # {}
    PROVE  \E x \in S : \A y \in S : y <= x
  <1> DEFINE T == {n - s : s \in S}
  <1>0. \A s \in S : s \in Nat /\ s <= n
    OBVIOUS
  <1>1. T \subseteq Nat /\ T # {}
    <2>1. \A s \in S : n - s \in Nat
      BY <1>0
    <2>2. \A t \in T : t \in Nat
      BY <2>1
    <2>3. QED
      BY <2>2
  <1>2. PICK x \in T : \A y \in T : x <= y
    BY <1>1, HasLeast
  <1>3. PICK s \in S : x = n - s
    BY <1>2
  <1>4. \A y \in S : n - s <= n - y
    BY <1>2, <1>3
  <1>5. QED
    BY <1>0, <1>4

LEMMA FloorTailIsEligible ==
    ASSUME NEW n \in Nat, NEW S, S \subseteq 0 .. n
    PROVE  FloorTail(S) \in S \cup {NoTail}
  <1>1. CASE S = {}
    BY <1>1 DEF FloorTail
  <1>2. CASE S # {}
    <2>1. \E s \in S : \A t \in S : t <= s
      BY <1>2, HasGreatest
    <2>2. QED
      BY <1>2, <2>1 DEF FloorTail
  <1>3. QED
    BY <1>1, <1>2

LEMMA LongestIsEligible ==
    ASSUME NEW n \in Nat, NEW S, S \subseteq 0 .. n, NEW weight, NEW cap
    PROVE  LongestWithin(S, weight, cap) \in S \cup {NoTail}
  <1> DEFINE light == {s \in S : weight[s] <= cap}
  <1>1. CASE light = {}
    BY <1>1, FloorTailIsEligible DEF LongestWithin
  <1>2. CASE light # {}
    <2>1. \A s \in S : s \in Nat
      OBVIOUS
    <2>2. \E s \in light : \A t \in light : s <= t
      BY <1>2, <2>1, HasLeast, light \subseteq Nat
    <2>3. QED
      BY <1>2, <2>2 DEF LongestWithin
  <1>3. QED
    BY <1>1, <1>2

\* What is kept, when something is poured off: some but not all of the messages, not
\* under the floor, from a user's message on.
LEMMA KeptTailOpensATurn ==
    ASSUME NEW m \in Seq(Roles), NEW window, ~NothingToPour(m, window)
    PROVE  /\ KeepCount(m, window) \in 1 .. Len(m) - 1
           /\ KeepCount(m, window) >= KeepFloor
           /\ m[Len(m) - KeepCount(m, window) + 1] = "user"
  <1> DEFINE S == EligibleStarts(m, KeepFloor)
  <1>1. Len(m) \in Nat /\ KeepFloor \in Nat
    BY PourOffConstants
  <1>2. S \subseteq 0 .. Len(m)
    BY <1>1 DEF EligibleStarts, Candidates, TurnStarts
  <1>3. KeptStart(m, window) \in S \cup {NoTail}
    BY <1>1, <1>2, FloorTailIsEligible, LongestIsEligible DEF KeptStart
  <1>4. KeptStart(m, window) \in S \ {0}
    BY <1>3 DEF NothingToPour
  <1>5. QED
    BY <1>1, <1>4 DEF KeepCount, EligibleStarts, Candidates, TurnStarts, IsEligible

LEMMA CapIsUnderX ==
    ASSUME NEW m \in Seq(Roles), NEW window \in Int
    PROVE  /\ WindowCap(m, window) \in Int /\ WindowCap(m, window) <= KeepTokens
           /\ m # <<>> /\ window # NoWindow =>
                 WindowCap(m, window) <= NotNegative(PourAt - (window - Len(m)))
  <1>1. KeepTokens \in Int /\ PourAt \in Int /\ Len(m) \in Nat
    BY PourOffConstants
  <1>2. RestOf(window, Len(m)) \in Int /\ RestOf(window, Len(m)) >= window - Len(m)
    BY <1>1 DEF RestOf, NotNegative
  <1>3. PICK r \in Int : r = RestOf(window, Len(m)) /\ r >= window - Len(m)
    BY <1>2
  <1>4. PICK x \in Int, y \in Int :
          x = NotNegative(PourAt - r) /\ y = NotNegative(PourAt - (window - Len(m))) /\ x <= y
    <2>1. \A a, b \in Int : a <= b =>
             /\ NotNegative(a) \in Int /\ NotNegative(b) \in Int
             /\ NotNegative(a) <= NotNegative(b)
      BY DEF NotNegative
    <2>2. /\ PourAt - r \in Int /\ PourAt - (window - Len(m)) \in Int
          /\ PourAt - r <= PourAt - (window - Len(m))
      BY <1>1, <1>3
    <2>3. QED
      BY <2>1, <2>2
  <1>5. CASE window # NoWindow /\ m # <<>>
    <2>1. WindowCap(m, window) = AtMost(KeepTokens, x)
      BY <1>3, <1>4, <1>5 DEF WindowCap, CapOf
    <2>2. AtMost(KeepTokens, x) \in Int /\ AtMost(KeepTokens, x) <= KeepTokens
          /\ AtMost(KeepTokens, x) <= y
      BY <1>1, <1>4 DEF AtMost
    <2>3. QED
      BY <1>4, <2>1, <2>2
  <1>6. CASE ~(window # NoWindow /\ m # <<>>)
    <2>1. WindowCap(m, window) = KeepTokens
      BY <1>6 DEF WindowCap
    <2>2. QED
      BY <1>1, <1>6, <2>1
  <1>7. QED
    BY <1>5, <1>6

\* And it weighs no more than the cap, or no eligible tail is shorter.
LEMMA KeptTailIsLightOrShortest ==
    ASSUME NEW m \in Seq(Roles), NEW window \in Int, ~NothingToPour(m, window)
    PROVE  \/ /\ KeepCount(m, window) <= KeepTokens
              /\ window # NoWindow => KeepCount(m, window) <= PourAt - (window - Len(m))
           \/ \A s \in EligibleStarts(m, KeepFloor) : KeepCount(m, window) <= Len(m) - s
  <1> DEFINE S == EligibleStarts(m, KeepFloor)
             w == Weight(m)
             cap == WindowCap(m, window)
             start == KeptStart(m, window)
             light == {s \in S : w[s] <= cap}
  <1>1. /\ Len(m) \in Nat /\ KeepFloor \in Nat /\ KeepTokens \in Nat /\ PourAt \in Nat
        /\ KeepCount(m, window) \in 1 .. Len(m) - 1
    BY PourOffConstants, KeptTailOpensATurn
  <1>2. S \subseteq 0 .. Len(m)
    BY <1>1 DEF EligibleStarts, Candidates, TurnStarts
  <1>3. /\ cap \in Int /\ cap <= KeepTokens
        /\ window # NoWindow => cap <= NotNegative(PourAt - (window - Len(m)))
    <2>1. m # <<>>
      BY <1>1
    <2>2. QED
      BY <2>1, CapIsUnderX
  <1>4. \A s \in S : w[s] = Len(m) - s /\ s \in Nat
    BY <1>1, <1>2 DEF Weight
  <1>5. start \notin {NoTail, 0} /\ KeepCount(m, window) = Len(m) - start
    BY DEF NothingToPour, KeepCount
  <1>6. start = FloorTail(S) \/ start = LongestWithin(S, w, cap)
    BY DEF KeptStart
  <1> HIDE DEF S, w, cap, start
  <1>7. CASE start = FloorTail(S)
    <2>1. S # {}
      BY <1>5, <1>7 DEF FloorTail
    <2>2. \E s \in S : \A t \in S : t <= s
      BY <1>1, <1>2, <2>1, HasGreatest
    <2>3. start \in S /\ \A t \in S : t <= start
      BY <1>7, <2>1, <2>2 DEF FloorTail
    <2>4. \A t \in S : Len(m) - start <= Len(m) - t
      BY <1>1, <1>4, <2>3
    <2>5. QED
      BY <1>5, <2>4 DEF S
  <1>8. CASE start # FloorTail(S)
    <2>1. start = LongestWithin(S, w, cap) /\ light # {}
      BY <1>6, <1>8 DEF LongestWithin
    <2>2. \E s \in light : \A t \in light : s <= t
      BY <1>4, <2>1, HasLeast, light \subseteq Nat
    <2>3. start \in light
      BY <2>1, <2>2 DEF LongestWithin
    <2>4. KeepCount(m, window) <= cap
      BY <1>4, <1>5, <2>3
    <2>5. KeepCount(m, window) <= KeepTokens
      BY <1>1, <1>3, <2>4
    <2>6. ASSUME window # NoWindow
          PROVE  KeepCount(m, window) <= PourAt - (window - Len(m))
      BY <1>1, <1>3, <2>4, <2>6 DEF NotNegative
    <2>7. QED
      BY <2>5, <2>6
  <1>9. QED
    BY <1>7, <1>8
---------------------------------------------------------------------------
(* The server keeps its types *)

LEMMA ServerLists ==
    ASSUME ServerTypeOK
    PROVE  /\ Len(log) \in Nat /\ Len(ends) \in Nat /\ Len(verdicts) \in Nat
           /\ Archived \in 0 .. Len(log)
           /\ HandedOut \in Seq(Roles)
           /\ Live \in Seq(Roles)
           /\ Len(Live) = Len(log) - Archived
           /\ Measured \in Nat
  <1>1. Len(log) \in Nat /\ Len(ends) \in Nat /\ Len(verdicts) \in Nat
    BY DEF ServerTypeOK
  <1>2. \A n \in 0 .. Len(ends) : EndOf(n) \in 0 .. Len(log)
    BY <1>1 DEF ServerTypeOK, EndOf
  <1>3. Archived \in 0 .. Len(log)
    BY <1>1, <1>2 DEF Archived
  <1>4. EndOf(Len(verdicts)) \in 0 .. Len(log)
    BY <1>1, <1>2 DEF ServerTypeOK
  <1>5. /\ HandedOut \in Seq(Roles) /\ Live \in Seq(Roles)
        /\ Len(Live) = Len(log) - Archived
    BY <1>1, <1>3, <1>4 DEF ServerTypeOK, HandedOut, Live
  <1>6. Measured \in Nat
    BY <1>5, PourOffConstants DEF Measured
  <1>7. QED
    BY <1>1, <1>3, <1>5, <1>6

LEMMA RecordKeepsTypes ==
    ASSUME ServerTypeOK, NEW role \in Roles, Record(role)
    PROVE  ServerTypeOK'
  <1>1. log' \in Seq(Roles) /\ Len(log') = Len(log) + 1
    BY DEF ServerTypeOK, Record
  <1>2. ends' \in Seq(1 .. Len(log'))
    BY <1>1 DEF ServerTypeOK, Record
  <1>3. QED
    BY <1>1, <1>2 DEF ServerTypeOK, Record

LEMMA CommitKeepsTypes ==
    ASSUME ServerTypeOK, NEW keep \in Nat, Commit(keep)
    PROVE  ServerTypeOK'
  <1>1. CASE ~Archives(keep)
    BY <1>1 DEF ServerTypeOK, Commit
  <1>2. CASE Archives(keep)
    <2>1. Len(log) - keep \in 1 .. Len(log) /\ Len(log) - keep > Archived
      BY <1>2, ServerLists DEF Archives
    <2>2. ends' = Append(ends, Len(log) - keep) /\ UNCHANGED <<log, verdicts>>
      BY <1>2 DEF Commit
    <2>3. ends' \in Seq(1 .. Len(log)) /\ Len(ends') = Len(ends) + 1
      BY <2>1, <2>2 DEF ServerTypeOK
    <2>4. \A i, j \in 1 .. Len(ends') : i < j => ends'[i] < ends'[j]
      <3> SUFFICES ASSUME NEW i \in 1 .. Len(ends'), NEW j \in 1 .. Len(ends'), i < j
                   PROVE  ends'[i] < ends'[j]
        OBVIOUS
      <3>1. Len(ends) \in Nat
        BY DEF ServerTypeOK
      <3>2. i \in 1 .. Len(ends) /\ ends'[i] = ends[i]
        BY <2>2, <2>3, <3>1 DEF ServerTypeOK
      <3>3. CASE j \in 1 .. Len(ends)
        BY <2>2, <3>1, <3>2, <3>3 DEF ServerTypeOK
      <3>4. CASE j = Len(ends) + 1
        <4>1. ends'[j] = Len(log) - keep
          BY <2>2, <3>1, <3>4 DEF ServerTypeOK
        <4>2. ends[i] <= Archived
          <5>1. Archived = ends[Len(ends)] /\ Len(ends) \in 1 .. Len(ends)
            BY <3>1, <3>2 DEF Archived, EndOf
          <5>2. i = Len(ends) \/ ends[i] < ends[Len(ends)]
            BY <3>1, <3>2, <5>1 DEF ServerTypeOK
          <5>3. ends[i] \in 1 .. Len(log) /\ ends[Len(ends)] \in 1 .. Len(log)
            BY <3>2, <5>1 DEF ServerTypeOK
          <5>4. QED
            BY <5>1, <5>2, <5>3
        <4>3. ends[i] \in Nat
          <5>1. ends[i] \in 1 .. Len(log)
            BY <3>1, <3>2 DEF ServerTypeOK
          <5>2. QED
            BY <5>1
        <4>4. Archived \in Nat /\ Len(log) - keep \in Nat
          BY <2>1, ServerLists
        <4>5. QED
          BY <2>1, <3>2, <4>1, <4>2, <4>3, <4>4
      <3>5. j \in 1 .. Len(ends) + 1
        BY <2>3
      <3>6. QED
        BY <3>1, <3>3, <3>4, <3>5
    <2>5. /\ log' = log /\ verdicts' = verdicts
          /\ Len(verdicts) <= Len(ends) => Len(verdicts') <= Len(ends')
      BY <2>2, <2>3, ServerLists
    <2>6. QED
      BY <2>3, <2>4, <2>5 DEF ServerTypeOK
  <1>3. QED
    BY <1>1, <1>2

LEMMA WriteKeepsTypes ==
    ASSUME ServerTypeOK, NEW verdict \in Verdicts, WriteSummary(verdict)
    PROVE  ServerTypeOK'
  BY DEF ServerTypeOK, WriteSummary, Waiting
---------------------------------------------------------------------------
(* Types *)

MemoryOK ==
    /\ pourDue \in Nat \cup {NoMark}
    /\ givenUp \in BOOLEAN
    /\ gaveUpOn \subseteq Nat
    /\ since \in [archives : Nat, elsewhere : Nat, measured : Nat]

\* What the end of the hold will tell is counted.
TurnOK ==
    /\ turn \in TurnStates
    /\ shown \in BOOLEAN
    /\ untold \in Nat
    /\ turn.facts => untold > 0

CommandOK == cmd \in CommandStates

TypeInv == ServerTypeOK /\ MemoryOK /\ TurnOK /\ CommandOK

LEMMA TypeInvIsTypeOK == TypeInv => TypeOK
  BY DEF TypeInv, MemoryOK, TurnOK, CommandOK, TypeOK

LEMMA SameServer == ServerTypeOK /\ UNCHANGED serverVars => ServerTypeOK'
  BY DEF ServerTypeOK, serverVars

LEMMA SameMemory == MemoryOK /\ UNCHANGED memoryVars => MemoryOK'
  BY DEF MemoryOK, memoryVars, markVars, holdVars

LEMMA SameTurn == TurnOK /\ UNCHANGED <<turn, shown, untold>> => TurnOK'
  BY DEF TurnOK

LEMMA SameCommand == CommandOK /\ UNCHANGED cmd => CommandOK'
  BY DEF CommandOK

LEMMA IdleTypes ==
    /\ IdleTurn \in TurnStates /\ IdleTurn.facts = FALSE
    /\ IdleCommand \in CommandStates
  BY DEF IdleTurn, IdleCommand, TurnStates, CommandStates, TurnSteps, CommandSteps,
         Results, NoMark, NoWindow

LEMMA NoMessages == <<>> \in Seq(Roles)
  OBVIOUS

\* The context read is forgotten.
LEMMA TurnForgets ==
    ASSUME NEW t \in TurnStates, NEW pc \in TurnSteps, NEW p \in Nat, NEW m \in Seq(Roles)
    PROVE  [t EXCEPT !.pc = pc, !.pending = m, !.seen = 0, !.archives = 0, !.polls = p]
             \in TurnStates
  BY DEF TurnStates

\* A context is read.
LEMMA TurnReads ==
    ASSUME ServerTypeOK, NEW t \in TurnStates, NEW pc \in TurnSteps
    PROVE  ReadFor(t, pc) \in TurnStates /\ ReadFor(t, pc).facts = t.facts
  BY ServerLists DEF ReadFor, TurnStates

\* settleWindow is over.
LEMMA ContextTypes ==
    ASSUME turn \in TurnStates, NEW facts \in BOOLEAN, ToContext(facts)
    PROVE  turn' \in TurnStates /\ turn'.facts = facts
  BY IdleTypes DEF ToContext, TurnStates, TurnSteps

\* The mark.
LEMMA UnmarkTypes == MemoryOK /\ Unmark /\ UNCHANGED holdVars => MemoryOK'
  BY DEF MemoryOK, Unmark, NothingSince, holdVars

LEMMA UnheardTypes ==
    ASSUME ServerTypeOK, MemoryOK, NEW keep \in Nat,
           Unheard(keep) \/ UNCHANGED <<serverVars, since>>,
           UNCHANGED <<pourDue, holdVars>>
    PROVE  ServerTypeOK' /\ MemoryOK'
  <1>1. ServerTypeOK'
    BY CommitKeepsTypes, SameServer DEF Unheard
  <1>2. since' \in [archives : Nat, elsewhere : Nat, measured : Nat]
    <2>1. CASE since' = since
      BY <2>1 DEF MemoryOK
    <2>2. CASE since' = [since EXCEPT !.elsewhere = since.elsewhere + 1]
      BY <2>2 DEF MemoryOK
    <2>3. QED
      BY <2>1, <2>2 DEF Unheard
  <1>3. QED
    BY <1>1, <1>2 DEF MemoryOK, holdVars

LEMMA InitTypes == Init => TypeInv
  <1> SUFFICES ASSUME Init PROVE TypeInv
    OBVIOUS
  <1>1. ServerTypeOK
    BY DEF Init, ServerInit, ServerTypeOK
  <1>2. MemoryOK
    BY DEF Init, MemoryOK, NoMark, NothingSince
  <1>3. TurnOK /\ CommandOK
    BY IdleTypes DEF Init, TurnOK, CommandOK
  <1>4. QED
    BY <1>1, <1>2, <1>3 DEF TypeInv

\* The end tells of a pour-off only when one was made.
LEMMA EndTypes ==
    ASSUME TurnOK, End
    PROVE  shown' \in BOOLEAN /\ untold' \in Nat
  <1>1. shown' \in BOOLEAN
    BY DEF End
  <1>2. CASE turn.facts
    <2>1. untold > 0
      BY <1>2 DEF TurnOK
    <2>2. untold' = untold - 1
      BY <1>2 DEF End
    <2>3. untold' \in Nat
      BY <2>1, <2>2 DEF TurnOK
    <2>4. QED
      BY <1>1, <2>3
  <1>3. CASE ~turn.facts
    <2>1. untold' = untold
      BY <1>3 DEF End
    <2>2. QED
      BY <1>1, <2>1 DEF TurnOK
  <1>4. QED
    BY <1>2, <1>3

LEMMA TurnGoesOn ==
    ASSUME TurnOK, turn' \in TurnStates, turn'.facts \in {turn.facts, FALSE},
           shown' \in BOOLEAN, untold' = untold
    PROVE  TurnOK'
  BY DEF TurnOK

LEMMA IdleTurnIsOK ==
    ASSUME turn' = IdleTurn, shown' \in BOOLEAN, untold' \in Nat
    PROVE  TurnOK'
  BY IdleTypes DEF TurnOK

LEMMA SettledTypes ==
    ASSUME TurnOK, Settled
    PROVE  TurnOK'
  <1>1. turn' = IdleTurn
    BY DEF Settled
  <1>2. CASE End
    BY <1>1, <1>2, EndTypes, IdleTurnIsOK
  <1>3. CASE UNCHANGED <<shown, untold>>
    BY <1>1, <1>3, IdleTurnIsOK DEF TurnOK
  <1>4. QED
    BY <1>2, <1>3 DEF Settled

LEMMA RecoversTypes == TurnOK /\ AssembleRecovers => TurnOK'
  BY IdleTypes DEF TurnOK, AssembleRecovers

LEMMA AssembleStepTypes == TypeInv /\ (StartAssemble \/ AssembleStep) => TypeInv'
  <1> SUFFICES ASSUME ServerTypeOK, MemoryOK, TurnOK, CommandOK,
                      StartAssemble \/ AssembleStep
               PROVE  TypeInv'
    BY DEF TypeInv
  <1>0. turn \in TurnStates
    BY DEF TurnOK
  <1>1. HandedOut \in Seq(Roles) /\ Len(ends) \in Nat
    BY ServerLists
  <1>a. PICK n \in Nat : n = turn.polls + 1
    BY <1>0 DEF TurnStates
  <1>2. CASE StartAssemble
    <2>1. turn' \in TurnStates
      <3>1. CASE pourDue # NoMark /\ HoldPolls > 0
        <4>1. turn' = [IdleTurn EXCEPT !.pc = "settleRead", !.due = pourDue,
                                       !.measured = since.measured]
          BY <1>2, <3>1 DEF StartAssemble
        <4>2. QED
          BY <4>1, IdleTypes DEF MemoryOK, TurnStates, TurnSteps
      <3>2. CASE ~(pourDue # NoMark /\ HoldPolls > 0)
        <4>1. turn' = [IdleTurn EXCEPT !.pc = "contextRead"]
          BY <1>2, <3>2 DEF StartAssemble
        <4>2. QED
          BY <4>1, IdleTypes DEF TurnStates, TurnSteps
      <3>3. QED
        BY <3>1, <3>2
    <2>2. turn'.facts = FALSE
      BY <1>2 DEF StartAssemble, IdleTurn
    <2>3. shown' \in BOOLEAN /\ untold' = untold
      BY <1>2 DEF StartAssemble, TurnOK
    <2>4. TurnOK'
      BY <2>1, <2>2, <2>3, TurnGoesOn
    <2>5. QED
      BY <1>2, <2>4, SameServer, SameMemory, SameTurn,
         SameCommand DEF StartAssemble, TypeInv
  <1>3. CASE SettleRead
    <2>1. turn' \in TurnStates
      <3>1. CASE ToContext(FALSE)
        BY <1>0, <3>1, ContextTypes
      <3>2. CASE turn' = ReadFor(turn, "settlePrice")
        BY <1>0, <3>2, TurnReads DEF TurnSteps
      <3>3. QED
        BY <1>3, <3>1, <3>2 DEF SettleRead
    <2>2. turn'.facts \in {turn.facts, FALSE}
      <3>1. CASE ToContext(FALSE)
        BY <1>0, <3>1, ContextTypes
      <3>2. CASE turn' = ReadFor(turn, "settlePrice")
        BY <1>0, <3>2, TurnReads DEF TurnSteps
      <3>3. QED
        BY <1>3, <3>1, <3>2 DEF SettleRead
    <2>3. shown' \in BOOLEAN /\ untold' = untold
      BY <1>3 DEF SettleRead, TurnOK
    <2>4. TurnOK'
      BY <2>1, <2>2, <2>3, TurnGoesOn
    <2>5. MemoryOK'
      BY <1>3, UnmarkTypes, SameMemory DEF SettleRead, memoryVars
    <2>6. QED
      BY <1>3, <2>4, <2>5, SameServer, SameMemory, SameTurn,
         SameCommand DEF SettleRead, TypeInv
  <1>4. CASE SettleReadFails
    BY <1>4, RecoversTypes, SameServer, SameMemory, SameCommand DEF SettleReadFails, TypeInv
  <1>5. CASE SettleSilence
    <2>1. turn' \in TurnStates
      <3>1. CASE ToContext(FALSE)
        BY <1>0, <3>1, ContextTypes
      <3>2. CASE turn' = [turn EXCEPT !.pc = "settleRead", !.pending = <<>>, !.seen = 0,
                                      !.archives = 0, !.polls = n]
        BY <1>0, <3>2, NoMessages, TurnForgets DEF TurnSteps
      <3>3. QED
        BY <1>a, <1>5, <3>1, <3>2 DEF SettleSilence
    <2>2. turn'.facts \in {turn.facts, FALSE}
      <3>1. CASE ToContext(FALSE)
        BY <1>0, <3>1, ContextTypes
      <3>2. CASE ~ToContext(FALSE)
        BY <1>0, <1>5, <3>2 DEF SettleSilence, TurnStates
      <3>3. QED
        BY <3>1, <3>2
    <2>3. shown' \in BOOLEAN /\ untold' = untold
      BY <1>5 DEF SettleSilence, TurnOK
    <2>4. TurnOK'
      BY <2>1, <2>2, <2>3, TurnGoesOn
    <2>5. QED
      BY <1>5, <2>4, SameServer, SameMemory, SameTurn,
         SameCommand DEF SettleSilence, TypeInv
  <1>6. CASE SettlePriced
    <2>1. turn.pending \in Seq(Roles)
      BY DEF TurnOK, TurnStates
    <2>2. ~NothingToPour(turn.pending, turn.due) => KeepCount(turn.pending, turn.due) \in Nat
      BY <2>1, KeptTailOpensATurn
    <2>3. turn' \in TurnStates
      <3>1. CASE NothingToPour(turn.pending, turn.due)
        BY <1>0, <1>6, <3>1, ContextTypes DEF SettlePriced
      <3>2. CASE ~NothingToPour(turn.pending, turn.due)
        <4>1. turn' = [turn EXCEPT !.pc = "settleCommit",
                                   !.keep = KeepCount(turn.pending, turn.due)]
          BY <1>6, <3>2 DEF SettlePriced
        <4>2. PICK k \in Nat : k = KeepCount(turn.pending, turn.due)
          BY <2>2, <3>2
        <4>3. [turn EXCEPT !.pc = "settleCommit", !.keep = k] \in TurnStates
          BY <1>0 DEF TurnStates, TurnSteps
        <4>4. QED
          BY <4>1, <4>2, <4>3
      <3>3. QED
        BY <3>1, <3>2
    <2>4. turn'.facts \in {turn.facts, FALSE}
      <3>1. CASE ToContext(FALSE)
        BY <1>0, <3>1, ContextTypes
      <3>2. CASE ~ToContext(FALSE)
        BY <1>0, <1>6, <3>2 DEF SettlePriced, TurnStates
      <3>3. QED
        BY <3>1, <3>2
    <2>5. shown' \in BOOLEAN /\ untold' = untold
      BY <1>6 DEF SettlePriced, TurnOK
    <2>6. TurnOK'
      BY <2>3, <2>4, <2>5, TurnGoesOn
    <2>7. MemoryOK'
      BY <1>6, UnmarkTypes, SameMemory DEF SettlePriced, memoryVars
    <2>8. QED
      BY <1>6, <2>6, <2>7, SameServer, SameMemory, SameTurn,
         SameCommand DEF SettlePriced, TypeInv
  <1>7. CASE SettleCommit
    <2>1. turn.keep \in Nat
      BY DEF TurnOK, TurnStates
    <2>2. ServerTypeOK'
      BY <1>7, <2>1, CommitKeepsTypes DEF SettleCommit
    <2>3. TurnOK'
      <3>1. Archives(turn.keep) \in BOOLEAN
        BY DEF Archives
      <3>2. turn' \in TurnStates /\ turn'.facts = Archives(turn.keep)
        BY <1>0, <1>7, <3>1, ContextTypes DEF SettleCommit
      <3>3. shown' \in BOOLEAN /\ untold' \in Nat
        BY <1>7 DEF SettleCommit, TurnOK
      <3>4. turn'.facts => untold' > 0
        BY <1>7, <3>2 DEF SettleCommit, TurnOK
      <3>5. QED
        BY <3>2, <3>3, <3>4 DEF TurnOK
    <2>4. MemoryOK'
      BY <1>7, UnmarkTypes DEF SettleCommit
    <2>5. QED
      BY <1>7, <2>2, <2>3, <2>4, SameServer, SameMemory, SameTurn,
         SameCommand DEF SettleCommit, TypeInv
  <1>8. CASE SettleCommitFails
    <2>1. turn.keep \in Nat
      BY DEF TurnOK, TurnStates
    <2>2. ServerTypeOK' /\ MemoryOK'
      BY <1>8, <2>1, UnheardTypes DEF SettleCommitFails
    <2>3. QED
      BY <1>8, <2>2, RecoversTypes, SameCommand DEF SettleCommitFails, TypeInv
  <1>9. CASE NothingWaits
    <2>1. MemoryOK'
      BY <1>9 DEF NothingWaits, MemoryOK, markVars
    <2>2. QED
      BY <1>9, <2>1, SettledTypes, SameServer, SameMemory, SameTurn,
         SameCommand DEF NothingWaits, TypeInv
  <1>10. CASE HoldSkipped
    BY <1>10, SettledTypes, SameServer, SameMemory, SameCommand DEF HoldSkipped, TypeInv
  <1>11. CASE HoldStarts
    <2>1. turn' \in TurnStates
      BY <1>0, <1>11 DEF HoldStarts, TurnStates, TurnSteps
    <2>2. turn'.facts = turn.facts
      BY <1>0, <1>11 DEF HoldStarts, TurnStates
    <2>3. shown' \in BOOLEAN /\ untold' = untold
      BY <1>11 DEF HoldStarts, TurnOK
    <2>4. TurnOK'
      BY <2>1, <2>2, <2>3, TurnGoesOn
    <2>5. QED
      BY <1>11, <2>4, SameServer, SameMemory, SameTurn,
         SameCommand DEF HoldStarts, TypeInv
  <1>12. CASE ContextReadFails
    BY <1>12, RecoversTypes, SameServer, SameMemory, SameCommand DEF ContextReadFails, TypeInv
  <1>13. CASE HoldStands
    <2>1. shown' \in BOOLEAN /\ untold' \in Nat
      BY <1>13, EndTypes DEF HoldStands
    <2>2. turn' \in TurnStates /\ turn'.facts = FALSE
      BY <1>13 DEF HoldStands, TurnOK, TurnStates, TurnSteps
    <2>3. TurnOK'
      BY <2>1, <2>2 DEF TurnOK
    <2>4. QED
      BY <1>13, <2>3, SameServer, SameMemory, SameTurn,
         SameCommand DEF HoldStands, TypeInv
  <1>14. CASE HoldWaits
    <2>1. turn' \in TurnStates
      <3>1. turn' = [turn EXCEPT !.polls = n]
        BY <1>a, <1>14 DEF HoldWaits
      <3>2. QED
        BY <1>0, <3>1 DEF TurnStates
    <2>2. turn'.facts = turn.facts
      BY <1>0, <1>14 DEF HoldWaits, TurnStates
    <2>3. shown' \in BOOLEAN /\ untold' = untold
      BY <1>14 DEF HoldWaits, TurnOK
    <2>4. TurnOK'
      BY <2>1, <2>2, <2>3, TurnGoesOn
    <2>5. QED
      BY <1>14, <2>4, SameServer, SameMemory, SameTurn,
         SameCommand DEF HoldWaits, TypeInv
  <1>15. CASE HoldGivesUp
    <2>1. MemoryOK'
      BY <1>1, <1>15 DEF HoldGivesUp, Waiting, MemoryOK, ServerTypeOK, markVars
    <2>2. TurnOK'
      BY <1>15, EndTypes, IdleTurnIsOK DEF HoldGivesUp
    <2>3. QED
      BY <1>15, <2>1, <2>2, SameServer, SameMemory, SameTurn,
         SameCommand DEF HoldGivesUp, TypeInv
  <1>16. CASE HoldReread
    BY <1>16, SettledTypes, SameServer, SameMemory, SameCommand DEF HoldReread, TypeInv
  <1>17. CASE HoldRereadFails
    BY <1>17, RecoversTypes, SameServer, SameMemory, SameCommand DEF HoldRereadFails, TypeInv
  <1>18. QED
    BY <1>2, <1>3, <1>4, <1>5, <1>6, <1>7, <1>8, <1>9, <1>10, <1>11, <1>12, <1>13, <1>14,
       <1>15, <1>16, <1>17 DEF AssembleStep

\* The hook leaves the host's picture alone, or closes it.
LEMMA HookEndsTypes ==
    ASSUME TurnOK, HookEnds, shown' \in {shown, FALSE}, untold' = untold
    PROVE  TurnOK'
  BY IdleTurnIsOK DEF HookEnds, TurnOK

LEMMA HookStepTypes == TypeInv /\ (StartHook \/ HookStep) => TypeInv'
  <1> SUFFICES ASSUME ServerTypeOK, MemoryOK, TurnOK, CommandOK, StartHook \/ HookStep
               PROVE  TypeInv'
    BY DEF TypeInv
  <1>0. turn \in TurnStates /\ shown \in BOOLEAN
    BY DEF TurnOK
  <1>1. /\ HandedOut \in Seq(Roles) /\ Measured \in Nat /\ Len(ends) \in Nat
        /\ turn.pending \in Seq(Roles) /\ turn.todo \in Seq(Roles) /\ turn.keep \in Nat
        /\ turn.window \in Nat \cup {NoWindow} /\ Len(log) \in Nat /\ turn.measured \in Nat
    BY <1>0, ServerLists DEF TurnStates
  <1>2. CASE StartHook
    <2>1. PICK batch \in Batches, window \in HostWindows :
            turn' = [IdleTurn EXCEPT !.pc = "record", !.todo = batch, !.window = window,
                                     !.measured = Len(log)]
      BY <1>2 DEF StartHook
    <2>2. batch \in Seq(Roles) /\ window \in Nat \cup {NoWindow}
      <3>1. window \in Nat \cup {NoWindow}
        BY <1>1 DEF HostWindows
      <3>2. "user" \in Roles /\ "other" \in Roles
        BY DEF Roles
      <3>3. <<"user">> \in Seq(Roles) /\ <<"other">> \in Seq(Roles)
        BY <3>2
      <3>4. QED
        BY <3>1, <3>3 DEF Batches
    <2>3. turn' \in TurnStates
      BY <1>1, <2>1, <2>2, IdleTypes DEF TurnStates, TurnSteps
    <2>4. turn'.facts = FALSE
      BY <2>1, IdleTypes DEF TurnStates
    <2>5. TurnOK'
      BY <1>0, <1>2, <2>3, <2>4, TurnGoesOn DEF StartHook
    <2>6. QED
      BY <1>2, <2>5, SameServer, SameMemory, SameCommand DEF StartHook, TypeInv
  <1>3. CASE HookRecords
    <2>1. Head(turn.todo) \in Roles /\ Tail(turn.todo) \in Seq(Roles)
      BY <1>1, <1>3 DEF HookRecords
    <2>2. ServerTypeOK'
      BY <1>3, <2>1, RecordKeepsTypes DEF HookRecords
    <2>3. UNCHANGED <<holdVars, shown, cmd, untold>>
      BY <1>3 DEF HookRecords
    <2>4. CASE Tail(turn.todo) # <<>>
      <3>1. turn' = [turn EXCEPT !.todo = Tail(turn.todo)] /\ UNCHANGED markVars
        BY <1>3, <2>4 DEF HookRecords
      <3>2. turn' \in TurnStates /\ turn'.facts = turn.facts
        BY <1>0, <2>1, <3>1 DEF TurnStates
      <3>3. TurnOK'
        BY <1>0, <2>3, <3>2, TurnGoesOn
      <3>4. QED
        BY <2>2, <2>3, <3>1, <3>3, SameMemory, SameCommand DEF TypeInv, memoryVars
    <2>5. CASE Tail(turn.todo) = <<>>
      <3>1. AfterRecording
        BY <1>3, <2>5 DEF HookRecords
      <3>2. MemoryOK'
        BY <2>3, <3>1, UnmarkTypes, SameMemory DEF AfterRecording, memoryVars
      <3>3. CASE HookEnds
        BY <1>0, <2>2, <2>3, <3>2, <3>3, HookEndsTypes, SameCommand DEF TypeInv
      <3>4. CASE turn' = [turn EXCEPT !.pc = "hookRead", !.todo = <<>>]
        <4>1. turn' \in TurnStates /\ turn'.facts = turn.facts
          BY <1>0, <3>4, NoMessages DEF TurnStates, TurnSteps
        <4>2. TurnOK'
          BY <1>0, <2>3, <4>1, TurnGoesOn
        <4>3. QED
          BY <2>2, <2>3, <3>2, <4>2, SameCommand DEF TypeInv
      <3>5. QED
        BY <3>1, <3>3, <3>4 DEF AfterRecording
    <2>6. QED
      BY <2>4, <2>5
  <1>4. CASE HookRecordFails
    <2>1. Head(turn.todo) \in Roles
      BY <1>1, <1>4 DEF HookRecordFails
    <2>2. UNCHANGED serverVars \/ Record(Head(turn.todo))
      BY <1>4 DEF HookRecordFails
    <2>3. ServerTypeOK'
      BY <2>1, <2>2, RecordKeepsTypes, SameServer
    <2>4. TurnOK'
      BY <1>0, <1>4, HookEndsTypes DEF HookRecordFails
    <2>5. QED
      BY <1>4, <2>3, <2>4, SameMemory, SameCommand DEF HookRecordFails, TypeInv
  <1>5. CASE HookRead
    <2>1. UNCHANGED <<serverVars, memoryVars, shown, cmd, untold>>
      BY <1>5 DEF HookRead
    <2>2. CASE HookEnds
      BY <2>1, <2>2, HookEndsTypes, SameServer, SameMemory, SameCommand DEF TypeInv
    <2>3. CASE turn' = ReadFor(turn, "hookPrice")
      <3>1. turn' \in TurnStates /\ turn'.facts = turn.facts
        BY <1>0, <2>3, TurnReads DEF TurnSteps
      <3>2. TurnOK'
        BY <1>0, <2>1, <3>1, TurnGoesOn
      <3>3. QED
        BY <2>1, <3>2, SameServer, SameMemory, SameCommand DEF TypeInv
    <2>4. QED
      BY <1>5, <2>2, <2>3 DEF HookRead
  <1>6. CASE HookReadFails
    BY <1>6, HookEndsTypes, SameServer, SameMemory, SameCommand DEF HookReadFails, TypeInv
  <1>7. CASE HookSilence
    <2>1. MemoryOK'
      <3>1. since' = [archives |-> Len(ends), elsewhere |-> 0, measured |-> turn.measured]
        BY <1>7 DEF HookSilence, Mark
      <3>2. QED
        BY <1>1, <1>7, <3>1 DEF HookSilence, Mark, MemoryOK, holdVars, NoMark, NoWindow
    <2>2. QED
      BY <1>7, <2>1, HookEndsTypes, SameServer, SameCommand DEF HookSilence, TypeInv
  <1>8. CASE HookPriced
    <2>1. UNCHANGED <<serverVars, memoryVars, shown, cmd, untold>>
      BY <1>8 DEF HookPriced
    <2>2. CASE HookEnds
      BY <2>1, <2>2, HookEndsTypes, SameServer, SameMemory, SameCommand DEF TypeInv
    <2>3. CASE ~NothingToPour(turn.pending, turn.window)
      <3>1. turn' = [turn EXCEPT !.pc = "hookCommit",
                                 !.keep = KeepCount(turn.pending, turn.window)]
        BY <1>8, <2>3 DEF HookPriced
      <3>2. KeepCount(turn.pending, turn.window) \in Nat
        BY <1>1, <2>3, KeptTailOpensATurn
      <3>3. turn' \in TurnStates /\ turn'.facts = turn.facts
        BY <1>0, <3>1, <3>2 DEF TurnStates, TurnSteps
      <3>4. TurnOK'
        BY <1>0, <2>1, <3>3, TurnGoesOn
      <3>5. QED
        BY <2>1, <3>4, SameServer, SameMemory, SameCommand DEF TypeInv
    <2>4. QED
      BY <1>8, <2>2, <2>3 DEF HookPriced
  <1>9. CASE HookCommit
    <2>1. ServerTypeOK'
      BY <1>1, <1>9, CommitKeepsTypes DEF HookCommit
    <2>2. MemoryOK'
      BY <1>9, UnmarkTypes DEF HookCommit
    <2>3. shown' \in {shown, FALSE} /\ untold' = untold /\ HookEnds /\ UNCHANGED cmd
      BY <1>9 DEF HookCommit
    <2>4. QED
      BY <2>1, <2>2, <2>3, HookEndsTypes, SameCommand DEF TypeInv
  <1>10. CASE HookCommitFails
    <2>1. ServerTypeOK' /\ MemoryOK'
      BY <1>1, <1>10, UnheardTypes DEF HookCommitFails
    <2>2. QED
      BY <1>10, <2>1, HookEndsTypes, SameCommand DEF HookCommitFails, TypeInv
  <1>11. QED
    BY <1>2, <1>3, <1>4, <1>5, <1>6, <1>7, <1>8, <1>9, <1>10 DEF HookStep

\* Nothing but the command lane moves, and the server by at most a commit.
LEMMA CompactStepTypes == TypeInv /\ (StartCompact \/ CompactStep \/ Reset) => TypeInv'
  <1> SUFFICES ASSUME ServerTypeOK, MemoryOK, TurnOK, CommandOK,
                      StartCompact \/ CompactStep \/ Reset
               PROVE  TypeInv'
    BY DEF TypeInv
  <1>0. cmd \in CommandStates
    BY DEF CommandOK
  <1>1. /\ HandedOut \in Seq(Roles) /\ Measured \in Nat /\ Len(ends) \in Nat
        /\ cmd.pending \in Seq(Roles) /\ cmd.keep \in Nat /\ Len(log) \in Nat
    BY <1>0, ServerLists DEF CommandStates
  <1>2. PICK n \in Nat : n = cmd.polls + 1
    BY <1>0 DEF CommandStates
  <1>3. ASSUME NEW result \in Results, Answer(result) PROVE cmd' \in CommandStates
    BY <1>3, IdleTypes DEF Answer, CommandStates
  <1>4. Results = {"none", "compacted", "presumed", "unchanged", "failed"}
    BY DEF Results
  <1>5. ASSUME ServerTypeOK', UNCHANGED <<memoryVars, shown, turn, untold>>,
               cmd' \in CommandStates
        PROVE  TypeInv'
    BY <1>5, SameMemory, SameTurn DEF TypeInv, CommandOK
  <1>6. CASE StartCompact
    <2>1. PICK kind \in Commands \ {"reset"}, window \in HostWindows :
            cmd' = [IdleCommand EXCEPT !.pc = "read", !.kind = kind, !.window = window,
                                       !.measured = Len(log)]
      BY <1>6 DEF StartCompact
    <2>2. kind \in {"budget", "manual"}
      BY PourOffConstants
    <2>3. window \in Nat \cup {NoWindow}
      BY <1>1 DEF HostWindows
    <2>4. cmd' \in CommandStates
      BY <1>1, <2>1, <2>2, <2>3, IdleTypes DEF CommandStates, CommandSteps
    <2>5. QED
      BY <1>5, <1>6, <2>4, SameServer DEF StartCompact
  <1>7. CASE CompactRead
    <2>1. CASE cmd' = [cmd EXCEPT !.pc = "commit"]
      BY <1>0, <1>5, <1>7, <2>1, SameServer DEF CompactRead, CommandStates, CommandSteps
    <2>2. CASE cmd' = [cmd EXCEPT !.pc = "prevPoll"]
      BY <1>0, <1>5, <1>7, <2>2, SameServer DEF CompactRead, CommandStates, CommandSteps
    <2>3. CASE cmd' = ReadFor(cmd, "price")
      <3>1. cmd' \in CommandStates
        BY <1>0, <1>1, <2>3 DEF ReadFor, CommandStates, CommandSteps
      <3>2. QED
        BY <1>5, <1>7, <3>1, SameServer DEF CompactRead
    <2>4. QED
      BY <1>7, <2>1, <2>2, <2>3 DEF CompactRead
  <1>8. CASE CompactFails
    <2>1. Unheard(cmd.keep) \/ UNCHANGED <<serverVars, since>>
      BY <1>8 DEF CompactFails
    <2>2. ServerTypeOK' /\ MemoryOK'
      BY <1>1, <1>8, <2>1, UnheardTypes DEF CompactFails
    <2>3. cmd' \in CommandStates
      BY <1>3, <1>4, <1>8 DEF CompactFails
    <2>4. QED
      BY <1>8, <2>2, <2>3, SameTurn DEF CompactFails, TypeInv, CommandOK
  <1>9. CASE PreviousStands
    BY <1>3, <1>4, <1>5, <1>9, SameServer DEF PreviousStands
  <1>10. CASE PreviousWaits
    <2>1. CASE cmd' = [cmd EXCEPT !.polls = n]
      BY <1>0, <1>5, <1>10, <2>1, SameServer DEF PreviousWaits, CommandStates
    <2>2. CASE Answer("failed")
      BY <1>3, <1>4, <1>5, <1>10, <2>2, SameServer DEF PreviousWaits
    <2>3. QED
      BY <1>2, <1>10, <2>1, <2>2 DEF PreviousWaits
  <1>11. CASE CompactSilence
    BY <1>3, <1>4, <1>5, <1>11, SameServer DEF CompactSilence
  <1>12. CASE CompactPriced
    <2>1. CASE Answer("unchanged")
      BY <1>3, <1>4, <1>5, <1>12, <2>1, SameServer DEF CompactPriced
    <2>2. CASE ~NothingToPour(cmd.pending, cmd.window)
      <3>1. KeepCount(cmd.pending, cmd.window) \in Nat
        BY <1>1, <2>2, KeptTailOpensATurn
      <3>2. cmd' = [cmd EXCEPT !.pc = "commit",
                               !.keep = KeepCount(cmd.pending, cmd.window)]
        BY <1>12, <2>2 DEF CompactPriced
      <3>3. cmd' \in CommandStates
        BY <1>0, <3>1, <3>2 DEF CommandStates, CommandSteps
      <3>4. QED
        BY <1>5, <1>12, <3>3, SameServer DEF CompactPriced
    <2>3. QED
      BY <1>12, <2>1, <2>2 DEF CompactPriced
  <1>13. CASE CompactCommit
    <2>1. ServerTypeOK' /\ MemoryOK' /\ TurnOK'
      BY <1>1, <1>13, UnheardTypes, SameTurn DEF CompactCommit
    <2>2. cmd' \in CommandStates
      <3>1. CASE Archives(cmd.keep)
        <4>1. Len(ends) + 1 \in Nat /\ cmd.kind \in {"budget", "manual"}
          BY <1>0, <1>1 DEF CommandStates
        <4>2. cmd' = [IdleCommand EXCEPT !.pc = "askSession", !.kind = cmd.kind,
                                         !.archive = Len(ends) + 1]
          BY <1>13, <3>1 DEF CompactCommit
        <4>3. QED
          BY <4>1, <4>2, IdleTypes DEF CommandStates, CommandSteps
      <3>2. CASE Answer("unchanged")
        BY <1>3, <1>4, <3>2
      <3>3. QED
        BY <1>13, <3>1, <3>2 DEF CompactCommit
    <2>3. QED
      BY <2>1, <2>2 DEF TypeInv, CommandOK
  <1>14. CASE AskSession
    <2>1. CASE cmd' = [cmd EXCEPT !.pc = "askTask"]
      BY <1>0, <1>5, <1>14, <2>1, SameServer DEF AskSession, CommandStates, CommandSteps
    <2>2. CASE Answer("compacted")
      BY <1>3, <1>4, <1>5, <1>14, <2>2, SameServer DEF AskSession
    <2>3. QED
      BY <1>14, <2>1, <2>2 DEF AskSession
  <1>15. CASE AskTask
    <2>1. CASE cmd' = [cmd EXCEPT !.pc = "askSession", !.polls = n]
      <3>1. cmd' \in CommandStates
        BY <1>0, <2>1 DEF CommandStates, CommandSteps
      <3>2. QED
        BY <1>5, <1>15, <3>1, SameServer DEF AskTask
    <2>2. CASE Answer("failed") \/ Answer("compacted")
      BY <1>3, <1>4, <1>5, <1>15, <2>2, SameServer DEF AskTask
    <2>3. QED
      BY <1>2, <1>15, <2>1, <2>2 DEF AskTask
  <1>16. CASE Reset
    <2>1. ServerTypeOK' /\ MemoryOK'
      BY <1>16, UnheardTypes DEF Reset
    <2>2. QED
      BY <1>16, <2>1, SameTurn, SameCommand DEF Reset, TypeInv, CommandOK
  <1>17. QED
    BY <1>6, <1>7, <1>8, <1>9, <1>10, <1>11, <1>12, <1>13, <1>14, <1>15, <1>16
    DEF CompactStep

LEMMA AroundTypes == TypeInv /\ (QueueRecords \/ ServerWrites \/ Restart) => TypeInv'
  <1> SUFFICES ASSUME ServerTypeOK, MemoryOK, TurnOK, CommandOK,
                      QueueRecords \/ ServerWrites \/ Restart
               PROVE  TypeInv'
    BY DEF TypeInv
  <1>1. CASE QueueRecords
    <2>1. ServerTypeOK'
      BY <1>1, RecordKeepsTypes DEF QueueRecords
    <2>2. QED
      BY <1>1, <2>1, SameMemory, SameTurn, SameCommand DEF QueueRecords, TypeInv
  <1>2. CASE ServerWrites
    <2>1. ServerTypeOK'
      BY <1>2, WriteKeepsTypes DEF ServerWrites, Verdicts
    <2>2. QED
      BY <1>2, <2>1, SameMemory, SameTurn, SameCommand DEF ServerWrites, TypeInv
  <1>3. CASE Restart
    <2>1. MemoryOK'
      BY <1>3 DEF Restart, Unmark, MemoryOK, NothingSince
    <2>2. TurnOK' /\ CommandOK'
      BY <1>3, IdleTypes, IdleTurnIsOK DEF Restart, CommandOK
    <2>3. QED
      BY <1>3, <2>1, <2>2, SameServer DEF Restart, TypeInv
  <1>4. QED
    BY <1>1, <1>2, <1>3

LEMMA TypesKept == TypeInv /\ [Next]_vars => TypeInv'
  <1> SUFFICES ASSUME TypeInv, [Next]_vars PROVE TypeInv'
    OBVIOUS
  <1>1. CASE UNCHANGED vars
    BY <1>1, SameServer, SameMemory, SameTurn, SameCommand DEF TypeInv, vars
  <1>2. CASE Next
    BY <1>2, AssembleStepTypes, HookStepTypes, CompactStepTypes, AroundTypes DEF Next
  <1>3. QED
    BY <1>1, <1>2

THEOREM TypeInvHolds == Spec => []TypeInv
  BY InitTypes, TypesKept, PTL DEF Spec

\* Whatever fails and whoever runs beside whom, the variables keep their types: what
\* is kept is a number of messages, and the count of pour-offs not told of yet never
\* falls below nought.
THEOREM TypesHold == Spec => []TypeOK
  BY TypeInvHolds, TypeInvIsTypeOK, PTL

---------------------------------------------------------------------------
(* Pouring off, whoever runs beside whom *)

\* How many messages stand in archives whose summary is over.
Handed == EndOf(Len(verdicts))

\* The server's lists only grow.
Grows ==
    /\ Len(log) <= Len(log')
    /\ \A i \in 1 .. Len(log) : log'[i] = log[i]
    /\ Len(ends) <= Len(ends')
    /\ Len(verdicts) <= Len(verdicts')
    /\ Handed <= Handed'

LEMMA SameServerGrows ==
    ASSUME ServerTypeOK, UNCHANGED serverVars
    PROVE  Grows
  <1>1. Len(log) \in Nat /\ Len(ends) \in Nat /\ Len(verdicts) \in Nat /\ Handed \in Int
    BY DEF ServerTypeOK, Handed, EndOf
  <1>2. UNCHANGED <<log, ends, verdicts>> /\ Handed' = Handed
    BY DEF serverVars, Handed, EndOf
  <1>3. QED
    BY <1>1, <1>2 DEF Grows

LEMMA RecordGrows ==
    ASSUME ServerTypeOK, NEW role, Record(role)
    PROVE  Grows
  <1>1. /\ Len(log) \in Nat /\ Len(ends) \in Nat /\ Len(verdicts) \in Nat /\ Handed \in Int
        /\ log \in Seq(Roles)
    BY DEF ServerTypeOK, Handed, EndOf
  <1>2. UNCHANGED <<ends, verdicts>> /\ Handed' = Handed /\ log' = Append(log, role)
    BY DEF Record, Handed, EndOf
  <1>3. Len(log') = Len(log) + 1 /\ \A i \in 1 .. Len(log) : log'[i] = log[i]
    BY <1>1, <1>2
  <1>4. QED
    BY <1>1, <1>2, <1>3 DEF Grows

LEMMA CommitGrows ==
    ASSUME ServerTypeOK, NEW keep \in Nat, Commit(keep)
    PROVE  Grows
  <1>1. /\ Len(log) \in Nat /\ Len(ends) \in Nat /\ Len(verdicts) \in Nat /\ Handed \in Int
        /\ ends \in Seq(1 .. Len(log)) /\ Len(verdicts) <= Len(ends)
    BY DEF ServerTypeOK, Handed, EndOf
  <1>2. UNCHANGED <<log, verdicts>>
    BY DEF Commit
  <1>3. ends' = ends \/ ends' = Append(ends, Len(log) - keep)
    BY DEF Commit
  <1>4. Len(ends) <= Len(ends') /\ \A i \in 1 .. Len(ends) : ends'[i] = ends[i]
    <2>0. Len(log) - keep \in Int
      BY <1>1
    <2>1. PICK e \in Int : e = Len(log) - keep
      BY <2>0
    <2>2. CASE ends' = ends
      BY <1>1, <2>2
    <2>3. CASE ends' = Append(ends, e)
      <3>1. ends \in Seq(Int)
        BY <1>1
      <3>2. QED
        BY <1>1, <2>3, <3>1
    <2>4. QED
      BY <1>3, <2>1, <2>2, <2>3
  <1>5. Handed' = Handed
    <2>1. CASE Len(verdicts) = 0
      BY <1>2, <2>1 DEF Handed, EndOf
    <2>2. CASE Len(verdicts) # 0
      BY <1>1, <1>2, <1>4, <2>2 DEF Handed, EndOf
    <2>3. QED
      BY <2>1, <2>2
  <1>6. QED
    BY <1>1, <1>2, <1>4, <1>5 DEF Grows

LEMMA WriteGrows ==
    ASSUME ServerTypeOK, NEW verdict \in Verdicts, WriteSummary(verdict)
    PROVE  Grows
  <1>1. /\ Len(log) \in Nat /\ Len(ends) \in Nat /\ Len(verdicts) \in Nat
        /\ ends \in Seq(1 .. Len(log)) /\ verdicts \in Seq(Verdicts)
        /\ \A i, j \in 1 .. Len(ends) : i < j => ends[i] < ends[j]
    BY DEF ServerTypeOK
  <1>2. /\ UNCHANGED <<log, ends>> /\ verdicts' = Append(verdicts, verdict)
        /\ Len(verdicts) + 1 \in 1 .. Len(ends)
    BY <1>1 DEF WriteSummary, Waiting
  <1>3. Len(verdicts') = Len(verdicts) + 1
    BY <1>1, <1>2
  <1>4. Handed' = ends[Len(verdicts) + 1]
    BY <1>1, <1>2, <1>3 DEF Handed, EndOf
  <1>5. Handed' \in Nat
    BY <1>1, <1>2, <1>4
  <1>6. Handed <= Handed'
    <2>1. CASE Len(verdicts) = 0
      BY <1>5, <2>1 DEF Handed, EndOf
    <2>2. CASE Len(verdicts) # 0
      <3>1. Len(verdicts) \in 1 .. Len(ends) /\ Handed = ends[Len(verdicts)]
        BY <1>1, <1>2, <2>2 DEF Handed, EndOf
      <3>2. ends[Len(verdicts)] < ends[Len(verdicts) + 1]
        BY <1>1, <1>2, <3>1
      <3>3. ends[Len(verdicts)] \in Nat
        BY <1>1, <3>1
      <3>4. QED
        BY <1>4, <1>5, <3>1, <3>2, <3>3
    <2>3. QED
      BY <2>1, <2>2
  <1>7. QED
    BY <1>1, <1>2, <1>3, <1>6 DEF Grows

\* Who makes an archive.
LEMMA StepsOfTheServer ==
    ASSUME Next
    PROVE  \/ UNCHANGED serverVars
           \/ \E role : Record(role)
           \/ \E verdict \in Verdicts : WriteSummary(verdict)
           \/ turn.pc \in {"settleCommit", "hookCommit"} /\ Commit(turn.keep) /\ UNCHANGED cmd
           \/ cmd.pc = "commit" /\ Commit(cmd.keep) /\ UNCHANGED turn
           \/ cmd.pc = "idle" /\ Commit(0) /\ UNCHANGED <<turn, cmd>>
  <1>1. CASE StartAssemble \/ StartHook \/ StartCompact \/ Restart
    BY <1>1 DEF StartAssemble, StartHook, StartCompact, Restart
  <1>2. CASE AssembleStep
    BY <1>2
    DEF AssembleStep, SettleRead, SettleReadFails, SettleSilence, SettlePriced, SettleCommit,
        SettleCommitFails, NothingWaits, HoldSkipped, HoldStarts, ContextReadFails,
        HoldStands, HoldWaits, HoldGivesUp, HoldReread, HoldRereadFails, Unheard
  <1>3. CASE HookStep
    BY <1>3
    DEF HookStep, HookRecords, HookRecordFails, HookRead, HookReadFails, HookSilence,
        HookPriced, HookCommit, HookCommitFails, Unheard
  <1>4. CASE CompactStep
    BY <1>4
    DEF CompactStep, CompactRead, CompactFails, PreviousStands, PreviousWaits,
        CompactSilence, CompactPriced, CompactCommit, AskSession, AskTask, Unheard
  <1>5. CASE Reset
    BY <1>5 DEF Reset, CommandFree, Unheard
  <1>6. CASE QueueRecords
    BY <1>6 DEF QueueRecords
  <1>7. CASE ServerWrites
    BY <1>7 DEF ServerWrites, Verdicts
  <1>8. QED
    BY <1>1, <1>2, <1>3, <1>4, <1>5, <1>6, <1>7 DEF Next

LEMMA ServerGrows ==
    ASSUME TypeInv, [Next]_vars
    PROVE  Grows
  <1>0. ServerTypeOK /\ turn.keep \in Nat /\ cmd.keep \in Nat /\ 0 \in Nat
    BY DEF TypeInv, TurnOK, TurnStates, CommandOK, CommandStates
  <1>1. CASE UNCHANGED vars
    BY <1>0, <1>1, SameServerGrows DEF vars
  <1>2. CASE Next
    BY <1>0, <1>2, StepsOfTheServer, SameServerGrows, RecordGrows, WriteGrows, CommitGrows
  <1>3. QED
    BY <1>1, <1>2

---------------------------------------------------------------------------
(* What the window was measured to weigh *)

\* A weight of the window is of a request in which no less was handed out than of the
\* messages it counts is now.
WeighsAtLeast(window, measured) == window # NoWindow => window >= Base + measured - Handed

MeasuredInv ==
    /\ WeighsAtLeast(pourDue, since.measured)
    /\ WeighsAtLeast(turn.due, turn.measured)
    /\ WeighsAtLeast(turn.window, turn.measured)
    /\ WeighsAtLeast(cmd.window, cmd.measured)

\* The numbers of a state.
Numbers ==
    /\ Base \in Nat /\ Handed \in 0 .. Len(log) /\ Len(log) \in Nat
    /\ pourDue \in Int /\ since.measured \in Nat
    /\ turn.due \in Int /\ turn.window \in Int /\ turn.measured \in Nat
    /\ cmd.window \in Int /\ cmd.measured \in Nat

LEMMA NumbersOfAState == TypeInv => Numbers
  <1> SUFFICES ASSUME TypeInv PROVE Numbers
    OBVIOUS
  <1>1. ServerTypeOK /\ MemoryOK /\ turn \in TurnStates /\ cmd \in CommandStates
    BY DEF TypeInv, TurnOK, CommandOK
  <1>2. Base \in Nat /\ Len(log) \in Nat /\ Handed \in 0 .. Len(log)
    BY <1>1, PourOffConstants DEF ServerTypeOK, Handed, EndOf
  <1>3. pourDue \in Int /\ since.measured \in Nat
    BY <1>1 DEF MemoryOK, NoMark
  <1>4. turn.due \in Int /\ turn.window \in Int /\ turn.measured \in Nat
    BY <1>1 DEF TurnStates, NoMark, NoWindow
  <1>5. cmd.window \in Int /\ cmd.measured \in Nat
    BY <1>1 DEF CommandStates, NoWindow
  <1>6. QED
    BY <1>2, <1>3, <1>4, <1>5 DEF Numbers

LEMMA WeightStays ==
    ASSUME NEW window \in Int, NEW measured \in Nat, NEW later \in 0 .. measured,
           Base \in Nat, Handed \in Nat, Handed' \in Nat, Handed <= Handed',
           WeighsAtLeast(window, measured)
    PROVE  WeighsAtLeast(window, later)'
  <1>1. \A b, h, l \in Nat : h <= l /\ window >= b + measured - h => window >= b + later - l
    OBVIOUS
  <1>2. window # NoWindow => window >= Base + measured - Handed
    BY DEF WeighsAtLeast
  <1>3. window # NoWindow => window >= Base + later - Handed'
    BY <1>1, <1>2
  <1>4. QED
    BY <1>3 DEF WeighsAtLeast

LEMMA NoWeight ==
    /\ \A measured : WeighsAtLeast(NoWindow, measured)'
    /\ \A measured : WeighsAtLeast(NoMark, measured)'
  BY DEF WeighsAtLeast, NoMark, NoWindow

\* The host passes on what the counter said.
LEMMA HostMeasures ==
    ASSUME ServerTypeOK, NEW window \in HostWindows, UNCHANGED serverVars
    PROVE  WeighsAtLeast(window, Len(log))'
  <1>1. Len(log) \in Nat /\ Handed \in 0 .. Len(log) /\ log \in Seq(Roles) /\ Base \in Nat
    BY PourOffConstants DEF ServerTypeOK, Handed, EndOf
  <1>2. HandedOut = SubSeq(log, Handed + 1, Len(log))
    BY DEF HandedOut, Handed
  <1>3. Measured = Base + Len(log) - Handed
    BY <1>1, <1>2 DEF Measured
  <1>4. Handed' = Handed /\ log' = log
    BY DEF serverVars, Handed, EndOf
  <1>5. window = NoWindow \/ window = Base + Len(log) - Handed
    BY <1>3 DEF HostWindows
  <1>6. QED
    BY <1>1, <1>4, <1>5 DEF WeighsAtLeast

\* Each weight of the next state is a weight of this one, or the host's.
LEMMA WeightsOfTheTurn ==
    ASSUME TypeInv, StartAssemble \/ AssembleStep \/ StartHook \/ HookStep
    PROVE  /\ UNCHANGED cmd
           /\ \/ pourDue' = NoMark
              \/ pourDue' = pourDue /\ since'.measured = since.measured
              \/ pourDue' = turn.window /\ since'.measured = turn.measured
           /\ \/ turn'.due = NoMark
              \/ turn'.due = turn.due /\ turn'.measured \in {0, turn.measured}
              \/ turn'.due = pourDue /\ turn'.measured = since.measured
           /\ \/ turn'.window = NoWindow
              \/ turn'.window = turn.window /\ turn'.measured = turn.measured
              \/ /\ turn'.window \in HostWindows /\ turn'.measured = Len(log)
                 /\ UNCHANGED serverVars
  <1> USE DEF markVars, memoryVars
  <1>0. turn \in TurnStates /\ since \in [archives : Nat, elsewhere : Nat, measured : Nat]
    BY DEF TypeInv, TurnOK, MemoryOK
  <1>a. ASSUME turn' = IdleTurn
        PROVE  turn'.due = NoMark /\ turn'.window = NoWindow
    BY <1>a DEF IdleTurn
  <1>b. ASSUME NEW facts, ToContext(facts)
        PROVE  turn'.due = turn.due /\ turn'.window = NoWindow /\ turn'.measured = 0
    BY <1>b DEF ToContext, IdleTurn
  <1>c. ASSUME NEW pc, turn' = ReadFor(turn, pc)
        PROVE  turn'.due = turn.due /\ turn'.window = turn.window
               /\ turn'.measured = turn.measured
    BY <1>0, <1>c DEF ReadFor, TurnStates
  <1>d. ASSUME NEW keep, Unheard(keep) PROVE since'.measured = since.measured
    BY <1>0, <1>d DEF Unheard
  <1>1. CASE StartAssemble
    BY <1>1 DEF StartAssemble, IdleTurn
  <1>2. CASE SettleRead
    BY <1>2, <1>b, <1>c DEF SettleRead, Unmark
  <1>3. CASE SettleSilence
    <2>1. CASE ToContext(FALSE)
      BY <1>3, <1>b, <2>1 DEF SettleSilence
    <2>2. CASE ~ToContext(FALSE)
      <3>1. /\ turn'.due = turn.due /\ turn'.window = turn.window
            /\ turn'.measured = turn.measured
        BY <1>0, <1>3, <2>2 DEF SettleSilence, TurnStates
      <3>2. QED
        BY <1>3, <3>1 DEF SettleSilence
    <2>3. QED
      BY <2>1, <2>2
  <1>4. CASE SettlePriced
    <2>1. CASE ToContext(FALSE)
      BY <1>4, <1>b, <2>1 DEF SettlePriced, Unmark
    <2>2. CASE ~ToContext(FALSE)
      <3>1. /\ turn'.due = turn.due /\ turn'.window = turn.window
            /\ turn'.measured = turn.measured
        BY <1>0, <1>4, <2>2 DEF SettlePriced, TurnStates
      <3>2. QED
        BY <1>4, <3>1, <2>2 DEF SettlePriced
    <2>3. QED
      BY <2>1, <2>2
  <1>5. CASE SettleCommit
    BY <1>5, <1>b DEF SettleCommit, Unmark
  <1>6. CASE SettleCommitFails
    BY <1>6, <1>a, <1>d DEF SettleCommitFails, AssembleRecovers
  <1>7. CASE \/ SettleReadFails \/ NothingWaits \/ HoldSkipped
             \/ ContextReadFails \/ HoldGivesUp \/ HoldReread \/ HoldRereadFails
    <2>1. turn' = IdleTurn /\ UNCHANGED <<pourDue, since, cmd>>
      BY <1>7
      DEF SettleReadFails, NothingWaits, HoldSkipped, ContextReadFails, HoldGivesUp,
          HoldReread, HoldRereadFails, AssembleRecovers, Settled
    <2>2. QED
      BY <1>a, <2>1
  <1>8. CASE HoldStarts \/ HoldStands \/ HoldWaits
    <2>1. /\ turn'.due = turn.due /\ turn'.window = turn.window
          /\ turn'.measured = turn.measured
      BY <1>0, <1>8 DEF HoldStarts, HoldStands, HoldWaits, TurnStates
    <2>2. QED
      BY <1>8, <2>1 DEF HoldStarts, HoldStands, HoldWaits
  <1>9. CASE StartHook
    <2>1. PICK batch \in Batches, window \in HostWindows :
            turn' = [IdleTurn EXCEPT !.pc = "record", !.todo = batch, !.window = window,
                                     !.measured = Len(log)]
      BY <1>9 DEF StartHook
    <2>2. turn'.due = NoMark /\ turn'.window = window /\ turn'.measured = Len(log)
      BY <2>1 DEF IdleTurn
    <2>3. QED
      BY <1>9, <2>2 DEF StartHook
  <1>10. CASE HookRecords
    <2>1. CASE turn' = IdleTurn
      BY <1>10, <1>a, <2>1 DEF HookRecords, AfterRecording, Unmark
    <2>2. CASE turn' # IdleTurn
      <3>1. /\ turn'.due = turn.due /\ turn'.window = turn.window
            /\ turn'.measured = turn.measured
        BY <1>0, <1>10, <2>2 DEF HookRecords, AfterRecording, HookEnds, TurnStates
      <3>2. UNCHANGED <<pourDue, since, cmd>>
        BY <1>10, <2>2 DEF HookRecords, AfterRecording, HookEnds
      <3>3. QED
        BY <3>1, <3>2
    <2>3. QED
      BY <2>1, <2>2
  <1>11. CASE HookRead
    BY <1>11, <1>a, <1>c DEF HookRead, HookEnds
  <1>12. CASE HookPriced
    <2>1. CASE turn' = IdleTurn
      BY <1>12, <1>a, <2>1 DEF HookPriced
    <2>2. CASE turn' # IdleTurn
      <3>1. /\ turn'.due = turn.due /\ turn'.window = turn.window
            /\ turn'.measured = turn.measured
        BY <1>0, <1>12, <2>2 DEF HookPriced, HookEnds, TurnStates
      <3>2. QED
        BY <1>12, <3>1 DEF HookPriced
    <2>3. QED
      BY <2>1, <2>2
  <1>13. CASE HookSilence
    BY <1>13, <1>a DEF HookSilence, Mark, HookEnds
  <1>14. CASE HookRecordFails \/ HookReadFails
    BY <1>14, <1>a DEF HookRecordFails, HookReadFails, HookEnds
  <1>15. CASE HookCommit
    BY <1>15, <1>a DEF HookCommit, HookEnds, Unmark
  <1>16. CASE HookCommitFails
    BY <1>16, <1>a, <1>d DEF HookCommitFails, HookEnds
  <1>17. QED
    BY <1>1, <1>2, <1>3, <1>4, <1>5, <1>6, <1>7, <1>8, <1>9, <1>10, <1>11, <1>12, <1>13,
       <1>14, <1>15, <1>16 DEF AssembleStep, HookStep

LEMMA WeightsOfTheCommand ==
    ASSUME TypeInv, StartCompact \/ CompactStep \/ Reset
    PROVE  /\ UNCHANGED <<turn, pourDue>> /\ since'.measured = since.measured
           /\ \/ cmd'.window = NoWindow
              \/ cmd'.window = cmd.window /\ cmd'.measured = cmd.measured
              \/ /\ cmd'.window \in HostWindows /\ cmd'.measured = Len(log)
                 /\ UNCHANGED serverVars
  <1> USE DEF markVars, memoryVars
  <1>0. cmd \in CommandStates /\ since \in [archives : Nat, elsewhere : Nat, measured : Nat]
    BY DEF TypeInv, CommandOK, MemoryOK
  <1>a. ASSUME NEW result, Answer(result) PROVE cmd'.window = NoWindow
    BY <1>a DEF Answer, IdleCommand
  <1>b. ASSUME NEW keep, Unheard(keep) PROVE since'.measured = since.measured
    BY <1>0, <1>b DEF Unheard
  <1>1. CASE StartCompact
    <2>1. PICK kind \in Commands \ {"reset"}, window \in HostWindows :
            cmd' = [IdleCommand EXCEPT !.pc = "read", !.kind = kind, !.window = window,
                                       !.measured = Len(log)]
      BY <1>1 DEF StartCompact
    <2>2. cmd'.window = window /\ cmd'.measured = Len(log)
      BY <2>1 DEF IdleCommand
    <2>3. QED
      BY <1>1, <2>2 DEF StartCompact
  <1>2. CASE CompactRead
    <2>1. cmd'.window = cmd.window /\ cmd'.measured = cmd.measured
      BY <1>0, <1>2 DEF CompactRead, ReadFor, CommandStates
    <2>2. QED
      BY <1>2, <2>1 DEF CompactRead
  <1>3. CASE CompactFails
    BY <1>3, <1>a, <1>b DEF CompactFails
  <1>4. CASE PreviousStands \/ CompactSilence
    BY <1>4, <1>a DEF PreviousStands, CompactSilence
  <1>5. CASE PreviousWaits \/ CompactPriced \/ AskSession \/ AskTask
    <2>1. CASE \E result : Answer(result)
      BY <1>5, <1>a, <2>1 DEF PreviousWaits, CompactPriced, AskSession, AskTask
    <2>2. CASE ~\E result : Answer(result)
      <3>1. cmd'.window = cmd.window /\ cmd'.measured = cmd.measured
        BY <1>0, <1>5, <2>2 DEF PreviousWaits, CompactPriced, AskSession, AskTask, CommandStates
      <3>2. QED
        BY <1>5, <3>1 DEF PreviousWaits, CompactPriced, AskSession, AskTask
    <2>3. QED
      BY <2>1, <2>2
  <1>6. CASE CompactCommit
    <2>1. cmd'.window = NoWindow
      BY <1>6, <1>a DEF CompactCommit, IdleCommand
    <2>2. QED
      BY <1>6, <1>b, <2>1 DEF CompactCommit
  <1>7. CASE Reset
    BY <1>7, <1>b DEF Reset
  <1>8. QED
    BY <1>1, <1>2, <1>3, <1>4, <1>5, <1>6, <1>7 DEF CompactStep

LEMMA MeasuredKept ==
    ASSUME TypeInv, TypeInv', MeasuredInv, [Next]_vars
    PROVE  MeasuredInv'
  <1>a. Numbers'
    BY NumbersOfAState, PTL
  <1>0. Numbers /\ Numbers' /\ ServerTypeOK
    BY <1>a, NumbersOfAState DEF TypeInv
  <1>1. Base \in Nat /\ Handed \in Nat /\ Handed' \in Nat /\ Handed <= Handed'
    BY <1>0, ServerGrows DEF Numbers, Grows
  <1>2. ASSUME NEW window \in Int, NEW measured \in Nat
        PROVE  WeighsAtLeast(window, measured)
                 => WeighsAtLeast(window, measured)' /\ WeighsAtLeast(window, 0)'
    BY <1>1, <1>2, WeightStays
  <1>3. /\ WeighsAtLeast(pourDue, since.measured) /\ WeighsAtLeast(turn.due, turn.measured)
        /\ WeighsAtLeast(turn.window, turn.measured) /\ WeighsAtLeast(cmd.window, cmd.measured)
    BY DEF MeasuredInv
  <1>4. PICK due, marked, held, window, measured, asked, asking :
            /\ due = pourDue /\ marked = since.measured /\ held = turn.due
            /\ window = turn.window /\ measured = turn.measured
            /\ asked = cmd.window /\ asking = cmd.measured
    OBVIOUS
  <1>5. /\ due \in Int /\ marked \in Nat /\ held \in Int /\ window \in Int
        /\ measured \in Nat /\ asked \in Int /\ asking \in Nat
    BY <1>0, <1>4 DEF Numbers
  <1>6. /\ WeighsAtLeast(due, marked)' /\ WeighsAtLeast(held, measured)'
        /\ WeighsAtLeast(held, 0)' /\ WeighsAtLeast(window, measured)'
        /\ WeighsAtLeast(asked, asking)'
    BY <1>2, <1>3, <1>4, <1>5
  <1>7. PICK long : long = Len(log)
    OBVIOUS
  <1>8. ASSUME NEW w \in HostWindows, UNCHANGED serverVars PROVE WeighsAtLeast(w, long)'
    <2>1. WeighsAtLeast(w, Len(log))'
      BY <1>0, <1>8, HostMeasures
    <2>2. Len(log)' = long
      BY <1>7, <1>8 DEF serverVars
    <2>3. QED
      BY <2>1, <2>2 DEF WeighsAtLeast
  <1>9. CASE StartAssemble \/ AssembleStep \/ StartHook \/ HookStep
    <2>1. WeighsAtLeast(pourDue, since.measured)'
      BY <1>4, <1>6, <1>9, WeightsOfTheTurn, NoWeight DEF WeighsAtLeast
    <2>2. WeighsAtLeast(turn.due, turn.measured)'
      BY <1>4, <1>6, <1>9, WeightsOfTheTurn, NoWeight DEF WeighsAtLeast
    <2>3. WeighsAtLeast(turn.window, turn.measured)'
      BY <1>4, <1>6, <1>7, <1>8, <1>9, WeightsOfTheTurn, NoWeight DEF WeighsAtLeast
    <2>4. WeighsAtLeast(cmd.window, cmd.measured)'
      BY <1>4, <1>6, <1>9, WeightsOfTheTurn DEF WeighsAtLeast
    <2>5. QED
      BY <2>1, <2>2, <2>3, <2>4 DEF MeasuredInv
  <1>10. CASE StartCompact \/ CompactStep \/ Reset
    <2>1. /\ WeighsAtLeast(pourDue, since.measured)' /\ WeighsAtLeast(turn.due, turn.measured)'
          /\ WeighsAtLeast(turn.window, turn.measured)'
      BY <1>4, <1>6, <1>10, WeightsOfTheCommand DEF WeighsAtLeast
    <2>2. WeighsAtLeast(cmd.window, cmd.measured)'
      BY <1>4, <1>6, <1>7, <1>8, <1>10, WeightsOfTheCommand, NoWeight DEF WeighsAtLeast
    <2>3. QED
      BY <2>1, <2>2 DEF MeasuredInv
  <1>11. CASE QueueRecords \/ ServerWrites \/ UNCHANGED vars
    <2>1. UNCHANGED <<pourDue, since, turn, cmd>>
      BY <1>11 DEF QueueRecords, ServerWrites, vars, memoryVars, markVars
    <2>2. QED
      BY <1>4, <1>6, <2>1 DEF WeighsAtLeast, MeasuredInv
  <1>12. CASE Restart
    <2>1. pourDue' = NoMark /\ turn' = IdleTurn /\ cmd' = IdleCommand
      BY <1>12 DEF Restart, Unmark
    <2>2. QED
      BY <2>1 DEF MeasuredInv, WeighsAtLeast, IdleTurn, IdleCommand, NoMark, NoWindow
  <1>13. QED
    BY <1>9, <1>10, <1>11, <1>12 DEF Next

---------------------------------------------------------------------------
(* What a lane saw, and what it decided on *)

\* The context as a lane read it: messages that stand on the server as they did, nothing
\* waiting where the server counts, and a window that was not weighed too light for them
\* but by what was recorded since.
Saw(lane, window) ==
    /\ lane.seen <= Len(log)
    /\ ServerCounts => lane.archives <= Len(verdicts)
    /\ Len(lane.pending) <= lane.seen
    /\ \A i \in 1 .. Len(lane.pending) : lane.pending[i] = log[lane.seen - Len(lane.pending) + i]
    /\ window # NoWindow => window >= Base + lane.measured - (lane.seen - Len(lane.pending))

\* The tail it decided to keep of them.
Kept(lane, window) ==
    /\ lane.keep \in 1 .. Len(lane.pending) - 1
    /\ lane.keep >= KeepFloor
    /\ lane.pending[Len(lane.pending) - lane.keep + 1] = "user"
    /\ \/ /\ lane.keep <= KeepTokens
          /\ window # NoWindow => lane.keep <= PourAt - (window - Len(lane.pending))
       \/ \A s \in EligibleStarts(lane.pending, KeepFloor) : lane.keep <= Len(lane.pending) - s

IsLane(lane) ==
    /\ lane.pending \in Seq(Roles) /\ Len(lane.pending) \in Nat
    /\ lane.keep \in Nat /\ lane.measured \in Nat /\ lane.seen \in Nat /\ lane.archives \in Nat

LEMMA LanesOfAState ==
    ASSUME TypeInv
    PROVE  IsLane(turn) /\ IsLane(cmd) /\ TurnWindow \in Int /\ cmd.window \in Int
  <1>1. turn \in TurnStates /\ cmd \in CommandStates
    BY DEF TypeInv, TurnOK, CommandOK
  <1>2. IsLane(turn) /\ IsLane(cmd)
    BY <1>1 DEF TurnStates, CommandStates, IsLane
  <1>3. QED
    BY <1>1, <1>2 DEF TurnStates, CommandStates, TurnWindow, NoMark, NoWindow

SettleSteps == {"settleRead", "settlePrice", "settleCommit"}
HookSteps == {"record", "hookRead", "hookPrice", "hookCommit"}
PriceSteps == {"settlePrice", "hookPrice"}
CommitSteps == {"settleCommit", "hookCommit"}

TurnDecided ==
    /\ turn.pc \in SettleSteps => turn.due # NoMark
    /\ turn.pc \in HookSteps => turn.due = NoMark
    /\ turn.pc \in PriceSteps \cup CommitSteps => Saw(turn, TurnWindow)
    /\ turn.pc \in CommitSteps => Kept(turn, TurnWindow)

\* A command at the user's word does not look.
Weighs == cmd.pc = "price" \/ (cmd.pc = "commit" /\ cmd.kind = "budget")

CommandDecided ==
    /\ cmd.pc = "price" => cmd.kind = "budget"
    /\ Weighs => Saw(cmd, cmd.window)
    /\ Weighs /\ cmd.pc = "commit" => Kept(cmd, cmd.window)

DecidedInv == MeasuredInv /\ TurnDecided /\ CommandDecided

\* What was seen stays on the server.
LEMMA SawStays ==
    ASSUME ServerTypeOK, Grows, NEW lane, IsLane(lane), NEW window \in Int, Saw(lane, window),
           Len(log') \in Nat, Len(verdicts') \in Nat
    PROVE  Saw(lane, window)'
  <1>1. Len(log) \in Nat /\ Len(verdicts) \in Nat
    BY DEF ServerTypeOK
  <1>2. lane.seen <= Len(log') /\ (ServerCounts => lane.archives <= Len(verdicts'))
    BY <1>1 DEF Grows, Saw, IsLane
  <1>3. ASSUME NEW i \in 1 .. Len(lane.pending)
        PROVE  lane.pending[i] = log'[lane.seen - Len(lane.pending) + i]
    <2>1. lane.seen - Len(lane.pending) + i \in 1 .. Len(log)
      BY <1>1 DEF Saw, IsLane
    <2>2. QED
      BY <2>1 DEF Grows, Saw
  <1>4. QED
    BY <1>2, <1>3 DEF Saw

\* A lane that reads the context while nothing waits sees it.
LEMMA ReadSees ==
    ASSUME ServerTypeOK, ~SummaryPending, NEW lane, NEW new,
           new.pending = HandedOut, new.seen = Len(log), new.archives = Len(ends),
           new.measured = lane.measured, IsLane(lane), NEW window \in Int,
           WeighsAtLeast(window, lane.measured)
    PROVE  Saw(new, window)
  <1>1. /\ Len(log) \in Nat /\ Len(ends) \in Nat /\ Len(verdicts) \in Nat /\ log \in Seq(Roles)
        /\ Handed \in 0 .. Len(log)
    BY DEF ServerTypeOK, Handed, EndOf
  <1>2. PICK h \in 0 .. Len(log) : h = Handed
    BY <1>1
  <1>3. HandedOut = SubSeq(log, h + 1, Len(log))
    BY <1>2 DEF HandedOut, Handed
  <1>4. /\ Len(HandedOut) = Len(log) - h
        /\ \A i \in 1 .. Len(HandedOut) : HandedOut[i] = log[h + i]
    BY <1>1, <1>3
  <1>5. Len(log) - Len(HandedOut) = h /\ Len(HandedOut) <= Len(log)
    BY <1>1, <1>4
  <1>6. ServerCounts => Len(ends) <= Len(verdicts)
    BY <1>1 DEF SummaryPending, Waiting
  <1>7. window # NoWindow => window >= Base + lane.measured - h
    BY <1>2 DEF WeighsAtLeast
  <1>8. new.seen - Len(new.pending) = h /\ Len(new.pending) <= new.seen
    BY <1>5
  <1>9. \A i \in 1 .. Len(new.pending) :
           new.pending[i] = log[new.seen - Len(new.pending) + i]
    BY <1>4, <1>8
  <1>10. new.seen <= Len(log)
    BY <1>1
  <1>11. /\ ServerCounts => new.archives <= Len(verdicts)
         /\ window # NoWindow =>
                window >= Base + new.measured - (new.seen - Len(new.pending))
    BY <1>6, <1>7, <1>8
  <1>12. QED
    BY <1>8, <1>9, <1>10, <1>11 DEF Saw

\* The price decides on a tail.
LEMMA PriceDecides ==
    ASSUME NEW lane, IsLane(lane), NEW window \in Int,
           ~NothingToPour(lane.pending, window), NEW new, new.pending = lane.pending,
           new.keep = KeepCount(lane.pending, window)
    PROVE  Kept(new, window)
  BY KeptTailOpensATurn, KeptTailIsLightOrShortest DEF Kept, IsLane

\* The commit does what was decided.
LEMMA DecidedIsDone ==
    ASSUME ServerTypeOK, NEW lane, IsLane(lane), NEW window \in Int,
           Saw(lane, window), Kept(lane, window), Commit(lane.keep), ends' # ends
    PROVE  QueuedBehindNone(lane) /\ KeptWhole(lane) /\ FitsUnderX(lane, window)
  <1>1. /\ log \in Seq(Roles) /\ Len(log) \in Nat /\ Len(ends) \in Nat /\ Len(verdicts) \in Nat
        /\ ends \in Seq(1 .. Len(log))
        /\ KeepFloor \in Nat /\ KeepTokens \in Nat /\ PourAt \in Nat /\ Base \in Nat
    BY PourOffConstants DEF ServerTypeOK
  <1>2. PICK keep \in Nat, all \in Nat, seen \in Nat, measured \in Nat, n \in Nat :
          /\ keep = lane.keep /\ all = Len(lane.pending) /\ seen = lane.seen
          /\ measured = lane.measured /\ n = Len(log)
    BY <1>1 DEF IsLane
  <1>3. /\ seen <= n /\ all <= seen /\ 1 <= keep /\ keep <= all - 1 /\ keep >= KeepFloor
    BY <1>2 DEF Saw, Kept
  <1>4. PICK end \in 1 .. n : end = n - keep
    <2>1. n - keep \in 1 .. n
      BY <1>3
    <2>2. QED
      BY <2>1
  <1>5. Archives(keep) /\ ends' = Append(ends, end) /\ UNCHANGED log
    BY <1>2, <1>4 DEF Commit
  <1>6. Len(ends') = Len(ends) + 1 /\ ends'[Len(ends) + 1] = end
    BY <1>1, <1>2, <1>5
  <1>7. Archived' = end
    BY <1>1, <1>6 DEF Archived, EndOf
  <1>8. Live' = SubSeq(log, end + 1, n)
    BY <1>2, <1>5, <1>7 DEF Live
  <1>9. n - end = keep /\ end + 1 \in 1 .. n
    BY <1>3, <1>4
  <1>10. Live' \in Seq(Roles) /\ Len(Live') = keep /\ Live'[1] = log[end + 1]
    <2>1. end \in 0 .. Len(log) /\ Live' = SubSeq(log, end + 1, Len(log))
      BY <1>2, <1>4, <1>8
    <2>2. /\ SubSeq(log, end + 1, Len(log)) \in Seq(Roles)
          /\ Len(SubSeq(log, end + 1, Len(log))) = Len(log) - end
          /\ \A i \in 1 .. Len(log) - end : SubSeq(log, end + 1, Len(log))[i] = log[end + i]
      BY <1>1, <2>1
    <2>3. Len(log) - end = keep /\ 1 \in 1 .. Len(log) - end
      BY <1>2, <1>3, <1>9
    <2>4. QED
      BY <2>1, <2>2, <2>3
  <1>11. Head(Live') = log[end + 1]
    <2>1. Live' # <<>>
      BY <1>3, <1>10
    <2>2. QED
      BY <1>10, <2>1
  <1>12. QueuedBehindNone(lane)
    <2>1. lane.archives \in Nat /\ (ServerCounts => lane.archives <= Len(verdicts))
      BY DEF Saw, IsLane
    <2>2. QED
      BY <1>1, <2>1 DEF QueuedBehindNone, SummaryPending, Waiting
  <1>13. KeptWhole(lane)
    <2>1. ASSUME n = seen PROVE log[end + 1] = "user"
      <3>1. all - keep + 1 \in 1 .. all /\ seen - all + (all - keep + 1) = end + 1
        BY <1>3, <1>4, <2>1
      <3>2. lane.pending[all - keep + 1] = log[end + 1]
        BY <1>2, <3>1 DEF Saw
      <3>3. QED
        BY <1>2, <3>2 DEF Kept
    <2>2. UNCHANGED log
      BY <1>5
    <2>3. QED
      BY <1>2, <1>3, <1>10, <1>11, <2>1, <2>2 DEF KeptWhole
  <1>14. FitsUnderX(lane, window)
    <2>1. CASE /\ keep <= KeepTokens
               /\ window # NoWindow => keep <= PourAt - (window - all)
      <3>1. ASSUME window # NoWindow PROVE Base + keep <= PourAt + (seen - measured)
        <4>1. keep <= PourAt - (window - all)
          BY <2>1, <3>1
        <4>2. window >= Base + measured - (seen - all)
          BY <1>2, <3>1 DEF Saw
        <4>3. \A b, x, k, a, c, m \in Nat :
                 k <= x - (window - a) /\ window >= b + m - (c - a) => b + k <= x + (c - m)
          OBVIOUS
        <4>4. QED
          BY <1>1, <1>2, <4>1, <4>2, <4>3
      <3>2. QED
        BY <1>2, <1>10, <2>1, <3>1 DEF FitsUnderX
    <2>2. CASE \A s \in EligibleStarts(lane.pending, KeepFloor) : keep <= all - s
      <3>1. ASSUME NEW s \in EligibleStarts(lane.pending, KeepFloor)
            PROVE  s <= all - keep
        <4>1. s \in Nat
          BY <1>2 DEF EligibleStarts, Candidates, TurnStarts
        <4>2. keep <= all - s
          BY <2>2
        <4>3. QED
          BY <1>2, <4>1, <4>2
      <3>2. QED
        BY <1>2, <1>10, <3>1 DEF FitsUnderX
    <2>3. QED
      BY <1>2, <2>1, <2>2 DEF Kept
  <1>15. QED
    BY <1>12, <1>13, <1>14

\* A lane that does not move keeps what it decided.
LEMMA TurnDecidedStays ==
    ASSUME TypeInv, TypeInv', TurnDecided, [Next]_vars, UNCHANGED turn
    PROVE  TurnDecided'
  <1>1. PICK t, w : t = turn /\ w = TurnWindow
    OBVIOUS
  <1>2. IsLane(t) /\ w \in Int /\ ServerTypeOK /\ Len(log') \in Nat /\ Len(verdicts') \in Nat
    BY <1>1, LanesOfAState DEF TypeInv, ServerTypeOK
  <1>3. turn' = t /\ TurnWindow' = w
    BY <1>1 DEF TurnWindow
  <1>4. Saw(t, w) => Saw(t, w)'
    BY <1>2, ServerGrows, SawStays
  <1>5. QED
    BY <1>1, <1>3, <1>4 DEF TurnDecided, Saw, Kept

LEMMA CommandDecidedStays ==
    ASSUME TypeInv, TypeInv', CommandDecided, [Next]_vars, UNCHANGED cmd
    PROVE  CommandDecided'
  <1>1. PICK c, w : c = cmd /\ w = cmd.window
    OBVIOUS
  <1>2. IsLane(c) /\ w \in Int /\ ServerTypeOK /\ Len(log') \in Nat /\ Len(verdicts') \in Nat
    BY <1>1, LanesOfAState DEF TypeInv, ServerTypeOK
  <1>3. Saw(c, w) => Saw(c, w)'
    BY <1>2, ServerGrows, SawStays
  <1>4. QED
    BY <1>1, <1>3 DEF CommandDecided, Weighs, Saw, Kept

LEMMA NothingDecided ==
    /\ turn' = IdleTurn => TurnDecided'
    /\ cmd'.pc \notin {"price", "commit"} => CommandDecided'
  BY DEF TurnDecided, CommandDecided, Weighs, IdleTurn, SettleSteps, HookSteps, PriceSteps,
         CommitSteps

LEMMA TurnIsRead ==
    ASSUME TypeInv, TypeInv', MeasuredInv, TurnDecided, SettleRead \/ HookRead, Next
    PROVE  TurnDecided'
  <1> USE DEF SettleSteps, HookSteps, PriceSteps, CommitSteps
  <1>0. turn \in TurnStates /\ ServerTypeOK /\ IsLane(turn) /\ TurnWindow \in Int
    BY LanesOfAState DEF TypeInv, TurnOK
  <1>1. CASE turn' = IdleTurn
    BY <1>1, NothingDecided
  <1>2. CASE ToContext(FALSE)
    <2>1. turn'.pc = "contextRead"
      BY <1>2 DEF ToContext, IdleTurn
    <2>2. QED
      BY <2>1 DEF TurnDecided
  <1>3. CASE ~SummaryPending /\ \E pc \in PriceSteps : turn' = ReadFor(turn, pc)
    <2>1. PICK pc \in PriceSteps : turn' = ReadFor(turn, pc)
      BY <1>3
    <2>2. PICK new, w : new = ReadFor(turn, pc) /\ w = TurnWindow
      OBVIOUS
    <2>3. /\ new.pending = HandedOut /\ new.seen = Len(log) /\ new.archives = Len(ends)
          /\ new.measured = turn.measured /\ new.due = turn.due /\ new.window = turn.window
          /\ new.pc = pc
      BY <1>0, <2>2 DEF ReadFor, TurnStates
    <2>4. WeighsAtLeast(w, turn.measured)
      BY <2>2 DEF MeasuredInv, TurnWindow
    <2>5. Saw(new, w)
      BY <1>0, <1>3, <2>2, <2>3, <2>4, ReadSees
    <2>6. UNCHANGED serverVars
      BY DEF SettleRead, HookRead
    <2>7. turn' = new /\ TurnWindow' = w
      BY <2>1, <2>2, <2>3 DEF TurnWindow
    <2>8. Saw(new, w)'
      BY <2>5, <2>6 DEF Saw, serverVars
    <2>9. /\ turn'.pc \in SettleSteps => turn'.due # NoMark
          /\ turn'.pc \in HookSteps => turn'.due = NoMark
      <3>1. CASE SettleRead
        <4>1. turn.pc = "settleRead" /\ turn'.pc = "settlePrice"
          BY <1>0, <2>1, <2>3, <2>7, <3>1
          DEF SettleRead, ReadFor, ToContext, IdleTurn, TurnStates
        <4>2. QED
          BY <2>3, <2>7, <4>1 DEF TurnDecided
      <3>2. CASE HookRead
        <4>1. turn.pc = "hookRead" /\ turn'.pc = "hookPrice"
          <5>1. turn'.pc \in PriceSteps
            BY <2>3, <2>7
          <5>2. ~HookEnds
            BY <5>1 DEF HookEnds, IdleTurn
          <5>3. turn.pc = "hookRead" /\ turn' = ReadFor(turn, "hookPrice")
            BY <3>2, <5>2 DEF HookRead
          <5>4. QED
            BY <1>0, <5>3 DEF ReadFor, TurnStates
        <4>2. QED
          BY <2>3, <2>7, <4>1 DEF TurnDecided
      <3>3. QED
        BY <3>1, <3>2
    <2>10. turn'.pc \notin CommitSteps
      BY <2>3, <2>7
    <2>11. QED
      BY <2>7, <2>8, <2>9, <2>10 DEF TurnDecided, Saw
  <1>4. QED
    BY <1>1, <1>2, <1>3 DEF SettleRead, HookRead, HookEnds

LEMMA TurnIsPriced ==
    ASSUME TypeInv, TypeInv', TurnDecided, SettlePriced \/ HookPriced
    PROVE  TurnDecided'
  <1> USE DEF SettleSteps, HookSteps, PriceSteps, CommitSteps
  <1>0. turn \in TurnStates /\ IsLane(turn) /\ TurnWindow \in Int
    BY LanesOfAState DEF TypeInv, TurnOK
  <1>1. CASE turn' = IdleTurn
    BY <1>1, NothingDecided
  <1>2. CASE ToContext(FALSE)
    <2>1. turn'.pc = "contextRead"
      BY <1>2 DEF ToContext, IdleTurn
    <2>2. QED
      BY <2>1 DEF TurnDecided
  <1>3. CASE turn' # IdleTurn /\ ~ToContext(FALSE)
    <2>1. PICK new, w : new = turn' /\ w = TurnWindow
      OBVIOUS
    <2>2. ~NothingToPour(turn.pending, w)
      BY <1>3, <2>1 DEF SettlePriced, HookPriced, HookEnds, TurnWindow, TurnDecided
    <2>3. /\ new.pending = turn.pending /\ new.seen = turn.seen
          /\ new.archives = turn.archives /\ new.measured = turn.measured
          /\ new.due = turn.due /\ new.window = turn.window
          /\ \/ turn.pc = "settlePrice" /\ new.pc = "settleCommit"
             \/ turn.pc = "hookPrice" /\ new.pc = "hookCommit"
          /\ new.keep = KeepCount(turn.pending, w)
      BY <1>0, <1>3, <2>1
      DEF SettlePriced, HookPriced, HookEnds, TurnWindow, TurnDecided, TurnStates
    <2>4. Kept(new, w)
      BY <1>0, <2>1, <2>2, <2>3, PriceDecides
    <2>5. Saw(new, w)
      BY <2>1, <2>3 DEF TurnDecided, Saw
    <2>6. UNCHANGED <<log, ends, verdicts>>
      BY DEF SettlePriced, HookPriced, serverVars
    <2>7. Saw(new, w)' /\ Kept(new, w)'
      BY <2>4, <2>5, <2>6 DEF Saw, Kept
    <2>8. TurnWindow' = w
      BY <2>1, <2>3 DEF TurnWindow
    <2>9. QED
      BY <2>1, <2>3, <2>7, <2>8 DEF TurnDecided, Saw, Kept
  <1>4. QED
    BY <1>1, <1>2, <1>3

LEMMA TurnLaneDecides ==
    ASSUME TypeInv, TypeInv', MeasuredInv, TurnDecided, Next,
           StartAssemble \/ AssembleStep \/ StartHook \/ HookStep
    PROVE  TurnDecided'
  <1> USE DEF SettleSteps, HookSteps, PriceSteps, CommitSteps
  <1>0. turn \in TurnStates
    BY DEF TypeInv, TurnOK
  <1>1. ASSUME turn'.pc \in {"contextRead", "holdPoll", "holdReread"} PROVE TurnDecided'
    BY <1>1 DEF TurnDecided
  <1>2. ASSUME NEW facts, ToContext(facts) PROVE TurnDecided'
    BY <1>1, <1>2 DEF ToContext, IdleTurn
  <1>3. CASE StartAssemble
    <2>1. CASE pourDue # NoMark /\ HoldPolls > 0
      <3>1. turn'.pc = "settleRead" /\ turn'.due # NoMark
        BY <1>3, <2>1 DEF StartAssemble, IdleTurn
      <3>2. QED
        BY <3>1 DEF TurnDecided
    <2>2. CASE ~(pourDue # NoMark /\ HoldPolls > 0)
      BY <1>1, <1>3, <2>2 DEF StartAssemble, IdleTurn
    <2>3. QED
      BY <2>1, <2>2
  <1>4. CASE SettleRead \/ HookRead
    BY <1>4, TurnIsRead
  <1>5. CASE SettlePriced \/ HookPriced
    BY <1>5, TurnIsPriced
  <1>6. CASE SettleSilence
    <2>1. CASE ~ToContext(FALSE)
      <3>1. turn.pc = "settlePrice" /\ turn'.pc = "settleRead" /\ turn'.due = turn.due
        BY <1>0, <1>6, <2>1 DEF SettleSilence, TurnStates
      <3>2. QED
        BY <3>1 DEF TurnDecided
    <2>2. QED
      BY <1>2, <2>1
  <1>7. CASE SettleCommit
    BY <1>2, <1>7 DEF SettleCommit
  <1>8. CASE \/ SettleReadFails \/ SettleCommitFails \/ NothingWaits \/ HoldSkipped
             \/ ContextReadFails \/ HoldGivesUp \/ HoldReread \/ HoldRereadFails
    BY <1>8, NothingDecided
    DEF SettleReadFails, SettleCommitFails, NothingWaits, HoldSkipped, ContextReadFails,
        HoldGivesUp, HoldReread, HoldRereadFails, AssembleRecovers, Settled
  <1>9. CASE HoldStarts \/ HoldStands \/ HoldWaits
    BY <1>0, <1>1, <1>9 DEF HoldStarts, HoldStands, HoldWaits, TurnStates
  <1>10. CASE StartHook
    <2>1. turn'.pc = "record" /\ turn'.due = NoMark
      BY <1>10 DEF StartHook, IdleTurn
    <2>2. QED
      BY <2>1 DEF TurnDecided
  <1>11. CASE HookRecords
    <2>1. CASE turn' # IdleTurn
      <3>1. turn.pc = "record" /\ turn'.pc \in {"record", "hookRead"} /\ turn'.due = turn.due
        BY <1>0, <1>11, <2>1 DEF HookRecords, AfterRecording, HookEnds, TurnStates
      <3>2. QED
        BY <3>1 DEF TurnDecided
    <2>2. QED
      BY <2>1, NothingDecided
  <1>12. CASE HookRecordFails \/ HookReadFails \/ HookSilence \/ HookCommit \/ HookCommitFails
    BY <1>12, NothingDecided
    DEF HookRecordFails, HookReadFails, HookSilence, HookCommit, HookCommitFails, HookEnds
  <1>13. QED
    BY <1>3, <1>4, <1>5, <1>6, <1>7, <1>8, <1>9, <1>10, <1>11, <1>12
    DEF AssembleStep, HookStep

LEMMA CommandLaneDecides ==
    ASSUME TypeInv, TypeInv', MeasuredInv, CommandDecided, StartCompact \/ CompactStep
    PROVE  CommandDecided'
  <1>0. cmd \in CommandStates /\ ServerTypeOK /\ IsLane(cmd) /\ cmd.window \in Int
    BY LanesOfAState DEF TypeInv, CommandOK
  <1>1. ASSUME NEW result, Answer(result) PROVE CommandDecided'
    BY <1>1, NothingDecided DEF Answer, IdleCommand
  <1>2. CASE StartCompact
    <2>1. cmd'.pc = "read"
      BY <1>2 DEF StartCompact, IdleCommand
    <2>2. QED
      BY <2>1, NothingDecided
  <1>3. CASE CompactRead
    <2>1. CASE cmd' = ReadFor(cmd, "price") /\ ~SummaryPending /\ cmd.kind # "manual"
      <3>1. PICK new, w : new = cmd' /\ w = cmd.window
        OBVIOUS
      <3>2. /\ new.pending = HandedOut /\ new.seen = Len(log) /\ new.archives = Len(ends)
            /\ new.measured = cmd.measured /\ new.window = w /\ new.pc = "price"
            /\ new.kind = "budget"
        BY <1>0, <2>1, <3>1 DEF ReadFor, CommandStates
      <3>3. WeighsAtLeast(w, cmd.measured)
        BY <3>1 DEF MeasuredInv
      <3>4. Saw(new, w)
        BY <1>0, <2>1, <3>1, <3>2, <3>3, ReadSees
      <3>5. Saw(new, w)'
        BY <1>3, <3>4 DEF CompactRead, Saw, serverVars
      <3>6. QED
        BY <3>1, <3>2, <3>5 DEF CommandDecided, Weighs, Saw
    <2>2. CASE cmd' = [cmd EXCEPT !.pc = "commit"] /\ cmd.kind = "manual"
      <3>1. cmd'.pc = "commit" /\ cmd'.kind = "manual"
        BY <1>0, <2>2 DEF CommandStates
      <3>2. QED
        BY <3>1 DEF CommandDecided, Weighs
    <2>3. CASE cmd' = [cmd EXCEPT !.pc = "prevPoll"]
      <3>1. cmd'.pc = "prevPoll"
        BY <1>0, <2>3 DEF CommandStates
      <3>2. QED
        BY <3>1, NothingDecided
    <2>4. QED
      BY <1>3, <2>1, <2>2, <2>3 DEF CompactRead
  <1>4. CASE CompactPriced
    <2>1. CASE ~Answer("unchanged")
      <3>1. PICK new, w : new = cmd' /\ w = cmd.window
        OBVIOUS
      <3>a. new = [cmd EXCEPT !.pc = "commit", !.keep = KeepCount(cmd.pending, w)]
        BY <1>4, <2>1, <3>1 DEF CompactPriced, CommandDecided
      <3>2. ~NothingToPour(cmd.pending, w) /\ cmd.pc = "price" /\ cmd.kind = "budget"
        BY <1>4, <2>1, <3>1 DEF CompactPriced, CommandDecided
      <3>3. /\ new.pending = cmd.pending /\ new.seen = cmd.seen
            /\ new.archives = cmd.archives /\ new.measured = cmd.measured
            /\ new.window = w /\ new.pc = "commit"
            /\ new.keep = KeepCount(cmd.pending, w)
        BY <1>0, <3>1, <3>a DEF CommandStates
      <3>4. Kept(new, w)
        <4>1. w \in Int /\ IsLane(cmd)
          BY <1>0, <3>1
        <4>2. QED
          BY <3>2, <3>3, <4>1, PriceDecides
      <3>5. Saw(new, w)
        BY <3>1, <3>2, <3>3 DEF CommandDecided, Weighs, Saw
      <3>6. Saw(new, w)' /\ Kept(new, w)'
        BY <1>4, <3>4, <3>5 DEF CompactPriced, Saw, Kept, serverVars
      <3>7. QED
        BY <3>1, <3>3, <3>6 DEF CommandDecided, Weighs, Saw, Kept
    <2>2. QED
      BY <1>1, <2>1
  <1>5. CASE CompactFails \/ PreviousStands \/ CompactSilence
    BY <1>1, <1>5 DEF CompactFails, PreviousStands, CompactSilence
  <1>6. CASE CompactCommit
    <2>1. CASE ~Answer("unchanged")
      <3>1. cmd'.pc = "askSession"
        BY <1>6, <2>1 DEF CompactCommit, IdleCommand
      <3>2. QED
        BY <3>1, NothingDecided
    <2>2. QED
      BY <1>1, <2>1
  <1>7. CASE PreviousWaits \/ AskSession \/ AskTask
    <2>1. CASE ~\E result : Answer(result)
      <3>1. cmd'.pc \in {"prevPoll", "askSession", "askTask"}
        BY <1>0, <1>7, <2>1 DEF PreviousWaits, AskSession, AskTask, CommandStates
      <3>2. QED
        BY <3>1, NothingDecided
    <2>2. QED
      BY <1>1, <2>1
  <1>8. QED
    BY <1>2, <1>3, <1>4, <1>5, <1>6, <1>7 DEF CompactStep

LEMMA DecidedKept ==
    ASSUME TypeInv, TypeInv', DecidedInv, [Next]_vars
    PROVE  DecidedInv'
  <1>0. MeasuredInv /\ TurnDecided /\ CommandDecided
    BY DEF DecidedInv
  <1>1. MeasuredInv'
    BY <1>0, MeasuredKept
  <1>2. TurnDecided'
    <2>1. CASE UNCHANGED turn
      BY <1>0, <2>1, TurnDecidedStays
    <2>2. CASE StartAssemble \/ AssembleStep \/ StartHook \/ HookStep
      <3>1. Next
        BY <2>2 DEF Next
      <3>2. QED
        BY <1>0, <2>2, <3>1, TurnLaneDecides
    <2>3. CASE Restart
      BY <2>3, NothingDecided DEF Restart
    <2>4. CASE StartCompact \/ CompactStep \/ Reset
      BY <2>1, <2>4, WeightsOfTheCommand
    <2>5. CASE QueueRecords \/ ServerWrites \/ UNCHANGED vars
      BY <2>1, <2>5 DEF QueueRecords, ServerWrites, vars
    <2>6. QED
      BY <2>2, <2>3, <2>4, <2>5 DEF Next
  <1>3. CommandDecided'
    <2>1. CASE UNCHANGED cmd
      BY <1>0, <2>1, CommandDecidedStays
    <2>2. CASE StartAssemble \/ AssembleStep \/ StartHook \/ HookStep
      BY <2>1, <2>2, WeightsOfTheTurn
    <2>3. CASE Restart
      BY <2>3, NothingDecided DEF Restart, IdleCommand
    <2>4. CASE StartCompact \/ CompactStep
      BY <1>0, <2>4, CommandLaneDecides
    <2>5. CASE Reset \/ QueueRecords \/ ServerWrites \/ UNCHANGED vars
      BY <2>1, <2>5 DEF Reset, QueueRecords, ServerWrites, vars
    <2>6. QED
      BY <2>2, <2>3, <2>4, <2>5 DEF Next
  <1>4. QED
    BY <1>1, <1>2, <1>3 DEF DecidedInv

THEOREM DecidedInvHolds == Spec => []DecidedInv
  <1>1. Init => DecidedInv
    BY DEF Init, DecidedInv, MeasuredInv, WeighsAtLeast, TurnDecided, CommandDecided, Weighs,
           IdleTurn, IdleCommand, SettleSteps, HookSteps, PriceSteps, CommitSteps, NoMark,
           NoWindow
  <1>2. TypeInv /\ TypeInv' /\ DecidedInv /\ [Next]_vars => DecidedInv'
    BY DecidedKept
  <1>3. QED
    BY <1>1, <1>2, TypeInvHolds, PTL DEF Spec

\* Every pour-off decided by weight is the one its lane decided on.
LEMMA PoursAreDecided ==
    ASSUME TypeInv, DecidedInv, Next
    PROVE  /\ TurnPours => /\ QueuedBehindNone(turn) /\ KeptWhole(turn)
                           /\ FitsUnderX(turn, TurnWindow)
           /\ CommandPours => /\ QueuedBehindNone(cmd) /\ KeptWhole(cmd)
                              /\ FitsUnderX(cmd, cmd.window)
  <1>0. /\ ServerTypeOK /\ IsLane(turn) /\ IsLane(cmd) /\ TurnWindow \in Int
        /\ cmd.window \in Int /\ TurnDecided /\ CommandDecided
    BY LanesOfAState DEF TypeInv, DecidedInv
  <1>1. ASSUME TurnPours
        PROVE  /\ QueuedBehindNone(turn) /\ KeptWhole(turn)
               /\ FitsUnderX(turn, TurnWindow)
    <2>1. ends' # ends /\ turn.pc \in CommitSteps /\ turn' # turn
      BY <1>1 DEF TurnPours, CommitSteps
    <2>2. Commit(turn.keep)
      BY <2>1, StepsOfTheServer DEF serverVars, Record, WriteSummary
    <2>3. Saw(turn, TurnWindow) /\ Kept(turn, TurnWindow)
      BY <1>0, <2>1 DEF TurnDecided
    <2>4. QED
      BY <1>0, <2>1, <2>2, <2>3, DecidedIsDone
  <1>2. ASSUME CommandPours
        PROVE  /\ QueuedBehindNone(cmd) /\ KeptWhole(cmd)
               /\ FitsUnderX(cmd, cmd.window)
    <2>1. ends' # ends /\ cmd.pc = "commit" /\ cmd.kind = "budget" /\ cmd' # cmd
      BY <1>2 DEF CommandPours
    <2>2. Commit(cmd.keep)
      BY <2>1, StepsOfTheServer DEF serverVars, Record, WriteSummary
    <2>3. Saw(cmd, cmd.window) /\ Kept(cmd, cmd.window)
      BY <1>0, <2>1 DEF CommandDecided, Weighs
    <2>4. QED
      BY <1>0, <2>1, <2>2, <2>3, DecidedIsDone
  <1>3. QED
    BY <1>1, <1>2

\* No archive is queued behind one that was waiting when the lane read the context,
\* whatever fails and whether or not the host's lanes wait for one another.  An archive
\* another lane makes between the read and the commit it does not see, and may be queued
\* behind.
THEOREM NoArchiveIsQueued == Spec => NoArchiveQueuedBehindAnother
  <1>1. TypeInv /\ DecidedInv /\ [Next]_vars =>
          [/\ TurnPours => QueuedBehindNone(turn)
           /\ CommandPours => QueuedBehindNone(cmd)]_vars
    BY PoursAreDecided
  <1>2. QED
    BY <1>1, TypeInvHolds, DecidedInvHolds, PTL DEF Spec, NoArchiveQueuedBehindAnother

\* What a pour-off leaves live is never under the floor, and opens with a user's message
\* unless something was recorded between the read and the commit: no answer is left
\* without its call, for every price handle, X, K and floor and every interleaving.
THEOREM KeptTailIsWhole == Spec => KeptTailIsWholeTurns
  <1>1. TypeInv /\ DecidedInv /\ [Next]_vars => [KeepsWholeTurns]_vars
    BY PoursAreDecided DEF KeepsWholeTurns
  <1>2. QED
    BY <1>1, TypeInvHolds, DecidedInvHolds, PTL DEF Spec, KeptTailIsWholeTurns

\* And it weighs K at most and fits under X beside the rest of the window, or no eligible
\* tail is shorter, for every K and X (K >= X too), whatever the host's number is older
\* than: X is exceeded by no more than was recorded between the request that was weighed
\* and the read.
THEOREM KeptTailFits == Spec => KeptTailFitsUnderX
  <1>1. TypeInv /\ DecidedInv /\ [Next]_vars => [TailFitsUnderX]_vars
    BY PoursAreDecided DEF TailFitsUnderX
  <1>2. QED
    BY <1>1, TypeInvHolds, DecidedInvHolds, PTL DEF Spec, KeptTailFitsUnderX

---------------------------------------------------------------------------
(* What the host is shown and told *)

\* No call of the turn lane fails: what an exception leaves open is a finding of its
\* own (announcement_left_open.cfg).
NoCallFails == Faults \cap {"read", "write", "lost"} = {}

\* A start is shown while a put-off pour-off is settled, while a hold lasts, and from
\* the one to the other; a pour-off made meanwhile is the one thing untold.
TellInv ==
    /\ turn.pc \in SettleSteps => turn.due # NoMark
    /\ shown <=> \/ turn.pc \in SettleSteps \cup {"holdPoll"}
                 \/ turn.pc = "contextRead" /\ turn.due # NoMark
    /\ turn.facts => \/ turn.pc = "holdPoll"
                     \/ turn.pc = "contextRead" /\ turn.due # NoMark
    /\ untold = IF turn.facts THEN 1 ELSE 0

LEMMA ToContextGives ==
    ASSUME NEW facts, ToContext(facts)
    PROVE  turn'.pc = "contextRead" /\ turn'.due = turn.due /\ turn'.facts = facts
  BY DEF ToContext, IdleTurn

LEMMA NothingToTell ==
    ASSUME turn' = IdleTurn, shown' = FALSE, untold' = 0
    PROVE  TellInv'
  BY DEF TellInv, IdleTurn, SettleSteps

LEMMA IdleTellsNothing ==
    ASSUME TellInv, turn.pc \notin SettleSteps \cup {"holdPoll", "contextRead"}
    PROVE  shown = FALSE /\ turn.facts = FALSE /\ untold = 0
  BY DEF TellInv

\* The hold's end, or the turn's: what was shown has its end, what was made is told.
LEMMA SettledTells ==
    ASSUME TurnOK, TellInv, Settled, turn.pc \in {"contextRead", "holdReread"}
    PROVE  TellInv'
  <1>1. turn' = IdleTurn
    BY DEF Settled
  <1>2. shown' = FALSE /\ untold' = 0
    <2>1. CASE turn.due # NoMark /\ shown
      <3>1. End
        BY <2>1 DEF Settled
      <3>2. QED
        BY <3>1 DEF End, TellInv
    <2>2. CASE ~(turn.due # NoMark /\ shown)
      <3>1. ~shown /\ ~turn.facts
        BY <2>2 DEF TellInv, SettleSteps, TurnOK, TurnStates
      <3>2. UNCHANGED <<shown, untold>>
        BY <2>2 DEF Settled
      <3>3. QED
        BY <3>1, <3>2 DEF TellInv, TurnOK
    <2>3. QED
      BY <2>1, <2>2
  <1>3. QED
    BY <1>1, <1>2, NothingToTell

LEMMA AssembleTells ==
    ASSUME TurnOK, TellInv, NoCallFails, StartAssemble \/ AssembleStep
    PROVE  TellInv'
  <1> USE DEF SettleSteps
  <1>0. turn \in TurnStates /\ shown \in BOOLEAN
    BY DEF TurnOK
  <1>1. CASE StartAssemble
    <2>1. shown = FALSE /\ untold = 0
      BY <1>1, IdleTellsNothing DEF StartAssemble, TurnFree
    <2>2. QED
      BY <1>1, <2>1 DEF StartAssemble, TellInv, IdleTurn
  <1>2. CASE SettleRead \/ SettleSilence \/ SettlePriced
    <2>1. turn.pc \in SettleSteps /\ UNCHANGED <<shown, untold>>
      BY <1>2 DEF SettleRead, SettleSilence, SettlePriced
    <2>2. shown /\ turn.due # NoMark /\ ~turn.facts /\ untold = 0
      BY <1>0, <2>1 DEF TellInv
    <2>3. CASE ToContext(FALSE)
      <3>1. turn'.pc = "contextRead" /\ turn'.due = turn.due /\ turn'.facts = FALSE
        BY <2>3, ToContextGives
      <3>2. QED
        BY <2>1, <2>2, <3>1 DEF TellInv
    <2>4. CASE ~ToContext(FALSE)
      <3>1. /\ turn'.pc \in SettleSteps
            /\ turn'.due = turn.due /\ turn'.facts = turn.facts
        BY <1>0, <1>2, <2>4 DEF SettleRead, SettleSilence, SettlePriced, ReadFor, TurnStates
      <3>2. QED
        BY <2>1, <2>2, <3>1 DEF TellInv
    <2>5. QED
      BY <2>3, <2>4
  <1>3. CASE SettleCommit
    <2>1. /\ turn'.pc = "contextRead" /\ turn'.due = turn.due /\ UNCHANGED shown
          /\ turn'.facts = Archives(turn.keep)
      BY <1>3, ToContextGives DEF SettleCommit
    <2>2. shown /\ turn.due # NoMark /\ untold = 0
      BY <1>0, <1>3 DEF SettleCommit, TellInv
    <2>3. untold' = IF Archives(turn.keep) THEN 1 ELSE 0
      BY <1>3, <2>2 DEF SettleCommit
    <2>4. Archives(turn.keep) \in BOOLEAN
      BY DEF Archives
    <2>5. QED
      BY <2>1, <2>2, <2>3, <2>4 DEF TellInv
  <1>4. CASE NothingWaits \/ HoldSkipped \/ HoldReread
    BY <1>4, SettledTells DEF NothingWaits, HoldSkipped, HoldReread, TurnOK
  <1>5. CASE HoldStarts
    <2>1. turn'.pc = "holdPoll" /\ turn'.facts = turn.facts /\ shown' = TRUE /\ UNCHANGED untold
      BY <1>0, <1>5 DEF HoldStarts, TurnStates
    <2>2. QED
      BY <2>1 DEF TellInv
  <1>6. CASE HoldStands \/ HoldGivesUp
    <2>1. turn.pc = "holdPoll" /\ End
      BY <1>6 DEF HoldStands, HoldGivesUp
    <2>2. shown' = FALSE /\ untold' = 0
      BY <1>0, <2>1 DEF End, TellInv
    <2>3. CASE HoldGivesUp
      BY <2>2, <2>3, NothingToTell DEF HoldGivesUp
    <2>4. CASE HoldStands
      <3>1. turn'.pc = "holdReread" /\ turn'.facts = FALSE
        BY <1>0, <2>4 DEF HoldStands, TurnStates
      <3>2. QED
        BY <2>2, <3>1 DEF TellInv
    <2>5. QED
      BY <1>6, <2>3, <2>4
  <1>7. CASE HoldWaits
    <2>1. /\ turn.pc = "holdPoll" /\ turn'.pc = "holdPoll" /\ turn'.facts = turn.facts
          /\ UNCHANGED <<shown, untold>>
      BY <1>0, <1>7 DEF HoldWaits, TurnStates
    <2>2. QED
      BY <1>0, <2>1 DEF TellInv
  <1>8. CASE SettleReadFails \/ SettleCommitFails \/ ContextReadFails \/ HoldRereadFails
    BY <1>8
    DEF SettleReadFails, SettleCommitFails, ContextReadFails, HoldRereadFails, Fails,
        NoCallFails
  <1>9. QED
    BY <1>1, <1>2, <1>3, <1>4, <1>5, <1>6, <1>7, <1>8 DEF AssembleStep

\* The hook shows nothing and tells nothing: what it may end was never begun.
LEMMA HookTells ==
    ASSUME TurnOK, TellInv, StartHook \/ HookStep
    PROVE  TellInv'
  <1>0. turn \in TurnStates
    BY DEF TurnOK
  <1>1. turn.pc \in {"idle", "record", "hookRead", "hookPrice", "hookCommit"}
    BY DEF StartHook, TurnFree, HookStep, HookRecords, HookRecordFails, HookRead,
           HookReadFails, HookSilence, HookPriced, HookCommit, HookCommitFails
  <1>2. shown = FALSE /\ turn.facts = FALSE /\ untold = 0
    BY <1>1, IdleTellsNothing DEF SettleSteps
  <1>3. shown' = FALSE /\ untold' = 0
    BY <1>2 DEF StartHook, HookStep, HookRecords, HookRecordFails, HookRead,
           HookReadFails, HookSilence, HookPriced, HookCommit, HookCommitFails
  <1>4. CASE StartHook
    <2>1. turn'.pc = "record" /\ turn'.facts = FALSE
      BY <1>4 DEF StartHook, IdleTurn
    <2>2. QED
      BY <1>3, <2>1 DEF TellInv, SettleSteps
  <1>5. CASE HookStep
    <2>1. turn' = IdleTurn \/ turn'.pc \in {"record", "hookRead", "hookPrice", "hookCommit"}
      BY <1>0, <1>5
      DEF HookStep, HookRecords, HookRecordFails, HookRead, HookReadFails, HookSilence,
          HookPriced, HookCommit, HookCommitFails, AfterRecording, HookEnds,
          ReadFor, TurnStates
    <2>2. turn'.facts = FALSE
      <3>1. CASE turn' = IdleTurn
        BY <3>1 DEF IdleTurn
      <3>2. CASE HookRecords
        BY <1>0, <1>2, <3>1, <3>2 DEF HookRecords, AfterRecording, HookEnds, TurnStates
      <3>3. CASE HookRead \/ HookPriced
        BY <1>0, <1>2, <3>1, <3>3 DEF HookRead, HookPriced, HookEnds, ReadFor, TurnStates
      <3>4. CASE HookRecordFails \/ HookReadFails \/ HookSilence \/ HookCommit \/ HookCommitFails
        BY <3>1, <3>4 DEF HookRecordFails, HookReadFails, HookSilence, HookCommit,
                          HookCommitFails, HookEnds
      <3>5. QED
        BY <1>5, <3>2, <3>3, <3>4 DEF HookStep
    <2>3. turn'.pc \notin SettleSteps \cup {"holdPoll", "contextRead"}
      BY <2>1 DEF IdleTurn, SettleSteps
    <2>4. QED
      BY <1>3, <2>2, <2>3 DEF TellInv
  <1>6. QED
    BY <1>4, <1>5

LEMMA TellKept ==
    ASSUME NoCallFails, TurnOK, TellInv, [Next]_vars
    PROVE  TellInv'
  <1>1. CASE UNCHANGED vars
    BY <1>1 DEF vars, TellInv
  <1>2. CASE StartAssemble \/ AssembleStep
    BY <1>2, AssembleTells
  <1>3. CASE StartHook \/ HookStep
    BY <1>3, HookTells
  <1>4. CASE StartCompact \/ CompactStep \/ Reset \/ QueueRecords \/ ServerWrites
    <2>1. UNCHANGED <<shown, turn, untold>>
      BY <1>4
      DEF StartCompact, CompactStep, CompactRead, CompactFails, PreviousStands, PreviousWaits,
          CompactSilence, CompactPriced, CompactCommit, AskSession, AskTask, Reset,
          QueueRecords, ServerWrites
    <2>2. QED
      BY <2>1 DEF TellInv
  <1>5. CASE Restart
    BY <1>5, NothingToTell DEF Restart
  <1>6. QED
    BY <1>1, <1>2, <1>3, <1>4, <1>5 DEF Next

LEMMA TellInvHolds ==
    ASSUME NoCallFails
    PROVE  Spec => []TellInv
  <1>1. Init => TellInv
    BY DEF Init, TellInv, IdleTurn, SettleSteps
  <1>2. TypeInv /\ TellInv /\ [Next]_vars => TellInv'
    BY TellKept DEF TypeInv
  <1>3. QED
    BY <1>1, <1>2, TypeInvHolds, PTL DEF Spec

\* Between turns the host shows no compaction, whatever runs beside the turn lane and
\* however the holds, the silences and the summaries go, while no call fails.
THEOREM NothingStaysShown ==
    ASSUME NoCallFails
    PROVE  Spec => []NothingShownBetweenTurns
  <1>1. TellInv => NothingShownBetweenTurns
    BY DEF TellInv, NothingShownBetweenTurns, SettleSteps
  <1>2. QED
    BY <1>1, TellInvHolds, PTL

\* A pour-off the turn lane made is told to the host once, by the time the turn goes on.
THEOREM PourOffsAreTold ==
    ASSUME NoCallFails
    PROVE  Spec => []EveryPourOffIsTold
  <1>1. TurnOK /\ TellInv => EveryPourOffIsTold
    BY DEF TellInv, EveryPourOffIsTold, TurnOK
  <1>2. TypeInv => TurnOK
    BY DEF TypeInv
  <1>3. QED
    BY <1>1, <1>2, TypeInvHolds, TellInvHolds, PTL

---------------------------------------------------------------------------
(* A pour-off put off is made once *)

\* The archives beside the mark are counted, and a turn that is held still has its mark.
FirstInv ==
    /\ pourDue # NoMark => Len(ends) = since.archives + since.elsewhere
    /\ turn.pc \in SettleSteps => pourDue # NoMark

LEMMA UnmarkedIsFirst ==
    ASSUME Unmark, turn'.pc \notin SettleSteps
    PROVE  FirstInv'
  BY DEF Unmark, FirstInv

LEMMA MarkStays ==
    ASSUME FirstInv, UNCHANGED <<ends, pourDue, since>>,
           turn'.pc \in SettleSteps => turn.pc \in SettleSteps
    PROVE  FirstInv'
  BY DEF FirstInv

\* An archive the turn lane does not hear of is counted.
LEMMA UnheardIsCounted ==
    ASSUME ServerTypeOK, MemoryOK, FirstInv, NEW keep \in Nat, UNCHANGED pourDue,
           Unheard(keep) \/ UNCHANGED <<serverVars, since>>,
           turn'.pc \in SettleSteps => turn.pc \in SettleSteps
    PROVE  FirstInv'
  <1>1. /\ since \in [archives : Nat, elsewhere : Nat, measured : Nat]
        /\ Len(ends) \in Nat /\ ends \in Seq(1 .. Len(log))
    BY DEF ServerTypeOK, MemoryOK
  <1>2. CASE UNCHANGED <<serverVars, since>>
    BY <1>2, MarkStays DEF serverVars
  <1>3. CASE Unheard(keep) /\ ~Archives(keep)
    BY <1>3, MarkStays DEF Unheard, Commit
  <1>4. CASE Unheard(keep) /\ Archives(keep) /\ pourDue # NoMark
    <2>1. since' = [since EXCEPT !.elsewhere = since.elsewhere + 1]
      BY <1>4 DEF Unheard
    <2>2. since'.archives = since.archives /\ since'.elsewhere = since.elsewhere + 1
      BY <1>1, <2>1
    <2>3. Len(log) - keep \in Int /\ ends' = Append(ends, Len(log) - keep)
      BY <1>4, ServerLists DEF Unheard, Commit
    <2>4. Len(ends') = Len(ends) + 1
      BY <1>1, <2>3
    <2>5. Len(ends) = since.archives + since.elsewhere
      BY <1>4 DEF FirstInv
    <2>6. Len(ends') = since'.archives + since'.elsewhere
      BY <1>1, <2>2, <2>4, <2>5
    <2>7. QED
      BY <2>6 DEF FirstInv
  <1>5. CASE Unheard(keep) /\ pourDue = NoMark
    BY <1>5 DEF FirstInv
  <1>6. QED
    BY <1>2, <1>3, <1>4, <1>5

LEMMA TurnLaneIsFirst ==
    ASSUME ServerTypeOK, MemoryOK, TurnOK, FirstInv, StartAssemble \/ AssembleStep
    PROVE  FirstInv'
  <1> USE DEF SettleSteps, serverVars, markVars, memoryVars
  <1>0. turn \in TurnStates /\ turn.keep \in Nat
    BY DEF TurnOK, TurnStates
  <1>1. CASE StartAssemble
    BY <1>1 DEF StartAssemble, IdleTurn, FirstInv
  <1>2. CASE SettleRead \/ SettlePriced
    <2>1. CASE Unmark /\ ToContext(FALSE)
      BY <2>1, UnmarkedIsFirst, ToContextGives
    <2>2. CASE ~(Unmark /\ ToContext(FALSE))
      BY <1>2, <2>2, MarkStays DEF SettleRead, SettlePriced
    <2>3. QED
      BY <2>1, <2>2
  <1>3. CASE SettleCommit
    BY <1>3, UnmarkedIsFirst, ToContextGives DEF SettleCommit
  <1>4. CASE SettleSilence
    BY <1>4, MarkStays DEF SettleSilence
  <1>5. CASE SettleCommitFails
    <2>1. turn'.pc \notin SettleSteps
      BY <1>5 DEF SettleCommitFails, AssembleRecovers, IdleTurn
    <2>2. UNCHANGED pourDue /\ (Unheard(turn.keep) \/ UNCHANGED <<serverVars, since>>)
      BY <1>5 DEF SettleCommitFails
    <2>3. QED
      BY <1>0, <2>1, <2>2, UnheardIsCounted
  <1>6. CASE \/ SettleReadFails \/ NothingWaits \/ HoldSkipped
             \/ ContextReadFails \/ HoldGivesUp \/ HoldReread \/ HoldRereadFails
    <2>1. turn' = IdleTurn /\ UNCHANGED <<ends, pourDue, since>>
      BY <1>6
      DEF SettleReadFails, NothingWaits, HoldSkipped, ContextReadFails, HoldGivesUp,
          HoldReread, HoldRereadFails, AssembleRecovers, Settled
    <2>2. QED
      BY <2>1, MarkStays DEF IdleTurn
  <1>7. CASE HoldStarts \/ HoldStands \/ HoldWaits
    <2>1. turn'.pc \in {"holdPoll", "holdReread"} /\ UNCHANGED <<ends, pourDue, since>>
      BY <1>0, <1>7 DEF HoldStarts, HoldStands, HoldWaits, TurnStates
    <2>2. QED
      BY <2>1, MarkStays
  <1>8. QED
    BY <1>1, <1>2, <1>3, <1>4, <1>5, <1>6, <1>7 DEF AssembleStep

LEMMA HookIsFirst ==
    ASSUME ServerTypeOK, MemoryOK, TurnOK, FirstInv, StartHook \/ HookStep
    PROVE  FirstInv'
  <1> USE DEF SettleSteps, serverVars, markVars, memoryVars
  <1>0. turn \in TurnStates /\ turn.keep \in Nat /\ Len(ends) \in Nat
    BY ServerLists DEF TurnOK, TurnStates
  <1>1. turn'.pc \notin SettleSteps
    <2>1. CASE turn' = IdleTurn
      BY <2>1 DEF IdleTurn
    <2>2. CASE StartHook
      BY <2>2 DEF StartHook, IdleTurn
    <2>3. CASE HookRecords
      BY <1>0, <2>1, <2>3 DEF HookRecords, AfterRecording, HookEnds, TurnStates
    <2>4. CASE HookRead \/ HookPriced
      BY <1>0, <2>1, <2>4 DEF HookRead, HookPriced, HookEnds, ReadFor, TurnStates
    <2>5. CASE HookRecordFails \/ HookReadFails \/ HookSilence \/ HookCommit \/ HookCommitFails
      BY <2>1, <2>5 DEF HookRecordFails, HookReadFails, HookSilence, HookCommit,
                        HookCommitFails, HookEnds
    <2>6. QED
      BY <2>2, <2>3, <2>4, <2>5 DEF HookStep
  <1>2. CASE HookRecords
    <2>1. Unmark \/ UNCHANGED <<ends, pourDue, since>>
      BY <1>2 DEF HookRecords, AfterRecording, Record
    <2>2. QED
      BY <1>1, <2>1, UnmarkedIsFirst, MarkStays
  <1>3. CASE HookSilence
    <2>1. since' = [archives |-> Len(ends), elsewhere |-> 0, measured |-> turn.measured]
      BY <1>3 DEF HookSilence, Mark
    <2>2. Len(ends') = since'.archives + since'.elsewhere
      BY <1>0, <1>3, <2>1 DEF HookSilence
    <2>3. QED
      BY <1>1, <2>2 DEF FirstInv
  <1>4. CASE HookCommit
    BY <1>1, <1>4, UnmarkedIsFirst DEF HookCommit
  <1>5. CASE HookCommitFails
    <2>1. UNCHANGED pourDue /\ (Unheard(turn.keep) \/ UNCHANGED <<serverVars, since>>)
      BY <1>5 DEF HookCommitFails
    <2>2. QED
      BY <1>0, <1>1, <2>1, UnheardIsCounted
  <1>6. CASE StartHook \/ HookRecordFails \/ HookRead \/ HookReadFails \/ HookPriced
    <2>1. UNCHANGED <<ends, pourDue, since>>
      BY <1>6 DEF StartHook, HookRecordFails, HookRead, HookReadFails, HookPriced, Record
    <2>2. QED
      BY <1>1, <2>1, MarkStays
  <1>7. QED
    BY <1>2, <1>3, <1>4, <1>5, <1>6 DEF HookStep

LEMMA FirstKept ==
    ASSUME TypeInv, FirstInv, [Next]_vars
    PROVE  FirstInv'
  <1>0. ServerTypeOK /\ MemoryOK /\ TurnOK /\ cmd.keep \in Nat
    BY DEF TypeInv, CommandOK, CommandStates
  <1>1. CASE UNCHANGED vars
    BY <1>1 DEF vars, serverVars, memoryVars, markVars, FirstInv
  <1>2. CASE StartAssemble \/ AssembleStep
    BY <1>0, <1>2, TurnLaneIsFirst
  <1>3. CASE StartHook \/ HookStep
    BY <1>0, <1>3, HookIsFirst
  <1>4. CASE StartCompact \/ CompactStep \/ Reset
    <2>1. UNCHANGED <<pourDue, turn>>
      BY <1>4
      DEF StartCompact, CompactStep, CompactRead, CompactFails, PreviousStands, PreviousWaits,
          CompactSilence, CompactPriced, CompactCommit, AskSession, AskTask, Reset,
          memoryVars, markVars
    <2>2. Unheard(cmd.keep) \/ Unheard(0) \/ UNCHANGED <<serverVars, since>>
      BY <1>4
      DEF StartCompact, CompactStep, CompactRead, CompactFails, PreviousStands, PreviousWaits,
          CompactSilence, CompactPriced, CompactCommit, AskSession, AskTask, Reset,
          memoryVars, markVars
    <2>3. QED
      BY <1>0, <2>1, <2>2, UnheardIsCounted
  <1>5. CASE QueueRecords \/ ServerWrites
    BY <1>5, MarkStays
    DEF QueueRecords, ServerWrites, Record, WriteSummary, memoryVars, markVars
  <1>6. CASE Restart
    BY <1>6, UnmarkedIsFirst DEF Restart, IdleTurn, SettleSteps
  <1>7. QED
    BY <1>1, <1>2, <1>3, <1>4, <1>5, <1>6 DEF Next

\* A held turn pours off only what was put off: between the mark and its commit the turn
\* lane itself made no pour-off it heard of, whatever fails and whoever runs beside it.
\* What another path made, and what was made without its answer, does not take the mark
\* away (poured_twice.cfg), and those are the only archives in between.
THEOREM PutOffIsMadeOnce == Spec => PutOffPourIsMadeOnce
  <1>1. Init => FirstInv
    BY DEF Init, FirstInv, IdleTurn, SettleSteps
  <1>2. TypeInv /\ FirstInv /\ [Next]_vars => FirstInv'
    BY FirstKept
  <1>3. FirstInv => PutOffPourIsTheFirst
    BY DEF FirstInv, PutOffPourIsTheFirst, SettleSteps
  <1>4. QED
    BY <1>1, <1>2, <1>3, TypeInvHolds, PTL DEF Spec, PutOffPourIsMadeOnce

---------------------------------------------------------------------------
(* What the host is told of its compaction *)

\* Who waits for the archives without a task was told of them by the session's count.
WaitInv ==
    /\ cmd.pc = "prevPoll" => ServerCounts
    /\ cmd.pc \in {"read", "prevPoll"} => cmd.archive = 0
    /\ cmd.pc \in {"askSession", "askTask"} => cmd.archive >= 1
    /\ cmd.pc # "idle" => cmd.result = "none"

LEMMA CommandLaneWaits ==
    ASSUME TypeInv, WaitInv, StartCompact \/ CompactStep
    PROVE  WaitInv'
  <1>0. /\ cmd \in CommandStates /\ Len(ends) \in Nat
        /\ StartCompact \/ cmd.result = "none"
    <2>1. ServerTypeOK /\ cmd \in CommandStates
      BY DEF TypeInv, CommandOK
    <2>2. StartCompact \/ cmd.pc # "idle"
      BY DEF StartCompact, CompactStep, CompactRead, CompactFails, PreviousStands,
             PreviousWaits, CompactSilence, CompactPriced, CompactCommit, AskSession, AskTask
    <2>3. QED
      BY <2>1, <2>2, ServerLists DEF WaitInv
  <1>1. ASSUME cmd'.pc = "prevPoll" => ServerCounts,
               cmd'.pc \in {"read", "prevPoll"} => cmd'.archive = 0,
               cmd'.pc \in {"askSession", "askTask"} => cmd'.archive >= 1,
               cmd'.pc # "idle" => cmd'.result = "none"
        PROVE  WaitInv'
    BY <1>0, <1>1 DEF WaitInv
  <1>2. ASSUME NEW result, Answer(result) PROVE WaitInv'
    BY <1>1, <1>2 DEF Answer, IdleCommand
  <1>3. CASE StartCompact
    <2>1. cmd'.pc = "read" /\ cmd'.result = "none" /\ cmd'.archive = 0
      BY <1>3 DEF StartCompact, IdleCommand
    <2>2. QED
      BY <1>1, <2>1
  <1>4. CASE CompactRead
    <2>0. cmd.result = "none"
      BY <1>0, <1>4 DEF CompactRead, StartCompact, CommandFree
    <2>1. /\ cmd'.pc \in {"commit", "price"} \/ (cmd'.pc = "prevPoll" /\ SummaryPending)
          /\ cmd'.result = "none" /\ cmd'.archive = cmd.archive
      BY <1>0, <1>4, <2>0 DEF CompactRead, ReadFor, CommandStates
    <2>2. cmd.archive = 0
      BY <1>4 DEF CompactRead, WaitInv
    <2>3. QED
      BY <1>1, <2>1, <2>2 DEF SummaryPending
  <1>5. CASE CompactFails \/ PreviousStands \/ CompactSilence
    BY <1>2, <1>5 DEF CompactFails, PreviousStands, CompactSilence
  <1>6. CASE PreviousWaits
    <2>1. CASE cmd' = [cmd EXCEPT !.polls = cmd.polls + 1]
      <3>1. cmd.pc = "prevPoll" /\ cmd.result = "none" /\ ServerCounts /\ cmd.archive = 0
        BY <1>6 DEF PreviousWaits, SummaryPending, WaitInv
      <3>2. cmd'.pc = "prevPoll" /\ cmd'.result = "none" /\ cmd'.archive = 0
        BY <1>0, <2>1, <3>1 DEF CommandStates
      <3>3. QED
        BY <1>1, <3>1, <3>2
    <2>2. QED
      BY <1>2, <1>6, <2>1 DEF PreviousWaits
  <1>7. CASE CompactPriced
    <2>1. CASE ~NothingToPour(cmd.pending, cmd.window)
      <3>1. cmd'.pc = "commit" /\ cmd'.result = "none"
        BY <1>0, <1>7, <2>1 DEF CompactPriced, CommandStates, StartCompact
      <3>2. QED
        BY <1>1, <3>1
    <2>2. QED
      BY <1>2, <1>7, <2>1 DEF CompactPriced
  <1>8. CASE CompactCommit
    <2>1. CASE Archives(cmd.keep)
      <3>1. cmd'.pc = "askSession" /\ cmd'.archive = Len(ends) + 1 /\ cmd'.result = "none"
        BY <1>8, <2>1 DEF CompactCommit, IdleCommand
      <3>2. QED
        BY <1>0, <1>1, <3>1
    <2>2. QED
      BY <1>2, <1>8, <2>1 DEF CompactCommit
  <1>9. CASE AskSession \/ AskTask
    <2>1. CASE \/ cmd' = [cmd EXCEPT !.pc = "askTask"]
               \/ cmd' = [cmd EXCEPT !.pc = "askSession", !.polls = cmd.polls + 1]
      <3>1. /\ cmd'.pc \in {"askSession", "askTask"} /\ cmd'.archive = cmd.archive
            /\ cmd'.result = cmd.result /\ cmd.pc \in {"askSession", "askTask"}
        BY <1>0, <1>9, <2>1 DEF CommandStates, AskSession, AskTask
      <3>2. QED
        BY <1>1, <3>1 DEF WaitInv
    <2>2. QED
      BY <1>2, <1>9, <2>1 DEF AskSession, AskTask
  <1>10. QED
    BY <1>3, <1>4, <1>5, <1>6, <1>7, <1>8, <1>9 DEF CompactStep

LEMMA WaitInvHolds == Spec => []WaitInv
  <1>1. Init => WaitInv
    BY DEF Init, WaitInv, IdleCommand
  <1>2. ASSUME TypeInv, WaitInv, [Next]_vars PROVE WaitInv'
    <2>1. CASE UNCHANGED vars
      BY <1>2, <2>1 DEF vars, WaitInv
    <2>2. CASE StartAssemble \/ AssembleStep \/ StartHook \/ HookStep
      <3>1. UNCHANGED cmd
        BY <2>2
        DEF StartAssemble, AssembleStep, SettleRead, SettleReadFails, SettleSilence,
            SettlePriced, SettleCommit, SettleCommitFails, NothingWaits, HoldSkipped,
            HoldStarts, ContextReadFails, HoldStands, HoldWaits, HoldGivesUp, HoldReread,
            HoldRereadFails, StartHook, HookStep, HookRecords, HookRecordFails, HookRead,
            HookReadFails, HookSilence, HookPriced, HookCommit, HookCommitFails
      <3>2. QED
        BY <1>2, <3>1 DEF WaitInv
    <2>3. CASE StartCompact \/ CompactStep
      BY <1>2, <2>3, CommandLaneWaits
    <2>4. CASE Reset \/ QueueRecords \/ ServerWrites
      BY <1>2, <2>4 DEF Reset, QueueRecords, ServerWrites, WaitInv
    <2>5. CASE Restart
      BY <2>5 DEF Restart, WaitInv, IdleCommand
    <2>6. QED
      BY <1>2, <2>1, <2>2, <2>3, <2>4, <2>5 DEF Next
  <1>3. QED
    BY <1>1, <1>2, TypeInvHolds, PTL DEF Spec

\* The host is told "compacted" only when the summary of the archive its compaction made is
\* over: it stands, or the server counts and counts nothing.  A summary that failed is not
\* told from one that was written where the server counts.  A question that fails is taken
\* for an answer only of the wait for an earlier pour-off.  No assumption on the faults, on
\* the server or on what runs beside.
THEOREM CompactedIsOver == Spec => CompactedMeansSummaryIsOver
  <1>1. ASSUME TypeInv, WaitInv, Next PROVE CompactedIsTrue
    <2> SUFFICES ASSUME cmd.pc # "idle", cmd'.result \in {"compacted", "presumed"}
                 PROVE  CompactedIsTrue
      BY DEF CompactedIsTrue
    <2>0. /\ cmd.result = "none" /\ cmd \in CommandStates
          /\ verdicts \in Seq(Verdicts) /\ Len(verdicts) \in Nat
      BY <1>1 DEF WaitInv, TypeInv, CommandOK, ServerTypeOK
    <2>1. cmd' # cmd /\ cmd' # IdleCommand
      BY <2>0 DEF IdleCommand
    <2>2. CompactStep
      BY <1>1, <2>1
      DEF Next, StartAssemble, AssembleStep, SettleRead, SettleReadFails, SettleSilence,
          SettlePriced, SettleCommit, SettleCommitFails, NothingWaits, HoldSkipped,
          HoldStarts, ContextReadFails, HoldStands, HoldWaits, HoldGivesUp, HoldReread,
          HoldRereadFails, StartHook, HookStep, HookRecords, HookRecordFails, HookRead,
          HookReadFails, HookSilence, HookPriced, HookCommit, HookCommitFails,
          StartCompact, CommandFree, Reset, QueueRecords, ServerWrites, Restart
    <2>3. \A result : Answer(result) => cmd'.result = result
      BY DEF Answer, IdleCommand
    <2>4. CASE PreviousStands
      <3>1. cmd.archive = 0 /\ ServerCounts
        BY <1>1, <2>4 DEF PreviousStands, WaitInv
      <3>2. CASE ~SummaryPending /\ Answer("compacted")
        BY <2>3, <3>1, <3>2 DEF SummaryPending, CompactedIsTrue
      <3>3. CASE Answer("presumed")
        BY <2>3, <3>1, <3>3 DEF CompactedIsTrue
      <3>4. QED
        BY <2>4, <3>2, <3>3 DEF PreviousStands
    <2>5. CASE AskSession
      <3>1. cmd' # [cmd EXCEPT !.pc = "askTask"]
        BY <2>0 DEF CommandStates
      <3>2. ServerCounts /\ Waiting = {} /\ cmd'.result = "compacted"
        BY <2>3, <2>5, <3>1 DEF AskSession
      <3>3. QED
        BY <3>2 DEF CompactedIsTrue
    <2>6. CASE AskTask
      <3>1. cmd' # [cmd EXCEPT !.pc = "askSession", !.polls = cmd.polls + 1]
        BY <2>0 DEF CommandStates
      <3>2. ~Answer("failed")
        BY <2>3
      <3>3. "completed" \in TaskStatuses(cmd.archive) /\ cmd'.result = "compacted"
        BY <2>3, <2>6, <3>1, <3>2 DEF AskTask
      <3>4. cmd.archive \in 1 .. Len(verdicts) /\ verdicts[cmd.archive] # "failed"
        BY <1>1, <2>0, <2>6, <3>3 DEF TaskStatuses, WaitInv, AskTask, CommandStates
      <3>5. verdicts[cmd.archive] \in Verdicts
        BY <2>0, <3>4
      <3>6. QED
        BY <3>3, <3>4, <3>5 DEF Verdicts, CompactedIsTrue
    <2>7. CASE CompactRead \/ CompactFails \/ PreviousWaits \/ CompactSilence \/ CompactPriced
      <3>1. cmd'.result \in {"none", "failed", "unchanged"}
        BY <2>0, <2>3, <2>7
        DEF CompactRead, CompactFails, PreviousWaits, CompactSilence, CompactPriced, ReadFor,
            CommandStates
      <3>2. QED
        BY <3>1
    <2>8. CASE CompactCommit
      <3>1. cmd'.result \in {"none", "unchanged"}
        BY <2>3, <2>8 DEF CompactCommit, IdleCommand
      <3>2. QED
        BY <3>1
    <2>9. QED
      BY <2>2, <2>4, <2>5, <2>6, <2>7, <2>8 DEF CompactStep
  <1>2. TypeInv /\ WaitInv /\ [Next]_vars => [CompactedIsTrue]_vars
    BY <1>1
  <1>3. QED
    BY <1>2, TypeInvHolds, WaitInvHolds, PTL DEF Spec, CompactedMeansSummaryIsOver

===========================================================================
