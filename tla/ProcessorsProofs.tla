--------------------------- MODULE ProcessorsProofs ---------------------------
(***************************************************************************)
(* What the state machine makes of the tables: lemmas for the proofs about *)
(* the modules in which processors handle events.                          *)
(***************************************************************************)
EXTENDS Processors, SequenceTheorems, WellFoundedInduction, TLAPS

\* A search that finds some row finds a first one.
LEMMA FirstIsRow ==
  ASSUME NEW table, NEW rows \in SUBSET Nat, rows # {}
  PROVE  \E i \in rows : First(table, rows) = table[i]
<1>1. PICK i \in rows : \A j \in rows : ~(<<j, i>> \in OpToRel(<, Nat))
  BY NatLessThanWellFounded, WFMin
<1>2. \A j \in rows : i <= j
  <2> TAKE j \in rows
  <2>1. ~(j < i)
    BY <1>1 DEF OpToRel
  <2> QED
    BY <2>1
<1> QED
  BY <1>2 DEF First

\* The new state comes from the table, or is the old one.
LEMMA NextIsState ==
  ASSUME NEW table, DOMAIN table \subseteq Nat, NEW S, NEW state \in S, NEW event,
         \A i \in DOMAIN table : table[i].next \in S
  PROVE  HandleEvent(table, state, event).next \in S
<1> DEFINE exact == Rows(table, state, event)
           global == Rows(table, AnyState, event)
<1>1. exact \subseteq DOMAIN table /\ global \subseteq DOMAIN table
  BY DEF Rows
<1>2. CASE exact # {}
  <2>1. HandleEvent(table, state, event) = First(table, exact)
    BY <1>2 DEF HandleEvent
  <2> QED
    BY <1>1, <1>2, <2>1, FirstIsRow
<1>3. CASE exact = {} /\ global # {}
  <2>1. HandleEvent(table, state, event) = First(table, global)
    BY <1>3 DEF HandleEvent
  <2> QED
    BY <1>1, <1>3, <2>1, FirstIsRow
<1>4. CASE exact = {} /\ global = {}
  BY <1>4 DEF HandleEvent, Transition
<1> QED
  BY <1>2, <1>3, <1>4

\* What a row does, some row of the table for this event does, or it does nothing.
LEMMA ActionIsOfRow ==
  ASSUME NEW table, DOMAIN table \subseteq Nat, NEW state, NEW event,
         NEW row, row = HandleEvent(table, state, event)
  PROVE  row.action = "none" \/ \E i \in DOMAIN table : table[i].event = event /\ row = table[i]
<1> DEFINE exact == Rows(table, state, event)
           global == Rows(table, AnyState, event)
<1>1. /\ exact \subseteq DOMAIN table /\ global \subseteq DOMAIN table
      /\ \A i \in exact \union global : table[i].event = event
  BY DEF Rows
<1>2. CASE exact # {}
  <2>1. row = First(table, exact)
    BY <1>2 DEF HandleEvent
  <2> QED
    BY <1>1, <1>2, <2>1, FirstIsRow
<1>3. CASE exact = {} /\ global # {}
  <2>1. row = First(table, global)
    BY <1>3 DEF HandleEvent
  <2> QED
    BY <1>1, <1>3, <2>1, FirstIsRow
<1>4. CASE exact = {} /\ global = {}
  BY <1>4 DEF HandleEvent, Transition
<1> QED
  BY <1>2, <1>3, <1>4

LEMMA StopSequenceRows ==
  /\ Len(StopSequence) = 7 /\ DOMAIN StopSequence = 1 .. 7
  /\ StopSequence[1] = Transition("Idle", "PowerIgnitionOn", "IgnitionOn", "none")
  /\ StopSequence[2] = Transition("IgnitionOn", "ApplicationStartRequest", "Running", "none")
  /\ StopSequence[3] =
       Transition("IgnitionOn", "ApplicationRecovery", "Recovery", "startRecoveryTimer")
  /\ StopSequence[4] =
       Transition("Running", "ApplicationStopRequest", "Stopping", "startStopTimer")
  /\ StopSequence[5] =
       Transition("Recovery", "ApplicationStopRequest", "Stopping", "startStopTimer")
  /\ StopSequence[6] =
       Transition("Stopping", "ApplicationStopRequestTimeout", "WaitingAudioComplete",
                  "requestSound")
  /\ StopSequence[7] = Transition("WaitingAudioComplete", "AudioPlayCompleted", "Idle", "none")
<1> HIDE DEF Transition
<1> QED
  BY DEF StopSequence

\* Both tables go on with rows of their own and end with the global row.
LEMMA TablesGoOn ==
  ASSUME NEW S, NEW more \in Seq(S)
  PROVE  /\ DOMAIN (StopSequence \o more) = 1 .. 7 + Len(more)
         /\ \A i \in 1 .. 7 : (StopSequence \o more)[i] = StopSequence[i]
         /\ \A i \in 1 .. Len(more) : (StopSequence \o more)[7 + i] = more[i]
<1> DEFINE T == S \union {StopSequence[i] : i \in 1 .. 7}
<1>1. StopSequence \in Seq(T)
  <2>1. \A i \in 1 .. 7 : StopSequence[i] \in T
    OBVIOUS
  <2> HIDE DEF T, Transition
  <2>2. StopSequence[1] \in T /\ StopSequence[2] \in T /\ StopSequence[3] \in T
        /\ StopSequence[4] \in T /\ StopSequence[5] \in T /\ StopSequence[6] \in T
        /\ StopSequence[7] \in T
    BY <2>1
  <2> QED
    BY <2>2, StopSequenceRows DEF StopSequence
<1>2. more \in Seq(T) /\ Len(more) \in Nat
  <2>1. Len(more) \in Nat /\ \A i \in 1 .. Len(more) : more[i] \in T
    BY LenProperties, ElementOfSeq
  <2>2. DOMAIN more = 1 .. Len(more) /\ more \in [1 .. Len(more) -> S]
    BY LenProperties
  <2>3. more \in [1 .. Len(more) -> T]
    BY <2>2
  <2> HIDE DEF T
  <2> QED
    BY <2>1, <2>3
<1>3. Len(StopSequence) = 7
  BY StopSequenceRows
<1> DEFINE table == StopSequence \o more
<1> HIDE DEF T
<1>4. table \in Seq(T) /\ Len(table) = 7 + Len(more)
      /\ \A i \in 1 .. 7 + Len(more) :
           table[i] = IF i <= 7 THEN StopSequence[i] ELSE more[i - 7]
  <2>1. /\ StopSequence \o more \in Seq(T)
        /\ Len(StopSequence \o more) = Len(StopSequence) + Len(more)
        /\ \A i \in 1 .. Len(StopSequence) + Len(more) : (StopSequence \o more)[i] =
              IF i <= Len(StopSequence) THEN StopSequence[i] ELSE more[i - Len(StopSequence)]
    BY <1>1, <1>2, ConcatProperties, Zenon
  <2> QED
    BY <1>3, <2>1, Zenon
<1>5. DOMAIN table = 1 .. 7 + Len(more)
  BY <1>4, LenProperties
<1> HIDE DEF table
<1>6. \A i \in 1 .. 7 : table[i] = StopSequence[i]
  BY <1>2, <1>4
<1>7. \A i \in 1 .. Len(more) : table[7 + i] = more[i]
  BY <1>2, <1>4
<1> QED
  BY <1>5, <1>6, <1>7 DEF table

LEMMA DestThreeRows ==
  /\ DOMAIN DestThreeTable = 1 .. 8
  /\ \A i \in 1 .. 7 : DestThreeTable[i] = StopSequence[i]
  /\ DestThreeTable[8] = Transition(AnyState, "PowerIgnitionOff", "Idle", "cancelAllTimers")
<1> DEFINE off == Transition(AnyState, "PowerIgnitionOff", "Idle", "cancelAllTimers")
<1>1. DestThreeTable = StopSequence \o <<off>>
  BY DEF DestThreeTable, IgnitionOff
<1> HIDE DEF off
<1>2. <<off>> \in Seq({off}) /\ Len(<<off>>) = 1 /\ <<off>>[1] = off
  OBVIOUS
<1>3. DOMAIN DestThreeTable = 1 .. 7 + 1
      /\ (\A i \in 1 .. 7 : DestThreeTable[i] = StopSequence[i])
      /\ (\A i \in 1 .. 1 : DestThreeTable[7 + i] = <<off>>[i])
  BY <1>1, <1>2, TablesGoOn
<1> QED
  BY <1>2, <1>3 DEF off

LEMMA WesternRows ==
  /\ DOMAIN WesternTable = 1 .. 9
  /\ \A i \in 1 .. 7 : WesternTable[i] = StopSequence[i]
  /\ WesternTable[8] = Transition("Running", "ApplicatiOnTimeoutEvent", "Recovery", "none")
  /\ WesternTable[9] = Transition(AnyState, "PowerIgnitionOff", "Idle", "cancelAllTimers")
<1> DEFINE off == Transition(AnyState, "PowerIgnitionOff", "Idle", "cancelAllTimers")
           timeout == Transition("Running", "ApplicatiOnTimeoutEvent", "Recovery", "none")
           T == {off, timeout} \union {StopSequence[i] : i \in 1 .. 7}
<1>1. WesternTable = (StopSequence \o <<timeout>>) \o <<off>>
  BY DEF WesternTable, IgnitionOff
<1>2. StopSequence \in Seq(T)
  <2>1. \A i \in 1 .. 7 : StopSequence[i] \in T
    OBVIOUS
  <2> HIDE DEF T, Transition, off, timeout
  <2> QED
    BY <2>1, StopSequenceRows DEF StopSequence
<1>3. <<timeout>> \in Seq(T) /\ <<off>> \in Seq(T)
  BY DEF T
<1> HIDE DEF T, off, timeout
<1>4. WesternTable = StopSequence \o (<<timeout>> \o <<off>>)
  BY <1>1, <1>2, <1>3, ConcatAssociative
<1> DEFINE more == <<timeout>> \o <<off>>
<1>5. more \in Seq(T) /\ Len(more) = 2 /\ more[1] = timeout /\ more[2] = off
  <2>1. Len(<<timeout>>) = 1 /\ Len(<<off>>) = 1
    OBVIOUS
  <2>2. /\ more \in Seq(T)
        /\ Len(more) = Len(<<timeout>>) + Len(<<off>>)
        /\ \A i \in 1 .. Len(<<timeout>>) + Len(<<off>>) : more[i] =
              IF i <= Len(<<timeout>>) THEN <<timeout>>[i] ELSE <<off>>[i - Len(<<timeout>>)]
    BY <1>3, ConcatProperties, Zenon
  <2> HIDE DEF more
  <2> QED
    BY <2>1, <2>2
<1> HIDE DEF more
<1>6. WesternTable = StopSequence \o more
  BY <1>4 DEF more
<1>7. DOMAIN WesternTable = 1 .. 7 + 2
      /\ (\A i \in 1 .. 7 : WesternTable[i] = StopSequence[i])
      /\ (\A i \in 1 .. 2 : WesternTable[7 + i] = more[i])
  <2>1. /\ DOMAIN (StopSequence \o more) = 1 .. 7 + Len(more)
        /\ \A i \in 1 .. 7 : (StopSequence \o more)[i] = StopSequence[i]
        /\ \A i \in 1 .. Len(more) : (StopSequence \o more)[7 + i] = more[i]
    BY <1>5, TablesGoOn, Zenon
  <2> QED
    BY <1>5, <1>6, <2>1, Zenon
<1> QED
  BY <1>5, <1>7 DEF off, timeout

\* Whatever a processor is told, its machine is in one of its states.
THEOREM ProcessorsKeepStates ==
  ASSUME NEW region, NEW state \in States, NEW event
  PROVE  HandleEvent(TableOf(region), state, event).next \in States
<1>1. \A i \in 1 .. 7 : StopSequence[i].next \in States
  BY StopSequenceRows DEF Transition, States
<1>2. DOMAIN DestThreeTable \subseteq Nat
      /\ \A i \in DOMAIN DestThreeTable : DestThreeTable[i].next \in States
  BY <1>1, DestThreeRows DEF Transition, States
<1>3. DOMAIN WesternTable \subseteq Nat
      /\ \A i \in DOMAIN WesternTable : WesternTable[i].next \in States
  <2>1. DOMAIN WesternTable = 1 .. 7 \union {8, 9}
    BY WesternRows
  <2> QED
    BY <1>1, <2>1, WesternRows DEF Transition, States
<1> QED
  BY <1>2, <1>3, NextIsState DEF TableOf

\* Which events make a processor start a timer or request the sound.
LEMMA ActionsHaveEvents ==
  ASSUME NEW region, NEW state, NEW event, NEW row,
         row = HandleEvent(TableOf(region), state, event)
  PROVE  /\ row.action = "startStopTimer" => event = "ApplicationStopRequest"
         /\ row.action = "startRecoveryTimer" => event = "ApplicationRecovery"
         /\ row.action = "requestSound" => event = "ApplicationStopRequestTimeout"
<1> DEFINE Right(r) ==
             /\ r.action = "startStopTimer" => r.event = "ApplicationStopRequest"
             /\ r.action = "startRecoveryTimer" => r.event = "ApplicationRecovery"
             /\ r.action = "requestSound" => r.event = "ApplicationStopRequestTimeout"
<1>1. \A i \in 1 .. 7 : Right(StopSequence[i])
  BY StopSequenceRows DEF Transition
<1>2. DOMAIN DestThreeTable \subseteq Nat
      /\ \A i \in DOMAIN DestThreeTable : Right(DestThreeTable[i])
  BY <1>1, DestThreeRows DEF Transition
<1>3. DOMAIN WesternTable \subseteq Nat
      /\ \A i \in DOMAIN WesternTable : Right(WesternTable[i])
  <2>1. DOMAIN WesternTable = 1 .. 7 \union {8, 9}
    BY WesternRows
  <2> QED
    BY <1>1, <2>1, WesternRows DEF Transition
<1>4. PICK table : table = TableOf(region) /\ DOMAIN table \subseteq Nat
                   /\ \A i \in DOMAIN table : Right(table[i])
  BY <1>2, <1>3 DEF TableOf
<1>5. row.action = "none" \/ \E i \in DOMAIN table : table[i].event = event /\ row = table[i]
  BY <1>4, ActionIsOfRow
<1> QED
  BY <1>4, <1>5

\* The row that is the only exact one, or the only global one, is taken.
LEMMA OnlyExactRow ==
  ASSUME NEW table, NEW i \in DOMAIN table, i \in Nat, NEW state, NEW event,
         Rows(table, state, event) = {i}
  PROVE  HandleEvent(table, state, event) = table[i]
BY DEF HandleEvent, First

LEMMA OnlyGlobalRow ==
  ASSUME NEW table, NEW i \in DOMAIN table, i \in Nat, NEW state, NEW event,
         Rows(table, state, event) = {}, Rows(table, AnyState, event) = {i}
  PROVE  HandleEvent(table, state, event) = table[i]
BY DEF HandleEvent, First

Applies(i, state, event) ==
  StopSequence[i].current = state /\ StopSequence[i].event = event

\* What DestThreeProcessor does with an event: one row of the sequence, or the
\* global one, or nothing.
LEMMA DestThreeSteps ==
  ASSUME NEW state \in States, NEW event, NEW row,
         row = HandleEvent(DestThreeTable, state, event)
  PROVE  \/ \E i \in 1 .. 7 : Applies(i, state, event) /\ row = StopSequence[i]
         \/ event = "PowerIgnitionOff" /\ row.next = "Idle" /\ row.action = "cancelAllTimers"
         \/ (\A i \in 1 .. 7 : ~Applies(i, state, event))
              /\ row.next = state /\ row.action = "none"
<1>1. state # AnyState
  BY DEF States, AnyState
<1>2. \A i, j \in 1 .. 7 : Applies(i, state, event) /\ Applies(j, state, event) => i = j
  BY StopSequenceRows DEF Applies, Transition
<1>3. \A i \in 1 .. 7 : StopSequence[i].current # AnyState
  BY StopSequenceRows DEF Transition, AnyState
<1>4. Rows(DestThreeTable, state, event) = {i \in 1 .. 7 : Applies(i, state, event)}
  <2>1. DestThreeTable[8].current = AnyState
    BY DestThreeRows DEF Transition
  <2> QED
    BY <1>1, <2>1, DestThreeRows DEF Rows, Applies
<1>5. Rows(DestThreeTable, AnyState, event) =
        IF event = "PowerIgnitionOff" THEN {8} ELSE {}
  <2>1. DestThreeTable[8].current = AnyState /\ DestThreeTable[8].event = "PowerIgnitionOff"
    BY DestThreeRows DEF Transition
  <2> QED
    BY <1>3, <2>1, DestThreeRows DEF Rows
<1>6. ASSUME NEW i \in 1 .. 7, Applies(i, state, event)
      PROVE  row = StopSequence[i]
  <2>1. Rows(DestThreeTable, state, event) = {i}
    BY <1>2, <1>4, <1>6
  <2> QED
    BY <2>1, OnlyExactRow, DestThreeRows
<1>7. CASE \A i \in 1 .. 7 : ~Applies(i, state, event)
  <2>1. Rows(DestThreeTable, state, event) = {}
    BY <1>4, <1>7
  <2>2. CASE event = "PowerIgnitionOff"
    <3>1. row = DestThreeTable[8]
      BY <1>5, <2>1, <2>2, OnlyGlobalRow, DestThreeRows
    <3> QED
      BY <2>2, <3>1, DestThreeRows DEF Transition
  <2>3. CASE event # "PowerIgnitionOff"
    BY <1>5, <1>7, <2>1, <2>3 DEF HandleEvent, Transition
  <2> QED
    BY <2>2, <2>3
<1> QED
  BY <1>6, <1>7

===============================================================================
