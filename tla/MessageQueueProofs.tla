-------------------------- MODULE MessageQueueProofs --------------------------
(***************************************************************************)
(* The safety of MessageQueue, for any number of producers, any messages   *)
(* and any capacity.  The invariant is inductive except for                *)
(* DrainedBeforeFalse, which follows from FifoDelivery and the fact that   *)
(* a consumer that was told false left an empty, stopped queue behind it.  *)
(***************************************************************************)
EXTENDS MessageQueue, SequenceTheorems, TLAPS

EndedIsDrained == consumer = "ended" => m_stopped /\ m_queue = <<>>

QueueInv == QueueTypeOK /\ FifoDelivery /\ NoLostWakeup /\ EndedIsDrained

\* Storing at the end of the queue stores at the end of what was delivered
\* followed by the queue.
LEMMA AppendToRest ==
  ASSUME NEW S, NEW s \in Seq(S), NEW t \in Seq(S), NEW e \in S
  PROVE  s \o Append(t, e) = Append(s \o t, e)
<1>1. s \o t \in Seq(S) /\ <<e>> \in Seq(S)
  BY ConcatProperties
<1>2. Append(s \o t, e) = (s \o t) \o <<e>>
  BY <1>1, AppendIsConcat
<1>3. Append(t, e) = t \o <<e>>
  BY AppendIsConcat
<1> QED
  BY <1>1, <1>2, <1>3, ConcatAssociative

\* Taking the head of the queue moves it to the end of what was delivered.
LEMMA MoveHead ==
  ASSUME NEW S, NEW s \in Seq(S), NEW t \in Seq(S), t # <<>>
  PROVE  Append(s, Head(t)) \o Tail(t) = s \o t
<1>1. Head(t) \in S /\ Tail(t) \in Seq(S) /\ <<Head(t)>> \in Seq(S)
  BY HeadTailProperties
<1>2. t = <<Head(t)>> \o Tail(t)
  <2>1. <<Head(t)>> \o Tail(t) \in Seq(S)
    BY <1>1, ConcatProperties
  <2>2. Len(<<Head(t)>> \o Tail(t)) = Len(t)
    BY <1>1, ConcatProperties, HeadTailProperties, LenProperties
  <2>3. ASSUME NEW i \in 1 .. Len(t)
        PROVE  (<<Head(t)>> \o Tail(t))[i] = t[i]
    BY <1>1, <2>3, ConcatProperties, HeadTailProperties, LenProperties
  <2> QED
    BY <2>1, <2>2, <2>3, SeqEqual
<1>3. Append(s, Head(t)) = s \o <<Head(t)>>
  BY <1>1, AppendIsConcat
<1> QED
  BY <1>1, <1>2, <1>3, ConcatAssociative

-------------------------------------------------------------------------------
LEMMA QueueTypeStep ==
  QueueTypeOK /\ [QueueNext]_queueVars => QueueTypeOK'
<1> SUFFICES ASSUME QueueTypeOK, [QueueNext]_queueVars
             PROVE  QueueTypeOK'
  OBVIOUS
<1> USE QueueAssumption DEF QueueTypeOK, ConsumerPlaces
<1>1. ASSUME NEW p \in Producers, NEW item \in Items, PushStores(p, item)
      PROVE  QueueTypeOK'
  <2>1. m_queue' \in Seq(Items) /\ Len(m_queue') = Len(m_queue) + 1
    BY <1>1, AppendProperties DEF PushStores
  <2>2. Len(m_queue') <= Capacity
    BY <1>1, <2>1, LenProperties DEF PushStores, HasRoom
  <2>3. accepted' \in Seq(Items)
    BY <1>1, AppendProperties DEF PushStores
  <2> QED
    BY <1>1, <2>1, <2>2, <2>3 DEF PushStores
<1>2. ASSUME NEW p \in Producers, PushReturns(p)
      PROVE  QueueTypeOK'
  BY <1>2 DEF PushReturns, queueVars
<1>3. ASSUME NEW p \in Producers, PushNotifies(p)
      PROVE  QueueTypeOK'
  BY <1>3 DEF PushNotifies, SignalConsumer
<1>4. CASE StopSets
  BY <1>4 DEF StopSets
<1>5. CASE StopNotifies
  BY <1>5 DEF StopNotifies, SignalConsumer
<1>6. CASE WaitSleeps
  BY <1>6 DEF WaitSleeps
<1>7. CASE WaitReturnsFalse
  BY <1>7 DEF WaitReturnsFalse
<1>8. CASE WaitPops
  <2>1. Head(m_queue) \in Items /\ m_queue' \in Seq(Items)
        /\ Len(m_queue') = Len(m_queue) - 1
    BY <1>8, HeadTailProperties DEF WaitPops
  <2>2. Len(m_queue') <= Capacity
    BY <2>1, LenProperties
  <2>3. delivered' \in Seq(Items)
    BY <1>8, <2>1, AppendProperties DEF WaitPops
  <2> QED
    BY <1>8, <2>1, <2>2, <2>3 DEF WaitPops
<1>9. CASE SpuriousWakeup
  BY <1>9 DEF SpuriousWakeup
<1>10. CASE RequestStopClears \/ LoopTests
  BY <1>10 DEF RequestStopClears, LoopTests
<1>11. CASE UNCHANGED queueVars
  BY <1>11 DEF queueVars
<1> QED
  BY <1>1, <1>2, <1>3, <1>4, <1>5, <1>6, <1>7, <1>8, <1>9, <1>10, <1>11
     DEF QueueNext, WaitAndPop

\* Only storing and taking change the three sequences.
LEMMA FifoStep ==
  QueueTypeOK /\ FifoDelivery /\ [QueueNext]_queueVars => FifoDelivery'
<1> SUFFICES ASSUME QueueTypeOK, FifoDelivery, [QueueNext]_queueVars
             PROVE  FifoDelivery'
  OBVIOUS
<1>1. ASSUME NEW p \in Producers, NEW item \in Items, PushStores(p, item)
      PROVE  FifoDelivery'
  <2>1. delivered \in Seq(Items) /\ m_queue \in Seq(Items) /\ item \in Items
    BY DEF QueueTypeOK
  <2>2. delivered \o Append(m_queue, item) = Append(delivered \o m_queue, item)
    BY <2>1, AppendToRest
  <2> QED
    BY <1>1, <2>2 DEF PushStores, FifoDelivery
<1>2. CASE WaitPops
  <2>1. Append(delivered, Head(m_queue)) \o Tail(m_queue) = delivered \o m_queue
    BY <1>2, MoveHead DEF QueueTypeOK, WaitPops
  <2> QED
    BY <1>2, <2>1 DEF WaitPops, FifoDelivery
<1>3. ASSUME UNCHANGED <<m_queue, accepted, delivered>>
      PROVE  FifoDelivery'
  BY <1>3 DEF FifoDelivery
<1> QED
  BY <1>1, <1>2, <1>3
     DEF QueueNext, PushReturns, PushNotifies, RequestStopClears, StopSets, StopNotifies,
         LoopTests, WaitAndPop, WaitSleeps, WaitReturnsFalse, SpuriousWakeup, queueVars

\* A change that makes Ready true leaves its thread at "notify"; the thread that
\* signals leaves the consumer awake.
LEMMA WakeupStep ==
  QueueTypeOK /\ NoLostWakeup /\ [QueueNext]_queueVars => NoLostWakeup'
<1> SUFFICES ASSUME QueueTypeOK, NoLostWakeup, [QueueNext]_queueVars,
                    consumer' = "asleep", Ready'
             PROVE  (\E p \in Producers : producer'[p] = "notify") \/ stopper' = "notify"
  BY DEF NoLostWakeup
<1>1. ASSUME NEW p \in Producers, NEW item \in Items, PushStores(p, item)
      PROVE  producer'[p] = "notify"
  BY <1>1 DEF PushStores, QueueTypeOK
<1>2. ASSUME NEW p \in Producers, PushReturns(p)
      PROVE  UNCHANGED queueVars
  BY <1>2 DEF PushReturns
<1>3. ASSUME NEW p \in Producers, PushNotifies(p)
      PROVE  FALSE
  BY <1>3 DEF PushNotifies, SignalConsumer
<1>4. CASE StopSets
  BY <1>4 DEF StopSets
<1>5. CASE StopNotifies
  BY <1>5 DEF StopNotifies, SignalConsumer
<1>6. CASE WaitSleeps
  BY <1>6 DEF WaitSleeps, Ready
<1>7. CASE WaitReturnsFalse
  BY <1>7 DEF WaitReturnsFalse
<1>8. CASE WaitPops
  BY <1>8 DEF WaitPops
<1>9. CASE SpuriousWakeup
  BY <1>9 DEF SpuriousWakeup
<1>10. CASE RequestStopClears
  BY <1>10 DEF RequestStopClears, NoLostWakeup, Ready
<1>11. CASE LoopTests
  BY <1>11 DEF LoopTests
<1>12. CASE UNCHANGED queueVars
  BY <1>12 DEF queueVars, NoLostWakeup, Ready
<1> QED
  BY <1>1, <1>2, <1>3, <1>4, <1>5, <1>6, <1>7, <1>8, <1>9, <1>10, <1>11, <1>12
     DEF QueueNext, WaitAndPop

\* Nothing enters a stopped queue, and a queue once stopped stays so.
LEMMA EndedStep ==
  EndedIsDrained /\ [QueueNext]_queueVars => EndedIsDrained'
<1> SUFFICES ASSUME EndedIsDrained, [QueueNext]_queueVars
             PROVE  EndedIsDrained'
  OBVIOUS
<1> USE DEF EndedIsDrained, HoldsMutex
<1>1. ASSUME NEW p \in Producers, NEW item \in Items, PushStores(p, item)
      PROVE  EndedIsDrained'
  BY <1>1 DEF PushStores
<1>2. ASSUME NEW p \in Producers, PushReturns(p) \/ PushNotifies(p)
      PROVE  EndedIsDrained'
  BY <1>2 DEF PushReturns, PushNotifies, SignalConsumer, queueVars
<1>3. CASE StopSets \/ StopNotifies
  BY <1>3 DEF StopSets, StopNotifies, SignalConsumer
<1>4. CASE WaitAndPop
  BY <1>4 DEF WaitAndPop, WaitSleeps, WaitReturnsFalse, WaitPops
<1>5. CASE SpuriousWakeup
  BY <1>5 DEF SpuriousWakeup
<1>6. CASE RequestStopClears \/ LoopTests
  BY <1>6 DEF RequestStopClears, LoopTests
<1>7. CASE UNCHANGED queueVars
  BY <1>7 DEF queueVars
<1> QED
  BY <1>1, <1>2, <1>3, <1>4, <1>5, <1>6, <1>7 DEF QueueNext

-------------------------------------------------------------------------------
\* The inductive invariant holds of every behaviour of the queue.
THEOREM QueueInvariance == QueueSafetySpec => []QueueInv
<1>1. QueueInit => QueueInv
  <2> SUFFICES ASSUME QueueInit PROVE QueueInv
    OBVIOUS
  <2>1. <<>> \in Seq(Items) /\ Len(<<>>) = 0 /\ <<>> \o <<>> = <<>>
    BY EmptySeq, ConcatEmptySeq
  <2>2. QueueTypeOK
    <3>1. m_queue \in Seq(Items) /\ accepted \in Seq(Items) /\ delivered \in Seq(Items)
      BY <2>1 DEF QueueInit
    <3>2. Len(m_queue) <= Capacity
      BY <2>1, QueueAssumption DEF QueueInit
    <3> QED
      BY <3>1, <3>2 DEF QueueInit, QueueTypeOK, ConsumerPlaces
  <2>3. FifoDelivery
    BY <2>1 DEF QueueInit, FifoDelivery
  <2> QED
    BY <2>2, <2>3 DEF QueueInit, QueueInv, NoLostWakeup, EndedIsDrained
<1>2. QueueInv /\ [QueueNext]_queueVars => QueueInv'
  BY QueueTypeStep, FifoStep, WakeupStep, EndedStep DEF QueueInv
<1> QED
  BY <1>1, <1>2, PTL DEF QueueSafetySpec

\* MessageQueue keeps its types, and never holds more than its capacity.
THEOREM QueueTypeCorrect == QueueSafetySpec => []QueueTypeOK
BY QueueInvariance, PTL DEF QueueInv

\* Push and WaitAndPop deliver everything accepted once, in the order of the
\* critical sections of Push.
THEOREM QueueIsFifo == QueueSafetySpec => []FifoDelivery
BY QueueInvariance, PTL DEF QueueInv

\* Signalling after the unlock, as Push and Stop do, loses no wake-up.
THEOREM QueueLosesNoWakeup == QueueSafetySpec => []NoLostWakeup
BY QueueInvariance, PTL DEF QueueInv

\* When WaitAndPop has returned false, everything Push accepted was delivered.
THEOREM QueueDrains == QueueSafetySpec => []DrainedBeforeFalse
<1>1. QueueInv => DrainedBeforeFalse
  <2> SUFFICES ASSUME QueueInv, consumer = "ended"
               PROVE  m_stopped /\ delivered = accepted
    BY DEF DrainedBeforeFalse
  <2>1. m_stopped /\ m_queue = <<>>
    BY DEF QueueInv, EndedIsDrained
  <2>2. delivered \o <<>> = delivered
    BY ConcatEmptySeq DEF QueueInv, QueueTypeOK
  <2> QED
    BY <2>1, <2>2 DEF QueueInv, FifoDelivery
<1> QED
  BY <1>1, QueueInvariance, PTL
===============================================================================
