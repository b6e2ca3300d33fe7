----------------------------- MODULE SystemProofs -----------------------------
(***************************************************************************)
(* The event flow and the whole demo, for any events, any capacity and any *)
(* bounds.  First the flow alone: types, and with one region that what a   *)
(* processor waits for is under way.  Then the commands that users give:   *)
(* in which order they are handled, and that the queue has room for them.  *)
(***************************************************************************)
EXTENDS System, ProcessorsProofs, SelectionsProofs

-------------------------------------------------------------------------------
\* Posting keeps what is queued, and what it drops is remembered.
LEMMA PostedOrDropped ==
  ASSUME m_queue \in Seq(Messages), Len(m_queue) <= Capacity, dropped \subseteq Awaited,
         NEW m \in Messages, PostEvent(m)
  PROVE  /\ m_queue' \in Seq(Messages) /\ Len(m_queue') <= Capacity
         /\ dropped' \subseteq Awaited /\ dropped \subseteq dropped'
         /\ \A x : Queued(x) => Queued(x)'
         /\ m \in Awaited => Queued(m)' \/ m \in dropped'
<1> USE FlowAssumption
<1>1. CASE Len(m_queue) < Capacity
  <2>1. m_queue' = Append(m_queue, m) /\ dropped' = dropped
    BY <1>1 DEF PostEvent
  <2>2. /\ Append(m_queue, m) \in Seq(Messages)
        /\ Len(Append(m_queue, m)) = Len(m_queue) + 1
        /\ \A i \in 1 .. Len(m_queue) : Append(m_queue, m)[i] = m_queue[i]
        /\ Append(m_queue, m)[Len(m_queue) + 1] = m
    BY AppendProperties
  <2>3. DOMAIN m_queue = 1 .. Len(m_queue) /\ DOMAIN m_queue' = 1 .. Len(m_queue) + 1
        /\ Len(m_queue) \in Nat
    BY <2>1, <2>2, LenProperties
  <2>4. \A x : Queued(x) => Queued(x)'
    BY <2>1, <2>2, <2>3 DEF Queued
  <2>5. Queued(m)'
    BY <2>1, <2>2, <2>3 DEF Queued
  <2> QED
    BY <1>1, <2>1, <2>2, <2>3, <2>4, <2>5
<1>2. CASE ~(Len(m_queue) < Capacity)
  BY <1>2 DEF PostEvent, Queued
<1> QED
  BY <1>1, <1>2

\* Popping takes one message out and keeps the others.
LEMMA PoppedIsFirst ==
  ASSUME m_queue \in Seq(Messages), Len(m_queue) <= Capacity, NEW m, PopsFront(m)
  PROVE  /\ m_queue' \in Seq(Messages) /\ Len(m_queue') <= Capacity
         /\ \A x : Queued(x) /\ x # m => Queued(x)'
<1> USE FlowAssumption
<1>1. m_queue # <<>> /\ Head(m_queue) = m /\ m_queue' = Tail(m_queue)
  BY DEF PopsFront
<1>2. /\ Tail(m_queue) \in Seq(Messages)
      /\ Len(Tail(m_queue)) = Len(m_queue) - 1
      /\ \A i \in 1 .. Len(Tail(m_queue)) : Tail(m_queue)[i] = m_queue[i + 1]
      /\ Head(m_queue) = m_queue[1]
  BY <1>1, HeadTailProperties
<1>3. DOMAIN m_queue = 1 .. Len(m_queue) /\ DOMAIN m_queue' = 1 .. Len(m_queue) - 1
      /\ Len(m_queue) \in Nat
  BY <1>1, <1>2, LenProperties
<1>4. ASSUME NEW x, Queued(x), x # m
      PROVE  Queued(x)'
  <2>1. PICK i \in 1 .. Len(m_queue) : m_queue[i] = x
    BY <1>3, <1>4 DEF Queued
  <2>2. i - 1 \in 1 .. Len(m_queue) - 1
    BY <1>1, <1>2, <1>3, <1>4, <2>1
  <2>3. m_queue'[i - 1] = x
    BY <1>1, <1>2, <1>3, <2>1, <2>2
  <2> QED
    BY <1>3, <2>2, <2>3 DEF Queued
<1> QED
  BY <1>1, <1>2, <1>3, <1>4

-------------------------------------------------------------------------------
\* What the parts of a step do to their variables.
LEMMA TypedTimers ==
  ASSUME FlowTypeOK, NEW action, Performs(action),
         action = "requestSound" => sounds < MaxSounds
  PROVE  /\ status' \in [UsedTimers -> {"idle", "running"}]
         /\ inflight' = inflight /\ closed' = FALSE
         /\ audio' = audio /\ sounds' \in 0 .. MaxSounds
<1> USE FlowAssumption DEF FlowTypeOK
<1>1. StopTimer \in UsedTimers /\ RecoveryTimer \in UsedTimers
  BY DEF UsedTimers
<1>2. /\ status' \in [UsedTimers -> {"idle", "running"}]
      /\ inflight' = inflight /\ closed' = FALSE
  BY <1>1 DEF Performs, Timer!Arm, timers
<1>3. audio' = audio /\ sounds' \in 0 .. MaxSounds
  <2>1. CASE action = "requestSound"
    BY <2>1 DEF Performs, Audio!Request
  <2>2. CASE action # "requestSound"
    BY <2>2 DEF Performs, audioService
  <2> QED
    BY <2>1, <2>2
<1> QED
  BY <1>2, <1>3

LEMMA FlowTypeStep ==
  FlowTypeOK /\ [FlowNext]_flowVars => FlowTypeOK'
<1> SUFFICES ASSUME FlowTypeOK, [FlowNext]_flowVars
             PROVE  FlowTypeOK'
  OBVIOUS
<1> USE FlowAssumption
<1>0. /\ m_queue \in Seq(Messages) /\ Len(m_queue) <= Capacity
      /\ dropped \subseteq Awaited
  BY DEF FlowTypeOK
<1>1. ASSUME NEW m \in UserEvents \union UserRegions, ListenerPosts(m)
      PROVE  FlowTypeOK'
  <2>1. m \in Messages /\ PostEvent(m)
    BY <1>1 DEF ListenerPosts, Messages
  <2> QED
    BY <1>0, <1>1, <2>1, PostedOrDropped
    DEF FlowTypeOK, ListenerPosts, Running, timers, audioService
<1>2. ASSUME NEW t \in UsedTimers, TimerExpires(t)
      PROVE  FlowTypeOK'
  BY <1>2 DEF FlowTypeOK, TimerExpires, Running, Timer!Expire, audioService
<1>3. ASSUME NEW t \in UsedTimers, WorkerPosts(t)
      PROVE  FlowTypeOK'
  <2>1. TimeoutEvent(t) \in Messages /\ PostEvent(TimeoutEvent(t))
    BY <1>3 DEF WorkerPosts, Messages
  <2>2. inflight' \in [UsedTimers -> 0 .. MaxInflight]
    BY <1>3 DEF FlowTypeOK, WorkerPosts, Timer!Deliver
  <2> QED
    BY <1>0, <1>3, <2>1, <2>2, PostedOrDropped
    DEF FlowTypeOK, WorkerPosts, Running, Timer!Deliver, audioService
<1>4. CASE SoundCompletes
  <2>1. "AudioPlayCompleted" \in Messages /\ PostEvent("AudioPlayCompleted")
    BY <1>4 DEF SoundCompletes, Messages
  <2> QED
    BY <1>0, <1>4, <2>1, PostedOrDropped
    DEF FlowTypeOK, SoundCompletes, Running, Audio!Report, timers
<1>5. CASE AudioServiceEnds
  BY <1>5 DEF FlowTypeOK, AudioServiceEnds, Running, Audio!ServiceEnds, Audio!SoundIsLost, timers
<1>6. CASE SetRegion
  <2>1. PICK r \in UserRegions : PopsFront(r) /\ m_current_region' = r
    BY <1>6 DEF SetRegion
  <2>2. m_current_region' \in Regions
    BY <2>1
  <2> QED
    BY <1>0, <1>6, <2>1, <2>2, PoppedIsFirst
    DEF FlowTypeOK, SetRegion, Running, timers, audioService
<1>7. CASE HandleMessage
  <2>1. PICK m \in Messages \ UserRegions :
          /\ PopsFront(m)
          /\ RowFor(m).action = "requestSound" => sounds < MaxSounds
          /\ Performs(RowFor(m).action)
          /\ m_current_state' = [m_current_state EXCEPT ![m_current_region] = RowFor(m).next]
    BY <1>7 DEF HandleMessage
  <2>2. m_current_state[m_current_region] \in States
    BY DEF FlowTypeOK
  <2>3. RowFor(m).next \in States
    BY <2>2, ProcessorsKeepStates DEF RowFor
  <2>4. m_current_state' \in [Regions -> States]
    BY <2>1, <2>3 DEF FlowTypeOK
  <2> HIDE DEF RowFor
  <2> DEFINE action == RowFor(m).action
  <2>5. /\ status' \in [UsedTimers -> {"idle", "running"}]
        /\ inflight' = inflight /\ closed' = FALSE
        /\ audio' = audio /\ sounds' \in 0 .. MaxSounds
    <3>1. Performs(action) /\ (action = "requestSound" => sounds < MaxSounds)
      BY <2>1
    <3> HIDE DEF action
    <3> QED
      BY <3>1, TypedTimers
  <2> QED
    BY <1>0, <1>7, <2>1, <2>4, <2>5, PoppedIsFirst DEF FlowTypeOK, HandleMessage, Running
<1>8. CASE RequestKills
  <2>1. PICK m \in Messages \ UserRegions : PopsFront(m)
    BY <1>8 DEF RequestKills
  <2> QED
    BY <1>0, <1>8, <2>1, PoppedIsFirst DEF FlowTypeOK, RequestKills, timers, audioService
<1>9. CASE UNCHANGED flowVars
  BY <1>9 DEF FlowTypeOK, flowVars, timers, audioService
<1> QED
  BY <1>1, <1>2, <1>3, <1>4, <1>5, <1>6, <1>7, <1>8, <1>9 DEF FlowNext, ProcessMessage

LEMMA FlowTypeInit == FlowInit => FlowTypeOK
BY FlowAssumption
DEF FlowInit, FlowTypeOK, Timer!ContractInit, Audio!SoundInit, Regions, States, Messages, Awaited

\* The queue holds no more than its capacity, its messages are ones that somebody
\* posts, the manager is not closed, and the machines are in their states.
THEOREM FlowTypeCorrect == FlowSafetySpec => []FlowTypeOK
BY FlowTypeInit, FlowTypeStep, PTL DEF FlowSafetySpec

-------------------------------------------------------------------------------
\* With one region, the region of the start: its processor gets every message.
OneRegion == UserRegions \subseteq {"RegionThree"}

OnlyThree ==
  /\ m_current_region = "RegionThree"
  /\ \A r \in Regions \ {"RegionThree"} : m_current_state[r] = "Idle"

FlowInv == FlowTypeOK /\ OnlyThree /\ StoppingIsWatched /\ WaitingIsWatched

StopWatched ==
  \/ status[StopTimer] = "running" \/ inflight[StopTimer] > 0
  \/ Queued(TimeoutEvent(StopTimer))
  \/ TimeoutEvent(StopTimer) \in dropped

SoundWatched ==
  \/ sounds > 0 \/ Queued("AudioPlayCompleted")
  \/ "AudioPlayCompleted" \in dropped
  \/ audio # "up"

\* In that case the two invariants are about one processor.
LEMMA ThreeIsWatched ==
  ASSUME OnlyThree
  PROVE  /\ StoppingIsWatched <=> (Waits("RegionThree", "Stopping") => StopWatched)
         /\ WaitingIsWatched <=>
              (Waits("RegionThree", "WaitingAudioComplete") => SoundWatched)
<1>1. \A r \in Regions : r # "RegionThree" =>
        ~Waits(r, "Stopping") /\ ~Waits(r, "WaitingAudioComplete")
  BY DEF OnlyThree, Waits
<1>2. "RegionThree" \in Regions
  BY DEF Regions
<1>3. StoppingIsWatched <=> (Waits("RegionThree", "Stopping") => StopWatched)
  BY <1>1, <1>2, Zenon DEF StoppingIsWatched, StopWatched
<1>4. WaitingIsWatched <=> (Waits("RegionThree", "WaitingAudioComplete") => SoundWatched)
  BY <1>1, <1>2, Zenon DEF WaitingIsWatched, SoundWatched
<1> QED
  BY <1>3, <1>4

LEMMA OnlyThreeStep ==
  OneRegion /\ FlowTypeOK /\ OnlyThree /\ [FlowNext]_flowVars => OnlyThree'
<1> SUFFICES ASSUME OneRegion, FlowTypeOK, OnlyThree, [FlowNext]_flowVars
             PROVE  OnlyThree'
  OBVIOUS
<1>1. CASE SetRegion
  BY <1>1 DEF SetRegion, OneRegion, OnlyThree
<1>2. CASE HandleMessage
  BY <1>2 DEF HandleMessage, OnlyThree, FlowTypeOK
<1>3. CASE m_current_region' = m_current_region /\ m_current_state' = m_current_state
  BY <1>3 DEF OnlyThree
<1> QED
  BY <1>1, <1>2, <1>3
  DEF FlowNext, ListenerPosts, TimerExpires, WorkerPosts, SoundCompletes, AudioServiceEnds,
      ProcessMessage, RequestKills, flowVars

\* The steps in which the processors handle nothing.
LEMMA WatchKept ==
  ASSUME FlowTypeOK, FlowNext, ~HandleMessage
  PROVE  /\ \A state : Waits("RegionThree", state)' => Waits("RegionThree", state)
         /\ Waits("RegionThree", "Stopping")' /\ StopWatched => StopWatched'
         /\ Waits("RegionThree", "WaitingAudioComplete")' /\ SoundWatched => SoundWatched'
<1> USE FlowAssumption
<1>0. /\ m_queue \in Seq(Messages) /\ Len(m_queue) <= Capacity
      /\ dropped \subseteq Awaited
      /\ inflight \in [UsedTimers -> Nat] /\ sounds \in Nat
      /\ status \in [UsedTimers -> {"idle", "running"}]
      /\ StopTimer \in UsedTimers
  BY DEF FlowTypeOK, UsedTimers
<1>1. ASSUME NEW m \in UserEvents \union UserRegions, ListenerPosts(m)
      PROVE  /\ \A state : Waits("RegionThree", state)' => Waits("RegionThree", state)
             /\ StopWatched => StopWatched'
             /\ SoundWatched => SoundWatched'
  <2>1. m \in Messages /\ PostEvent(m)
    BY <1>1 DEF ListenerPosts, Messages
  <2>2. dropped \subseteq dropped' /\ \A x : Queued(x) => Queued(x)'
    BY <1>0, <2>1, PostedOrDropped
  <2> QED
    BY <1>1, <2>2
    DEF ListenerPosts, Running, timers, audioService, Waits, StopWatched, SoundWatched
<1>2. ASSUME NEW t \in UsedTimers, TimerExpires(t)
      PROVE  /\ \A state : Waits("RegionThree", state)' => Waits("RegionThree", state)
             /\ StopWatched => StopWatched'
             /\ SoundWatched => SoundWatched'
  <2>1. UNCHANGED <<process, m_queue, m_current_state, audio, sounds, dropped>>
    BY <1>2 DEF TimerExpires, Running, audioService
  <2>2. \A x : Queued(x) => Queued(x)'
    BY <2>1 DEF Queued
  <2>3. status[StopTimer] = "running" => status'[StopTimer] = "running" \/ inflight'[StopTimer] > 0
    BY <1>0, <1>2 DEF TimerExpires, Timer!Expire
  <2>4. inflight[StopTimer] > 0 => inflight'[StopTimer] > 0
    BY <1>0, <1>2 DEF TimerExpires, Timer!Expire
  <2> QED
    BY <2>1, <2>2, <2>3, <2>4 DEF Waits, StopWatched, SoundWatched
<1>3. ASSUME NEW t \in UsedTimers, WorkerPosts(t)
      PROVE  /\ \A state : Waits("RegionThree", state)' => Waits("RegionThree", state)
             /\ StopWatched => StopWatched'
             /\ SoundWatched => SoundWatched'
  <2>1. TimeoutEvent(t) \in Messages /\ PostEvent(TimeoutEvent(t))
    BY <1>3 DEF WorkerPosts, Messages
  <2>2. dropped \subseteq dropped' /\ \A x : Queued(x) => Queued(x)'
    BY <1>0, <2>1, PostedOrDropped
  <2>3. UNCHANGED <<process, m_current_state, status, audio, sounds>>
    BY <1>3 DEF WorkerPosts, Running, Timer!Deliver, audioService
  <2>4. CASE t = StopTimer
    <3>1. TimeoutEvent(t) \in Awaited
      BY <2>4 DEF Awaited
    <3>2. Queued(TimeoutEvent(StopTimer))' \/ TimeoutEvent(StopTimer) \in dropped'
      BY <1>0, <2>1, <2>4, <3>1, PostedOrDropped
    <3> QED
      BY <2>2, <2>3, <3>2 DEF Waits, StopWatched, SoundWatched
  <2>5. CASE t # StopTimer
    <3>1. inflight'[StopTimer] = inflight[StopTimer]
      BY <1>0, <1>3, <2>5 DEF WorkerPosts, Timer!Deliver
    <3> QED
      BY <2>2, <2>3, <3>1 DEF Waits, StopWatched, SoundWatched
  <2> QED
    BY <2>4, <2>5
<1>4. CASE SoundCompletes
  <2>1. "AudioPlayCompleted" \in Messages /\ PostEvent("AudioPlayCompleted")
        /\ "AudioPlayCompleted" \in Awaited
    BY <1>4 DEF SoundCompletes, Messages, Awaited
  <2>2. dropped \subseteq dropped' /\ (\A x : Queued(x) => Queued(x)')
        /\ (Queued("AudioPlayCompleted")' \/ "AudioPlayCompleted" \in dropped')
    BY <1>0, <2>1, PostedOrDropped
  <2> QED
    BY <1>4, <2>2 DEF SoundCompletes, Running, timers, Waits, StopWatched, SoundWatched
<1>5. CASE AudioServiceEnds
  <2>1. UNCHANGED <<process, m_queue, m_current_state, status, inflight, dropped>>
        /\ audio' = "gone"
    BY <1>5 DEF AudioServiceEnds, Running, Audio!ServiceEnds, Audio!SoundIsLost, timers
  <2> QED
    BY <2>1 DEF Queued, Waits, StopWatched, SoundWatched
<1>6. CASE SetRegion
  <2>1. PICK r \in UserRegions : PopsFront(r)
    BY <1>6 DEF SetRegion
  <2>2. r # TimeoutEvent(StopTimer) /\ r # "AudioPlayCompleted"
    BY DEF Regions, TimeoutEvent, StopTimer
  <2>3. \A x : Queued(x) /\ x # r => Queued(x)'
    BY <1>0, <2>1, PoppedIsFirst
  <2> QED
    BY <1>6, <2>2, <2>3
    DEF SetRegion, Running, timers, audioService, Waits, StopWatched, SoundWatched
<1>7. CASE RequestKills
  BY <1>7 DEF RequestKills, Waits
<1> QED
  BY <1>1, <1>2, <1>3, <1>4, <1>5, <1>6, <1>7 DEF FlowNext, ProcessMessage

\* The one in which a processor handles a message: whoever begins to wait has just
\* started what it waits for, and whoever goes on waiting was told something else.
LEMMA WatchHandled ==
  ASSUME FlowTypeOK, OnlyThree, HandleMessage,
         Waits("RegionThree", "Stopping") => StopWatched,
         Waits("RegionThree", "WaitingAudioComplete") => SoundWatched
  PROVE  /\ Waits("RegionThree", "Stopping")' => StopWatched'
         /\ Waits("RegionThree", "WaitingAudioComplete")' => SoundWatched'
<1> USE FlowAssumption
<1>0. /\ m_queue \in Seq(Messages) /\ Len(m_queue) <= Capacity
      /\ sounds \in Nat
      /\ status \in [UsedTimers -> {"idle", "running"}]
      /\ StopTimer \in UsedTimers
      /\ m_current_state \in [Regions -> States]
      /\ m_current_region = "RegionThree" /\ "RegionThree" \in Regions
  BY DEF FlowTypeOK, OnlyThree, UsedTimers, Regions
<1>1. PICK m \in Messages \ UserRegions :
        /\ PopsFront(m)
        /\ Performs(RowFor(m).action)
        /\ m_current_state' = [m_current_state EXCEPT ![m_current_region] = RowFor(m).next]
  BY DEF HandleMessage
<1>2. process = "running" /\ dropped' = dropped
  BY DEF HandleMessage, Running
<1> DEFINE state == m_current_state["RegionThree"]
           row == RowFor(m)
<1>3. state \in States
  BY <1>0
<1>4. row = HandleEvent(DestThreeTable, state, m)
  BY <1>0 DEF RowFor, TableOf
<1>5. m_current_state'["RegionThree"] = row.next
  BY <1>0, <1>1
<1>6. \/ \E i \in 1 .. 7 : Applies(i, state, m) /\ row = StopSequence[i]
      \/ m = "PowerIgnitionOff" /\ row.next = "Idle" /\ row.action = "cancelAllTimers"
      \/ (\A i \in 1 .. 7 : ~Applies(i, state, m))
           /\ row.next = state /\ row.action = "none"
  BY <1>3, <1>4, DestThreeSteps
<1>7. \A x : Queued(x) /\ x # m => Queued(x)'
  BY <1>0, <1>1, PoppedIsFirst
<1>8. Performs(row.action)
  BY <1>1
<1> HIDE DEF state, row
<1>9. ASSUME NEW i \in 1 .. 7, Applies(i, state, m), row = StopSequence[i]
      PROVE  /\ row.next = "Stopping" => StopWatched'
             /\ row.next = "WaitingAudioComplete" => SoundWatched'
  <2>1. row.next = "Stopping" => row.action = "startStopTimer"
    BY <1>9, StopSequenceRows DEF Transition
  <2>2. row.next = "WaitingAudioComplete" => row.action = "requestSound"
    BY <1>9, StopSequenceRows DEF Transition
  <2>3. row.action = "startStopTimer" => status'[StopTimer] = "running"
    BY <1>0, <1>8 DEF Performs, Timer!Arm
  <2>4. row.action = "requestSound" => sounds' > 0 \/ audio' # "up"
    BY <1>0, <1>8 DEF Performs, Audio!Request
  <2> QED
    BY <2>1, <2>2, <2>3, <2>4 DEF StopWatched, SoundWatched
<1>10. CASE (\A i \in 1 .. 7 : ~Applies(i, state, m)) /\ row.next = state /\ row.action = "none"
  <2>1. UNCHANGED <<status, inflight, audio, sounds>>
    BY <1>8, <1>10 DEF Performs, timers, audioService
  <2>2. state = "Stopping" => m # TimeoutEvent(StopTimer)
    BY <1>10, StopSequenceRows DEF Applies, Transition, TimeoutEvent, StopTimer
  <2>3. state = "WaitingAudioComplete" => m # "AudioPlayCompleted"
    BY <1>10, StopSequenceRows DEF Applies, Transition
  <2>4. state = "Stopping" => StopWatched'
    BY <1>2, <1>7, <2>1, <2>2 DEF state, Waits, StopWatched
  <2>5. state = "WaitingAudioComplete" => SoundWatched'
    BY <1>2, <1>7, <2>1, <2>3 DEF state, Waits, SoundWatched
  <2> QED
    BY <1>5, <1>10, <2>4, <2>5 DEF Waits
<1> QED
  BY <1>5, <1>6, <1>9, <1>10 DEF Waits

LEMMA FlowInvInit == OneRegion /\ FlowInit => FlowInv
<1> SUFFICES ASSUME FlowInit
             PROVE  FlowInv
  OBVIOUS
<1>1. OnlyThree
  BY DEF FlowInit, OnlyThree
<1>2. ~Waits("RegionThree", "Stopping") /\ ~Waits("RegionThree", "WaitingAudioComplete")
  BY DEF FlowInit, Waits, Regions
<1> QED
  BY <1>1, <1>2, FlowTypeInit, ThreeIsWatched DEF FlowInv

LEMMA FlowInvStep == OneRegion /\ FlowInv /\ [FlowNext]_flowVars => FlowInv'
<1> SUFFICES ASSUME OneRegion, FlowInv, [FlowNext]_flowVars
             PROVE  FlowInv'
  OBVIOUS
<1>1. FlowTypeOK' /\ OnlyThree'
  BY FlowTypeStep, OnlyThreeStep DEF FlowInv
<1>2. /\ Waits("RegionThree", "Stopping") => StopWatched
      /\ Waits("RegionThree", "WaitingAudioComplete") => SoundWatched
  BY ThreeIsWatched DEF FlowInv
<1>3. /\ Waits("RegionThree", "Stopping")' => StopWatched'
      /\ Waits("RegionThree", "WaitingAudioComplete")' => SoundWatched'
  <2>1. CASE HandleMessage
    BY <1>2, <2>1, WatchHandled DEF FlowInv
  <2>2. CASE FlowNext /\ ~HandleMessage
    BY <1>2, <2>2, WatchKept DEF FlowInv
  <2>3. CASE UNCHANGED flowVars
    BY <1>2, <2>3
    DEF flowVars, timers, audioService, Waits, StopWatched, SoundWatched, Queued
  <2> QED
    BY <2>1, <2>2, <2>3
<1>4. \A r \in Regions : r # "RegionThree" =>
        ~Waits(r, "Stopping")' /\ ~Waits(r, "WaitingAudioComplete")'
  BY <1>1 DEF OnlyThree, Waits
<1>5. StoppingIsWatched'
  BY <1>3, <1>4, Zenon DEF StoppingIsWatched, StopWatched
<1>6. WaitingIsWatched'
  BY <1>3, <1>4, Zenon DEF WaitingIsWatched, SoundWatched
<1> QED
  BY <1>1, <1>5, <1>6 DEF FlowInv

\* With one region, a processor in Stopping always has its timer running, or the
\* timeout on its way, unless a full queue dropped one.
THEOREM StopIsWatched ==
  ASSUME OneRegion
  PROVE  FlowSafetySpec => []StoppingIsWatched
<1>1. FlowInit => FlowInv
  BY FlowInvInit
<1>2. FlowInv /\ [FlowNext]_flowVars => FlowInv'
  BY FlowInvStep
<1>3. FlowInv => StoppingIsWatched
  BY DEF FlowInv
<1> QED
  BY <1>1, <1>2, <1>3, PTL DEF FlowSafetySpec

\* With one region, a processor that waits for a sound always has one under way,
\* unless the full queue dropped its completion or AudioService is not there.
THEOREM SoundIsWatched ==
  ASSUME OneRegion
  PROVE  FlowSafetySpec => []WaitingIsWatched
<1>1. FlowInit => FlowInv
  BY FlowInvInit
<1>2. FlowInv /\ [FlowNext]_flowVars => FlowInv'
  BY FlowInvStep
<1>3. FlowInv => WaitingIsWatched
  BY DEF FlowInv
<1> QED
  BY <1>1, <1>2, <1>3, PTL DEF FlowSafetySpec

-------------------------------------------------------------------------------
\* The commands of the services are events and regions that users name, of one
\* service each, and none is an event that a timer or AudioService posts.
LEMMA CommandsAreMessages ==
  /\ HmiCommands \subseteq UserEvents /\ PowerCommands \subseteq UserEvents
  /\ RegionCommands \subseteq UserRegions /\ UserRegions \subseteq Commands
  /\ Commands = HmiCommands \union PowerCommands \union RegionCommands
  /\ Commands \subseteq Messages
  /\ HmiCommands \intersect PowerCommands = {}
  /\ HmiCommands \intersect RegionCommands = {}
  /\ PowerCommands \intersect RegionCommands = {}
  /\ \A t \in UsedTimers : TimeoutEvent(t) \notin Commands
  /\ "AudioPlayCompleted" \notin Commands
<1>1. UserRegions \subseteq {"RegionOne", "RegionTwo", "RegionThree"}
  BY FlowAssumption DEF Regions
<1> QED
  BY <1>1 DEF HmiCommands, PowerCommands, RegionCommands, Commands, Messages, TimeoutEvent

ChannelTyped(C, sent, delivered) ==
  sent \in Seq(C) /\ delivered \in Seq(C) /\ Len(delivered) <= Len(sent)

\* What the listener takes is a command of its service.
LEMMA TakenIsCommand ==
  ASSUME NEW C, NEW s, NEW d, ChannelTyped(C, s, d), Len(d) < Len(s)
  PROVE  /\ s[Len(d) + 1] \in C
         /\ ChannelTyped(C, s, Append(d, s[Len(d) + 1]))
         /\ Len(d) \in Nat /\ Len(s) \in Nat
         /\ Len(Append(d, s[Len(d) + 1])) = Len(d) + 1
<1>1. s \in Seq(C) /\ d \in Seq(C) /\ Len(d) \in Nat /\ Len(s) \in Nat
  BY LenProperties DEF ChannelTyped
<1>2. Len(d) + 1 \in 1 .. Len(s)
  BY <1>1
<1>3. s[Len(d) + 1] \in C
  BY <1>1, <1>2, ElementOfSeq
<1>4. Append(d, s[Len(d) + 1]) \in Seq(C)
      /\ Len(Append(d, s[Len(d) + 1])) = Len(d) + 1
  BY <1>1, <1>3, AppendProperties
<1> QED
  BY <1>1, <1>2, <1>3, <1>4 DEF ChannelTyped

\* What is sent is typed, too.
LEMMA SentIsTyped ==
  ASSUME NEW C, NEW s, NEW d, ChannelTyped(C, s, d), NEW c \in C
  PROVE  ChannelTyped(C, Append(s, c), d) /\ Len(Append(s, c)) = Len(s) + 1
         /\ Len(s) \in Nat /\ Len(d) \in Nat
<1>1. s \in Seq(C) /\ Len(s) \in Nat /\ Len(d) \in Nat
  BY LenProperties DEF ChannelTyped
<1>2. Append(s, c) \in Seq(C) /\ Len(Append(s, c)) = Len(s) + 1
  BY <1>1, AppendProperties
<1> QED
  BY <1>1, <1>2 DEF ChannelTyped

\* What is known of the commands given to one service.
GivenTo(S, sent) == Follows(given, S, sent) /\ Count(given, S) = Len(sent)

SystemTypes ==
  /\ FlowTypeOK
  /\ given \in Seq(Commands) /\ Len(given) <= MaxCommands
  /\ paced \in BOOLEAN
  /\ handled \in Seq(Commands)
  /\ ChannelTyped(HmiCommands, hmi_sent, hmi_delivered)
  /\ ChannelTyped(PowerCommands, power_sent, power_delivered)
  /\ ChannelTyped(RegionCommands, region_sent, region_delivered)

SystemTypeInv ==
  /\ SystemTypes
  /\ GivenTo(HmiCommands, hmi_sent)
  /\ GivenTo(PowerCommands, power_sent)
  /\ GivenTo(RegionCommands, region_sent)

LEMMA SystemIsTyped == SystemTypeInv => SystemTypeOK
BY DEF SystemTypeInv, SystemTypes, GivenTo, SystemTypeOK

\* Every step of the whole is one of the event flow, or leaves it alone.
LEMMA SystemStepIsFlowStep ==
  SystemTypes /\ [SystemNext]_systemVars => [FlowNext]_flowVars
<1> SUFFICES ASSUME SystemTypes, [SystemNext]_systemVars
             PROVE  [FlowNext]_flowVars
  OBVIOUS
<1>1. ASSUME NEW c \in Commands, slldRuns(c)
      PROVE  UNCHANGED flowVars
  BY <1>1 DEF slldRuns
<1>2. CASE HmiListener
  <2>1. HmiService!NextCommand \in HmiCommands
    BY <1>2, TakenIsCommand
    DEF HmiListener, HmiService!Deliver, HmiService!Undelivered, HmiService!NextCommand,
        SystemTypes
  <2> QED
    BY <1>2, <2>1, CommandsAreMessages DEF HmiListener, FlowNext
<1>3. CASE PowerListener
  <2>1. PowerService!NextCommand \in PowerCommands
    BY <1>3, TakenIsCommand
    DEF PowerListener, PowerService!Deliver, PowerService!Undelivered,
        PowerService!NextCommand, SystemTypes
  <2> QED
    BY <1>3, <2>1, CommandsAreMessages DEF PowerListener, FlowNext
<1>4. CASE RegionListener
  <2>1. RegionService!NextCommand \in RegionCommands
    BY <1>4, TakenIsCommand
    DEF RegionListener, RegionService!Deliver, RegionService!Undelivered,
        RegionService!NextCommand, SystemTypes
  <2> QED
    BY <1>4, <2>1, CommandsAreMessages DEF RegionListener, FlowNext
<1>5. CASE AudioListener
  BY <1>5 DEF AudioListener, FlowNext
<1>6. CASE AudioEnds
  BY <1>6 DEF AudioEnds, FlowNext
<1>7. ASSUME NEW t \in UsedTimers, TimerStep(t)
      PROVE  FlowNext
  BY <1>7 DEF TimerStep, FlowNext
<1>8. CASE AppThreadLoop
  BY <1>8 DEF AppThreadLoop, FlowNext
<1>9. CASE UNCHANGED systemVars
  BY <1>9 DEF systemVars
<1> QED
  BY <1>1, <1>2, <1>3, <1>4, <1>5, <1>6, <1>7, <1>8, <1>9 DEF SystemNext

\* Which of the sent commands a service's clients gave stays known when one more is
\* given, to it or to another.
LEMMA GivenToGrows ==
  ASSUME NEW S, S \subseteq Commands, NEW s \in Seq(S), given \in Seq(Commands),
         GivenTo(S, s), NEW c \in Commands, given' = Append(given, c)
  PROVE  /\ c \in S => Follows(given', S, Append(s, c)) /\ Count(given', S) = Len(Append(s, c))
         /\ c \notin S => Follows(given', S, s) /\ Count(given', S) = Len(s)
<1>1. Len(s) \in Nat /\ Continues(given, S, s, 0) /\ Count(given, S) = Len(s)
  BY LenProperties DEF GivenTo, Follows
<1>2. ASSUME c \in S
      PROVE  Follows(given', S, Append(s, c)) /\ Count(given', S) = Len(Append(s, c))
  <2>1. Len(Append(s, c)) = Len(s) + 1 /\ Append(s, c)[Len(s) + 1] = c
    BY <1>2, AppendProperties
  <2>2. Continues(given, S, Append(s, c), 0)
    BY <1>1, <1>2, OfLonger
  <2> DEFINE t == Append(s, c)
  <2> HIDE DEF t
  <2>3. /\ Count(Append(given, c), S) = Count(given, S) + IF c \in S THEN 1 ELSE 0
        /\ Continues(Append(given, c), S, t, 0) <=>
             /\ Continues(given, S, t, 0)
             /\ c \in S => /\ 0 + Count(given, S) + 1 <= Len(t)
                           /\ c = t[0 + Count(given, S) + 1]
    BY OfAppended
  <2> QED
    BY <1>1, <1>2, <2>1, <2>2, <2>3 DEF t, Follows
<1>3. ASSUME c \notin S
      PROVE  Follows(given', S, s) /\ Count(given', S) = Len(s)
  <2>1. /\ Count(Append(given, c), S) = Count(given, S) + IF c \in S THEN 1 ELSE 0
        /\ Continues(Append(given, c), S, s, 0) <=>
             /\ Continues(given, S, s, 0)
             /\ c \in S => /\ 0 + Count(given, S) + 1 <= Len(s)
                           /\ c = s[0 + Count(given, S) + 1]
    BY OfAppended
  <2> QED
    BY <1>1, <1>3, <2>1 DEF Follows
<1> QED
  BY <1>2, <1>3

LEMMA SystemTypeInit == SystemInit => SystemTypeInv
<1> SUFFICES ASSUME SystemInit
             PROVE  SystemTypeInv
  OBVIOUS
<1>1. FlowTypeOK
  BY FlowTypeInit DEF SystemInit
<1>2. /\ given = <<>> /\ handled = <<>> /\ paced = TRUE
      /\ hmi_sent = <<>> /\ hmi_delivered = <<>>
      /\ power_sent = <<>> /\ power_delivered = <<>>
      /\ region_sent = <<>> /\ region_delivered = <<>>
  BY DEF SystemInit, HmiService!ChannelInit, PowerService!ChannelInit,
         RegionService!ChannelInit
<1>3. Len(<<>>) = 0 /\ \A X : <<>> \in Seq(X)
  BY EmptySeq
<1>4. \A X : ChannelTyped(X, <<>>, <<>>)
  BY <1>3 DEF ChannelTyped
<1>5. \A S : GivenTo(S, <<>>)
  BY <1>2, <1>3, OfNone DEF GivenTo, Follows
<1> QED
  BY <1>1, <1>2, <1>3, <1>4, <1>5, SystemAssumption DEF SystemTypeInv, SystemTypes

\* The user and slld.
LEMMA SlldTypes ==
  ASSUME SystemTypeInv, FlowTypeOK', NEW c \in Commands, slldRuns(c)
  PROVE  SystemTypeInv'
<1> USE DEF SystemTypeInv, SystemTypes
<1>1. /\ given' = Append(given, c) /\ Len(given) < MaxCommands
      /\ paced' \in BOOLEAN /\ handled' = handled
  BY DEF slldRuns
<1>2. given' \in Seq(Commands) /\ Len(given') = Len(given) + 1 /\ Len(given) \in Nat
  BY <1>1, AppendProperties, LenProperties
<1>3. Len(given') <= MaxCommands
  BY <1>1, <1>2, SystemAssumption
<1>4. /\ HmiCommands \subseteq Commands /\ PowerCommands \subseteq Commands
      /\ RegionCommands \subseteq Commands
      /\ hmi_sent \in Seq(HmiCommands) /\ power_sent \in Seq(PowerCommands)
      /\ region_sent \in Seq(RegionCommands)
  BY CommandsAreMessages DEF ChannelTyped
<1>5. HandleCommand(c)
  BY DEF slldRuns
<1>6. CASE c \in HmiCommands /\ HmiService!Send(c) /\ UNCHANGED <<powerChannel, regionChannel>>
  <2>1. /\ hmi_sent' = Append(hmi_sent, c) /\ hmi_delivered' = hmi_delivered
        /\ power_sent' = power_sent /\ power_delivered' = power_delivered
        /\ region_sent' = region_sent /\ region_delivered' = region_delivered
    BY <1>6 DEF HmiService!Send, powerChannel, regionChannel
  <2>2. c \notin PowerCommands /\ c \notin RegionCommands
    BY <1>6, CommandsAreMessages
  <2>3. GivenTo(HmiCommands, hmi_sent)' /\ GivenTo(PowerCommands, power_sent)'
        /\ GivenTo(RegionCommands, region_sent)'
    BY <1>1, <1>4, <1>6, <2>1, <2>2, GivenToGrows DEF GivenTo
  <2>4. ChannelTyped(HmiCommands, hmi_sent', hmi_delivered')
    BY <1>6, <2>1, SentIsTyped
  <2> QED
    BY <1>1, <1>2, <1>3, <2>1, <2>3, <2>4
<1>7. CASE /\ c \in PowerCommands /\ PowerService!Send(c)
           /\ UNCHANGED <<hmiChannel, regionChannel>>
  <2>1. /\ power_sent' = Append(power_sent, c) /\ power_delivered' = power_delivered
        /\ hmi_sent' = hmi_sent /\ hmi_delivered' = hmi_delivered
        /\ region_sent' = region_sent /\ region_delivered' = region_delivered
    BY <1>7 DEF PowerService!Send, hmiChannel, regionChannel
  <2>2. c \notin HmiCommands /\ c \notin RegionCommands
    BY <1>7, CommandsAreMessages
  <2>3. GivenTo(HmiCommands, hmi_sent)' /\ GivenTo(PowerCommands, power_sent)'
        /\ GivenTo(RegionCommands, region_sent)'
    BY <1>1, <1>4, <1>7, <2>1, <2>2, GivenToGrows DEF GivenTo
  <2>4. ChannelTyped(PowerCommands, power_sent', power_delivered')
    BY <1>7, <2>1, SentIsTyped
  <2> QED
    BY <1>1, <1>2, <1>3, <2>1, <2>3, <2>4
<1>8. CASE /\ c \in RegionCommands /\ RegionService!Send(c)
           /\ UNCHANGED <<hmiChannel, powerChannel>>
  <2>1. /\ region_sent' = Append(region_sent, c) /\ region_delivered' = region_delivered
        /\ hmi_sent' = hmi_sent /\ hmi_delivered' = hmi_delivered
        /\ power_sent' = power_sent /\ power_delivered' = power_delivered
    BY <1>8 DEF RegionService!Send, hmiChannel, powerChannel
  <2>2. c \notin HmiCommands /\ c \notin PowerCommands
    BY <1>8, CommandsAreMessages
  <2>3. GivenTo(HmiCommands, hmi_sent)' /\ GivenTo(PowerCommands, power_sent)'
        /\ GivenTo(RegionCommands, region_sent)'
    BY <1>1, <1>4, <1>8, <2>1, <2>2, GivenToGrows DEF GivenTo
  <2>4. ChannelTyped(RegionCommands, region_sent', region_delivered')
    BY <1>8, <2>1, SentIsTyped
  <2> QED
    BY <1>1, <1>2, <1>3, <2>1, <2>3, <2>4
<1> QED
  BY <1>5, <1>6, <1>7, <1>8 DEF HandleCommand

LEMMA SystemTypeStep ==
  SystemTypeInv /\ [SystemNext]_systemVars => SystemTypeInv'
<1> SUFFICES ASSUME SystemTypeInv, [SystemNext]_systemVars
             PROVE  SystemTypeInv'
  OBVIOUS
<1> USE DEF SystemTypeInv
<1>0. FlowTypeOK'
  <2>1. FlowTypeOK /\ [FlowNext]_flowVars
    BY SystemStepIsFlowStep DEF SystemTypes
  <2> QED
    BY <2>1, FlowTypeStep
<1>1. ASSUME NEW c \in Commands, slldRuns(c)
      PROVE  SystemTypeInv'
  BY <1>0, <1>1, SlldTypes
<1>2. CASE HmiListener
  <2>1. /\ Len(hmi_delivered) < Len(hmi_sent) /\ hmi_sent' = hmi_sent
        /\ hmi_delivered' = Append(hmi_delivered, hmi_sent[Len(hmi_delivered) + 1])
        /\ UNCHANGED <<given, paced, handled, power_sent, power_delivered,
                       region_sent, region_delivered>>
    BY <1>2 DEF HmiListener, HmiService!Deliver, HmiService!Undelivered,
      HmiService!NextCommand, userVars, powerChannel, regionChannel
  <2>2. ChannelTyped(HmiCommands, hmi_sent', hmi_delivered')
    BY <2>1, TakenIsCommand DEF SystemTypes
  <2> QED
    BY <1>0, <2>1, <2>2 DEF SystemTypes, GivenTo
<1>3. CASE PowerListener
  <2>1. /\ Len(power_delivered) < Len(power_sent) /\ power_sent' = power_sent
        /\ power_delivered' = Append(power_delivered, power_sent[Len(power_delivered) + 1])
        /\ UNCHANGED <<given, paced, handled, hmi_sent, hmi_delivered,
                       region_sent, region_delivered>>
    BY <1>3 DEF PowerListener, PowerService!Deliver, PowerService!Undelivered,
      PowerService!NextCommand, userVars, hmiChannel, regionChannel
  <2>2. ChannelTyped(PowerCommands, power_sent', power_delivered')
    BY <2>1, TakenIsCommand DEF SystemTypes
  <2> QED
    BY <1>0, <2>1, <2>2 DEF SystemTypes, GivenTo
<1>4. CASE RegionListener
  <2>1. /\ Len(region_delivered) < Len(region_sent) /\ region_sent' = region_sent
        /\ region_delivered' = Append(region_delivered, region_sent[Len(region_delivered) + 1])
        /\ UNCHANGED <<given, paced, handled, hmi_sent, hmi_delivered,
                       power_sent, power_delivered>>
    BY <1>4 DEF RegionListener, RegionService!Deliver, RegionService!Undelivered,
      RegionService!NextCommand, userVars, hmiChannel, powerChannel
  <2>2. ChannelTyped(RegionCommands, region_sent', region_delivered')
    BY <2>1, TakenIsCommand DEF SystemTypes
  <2> QED
    BY <1>0, <2>1, <2>2 DEF SystemTypes, GivenTo
<1>5. CASE AppThreadLoop
  <2>1. UNCHANGED <<given, paced, hmi_sent, hmi_delivered, power_sent, power_delivered,
                    region_sent, region_delivered>>
    BY <1>5 DEF AppThreadLoop, userVars, hmiChannel, powerChannel, regionChannel
  <2>2. handled' \in Seq(Commands)
    <3>1. PICK m \in Messages :
            handled' = IF m \in Commands THEN Append(handled, m) ELSE handled
      BY <1>5 DEF AppThreadLoop
    <3>2. CASE m \in Commands
      BY <3>1, <3>2, AppendProperties DEF SystemTypes
    <3>3. CASE m \notin Commands
      BY <3>1, <3>3 DEF SystemTypes
    <3> QED
      BY <3>2, <3>3
  <2> QED
    BY <1>0, <2>1, <2>2 DEF SystemTypes, GivenTo
<1>6. CASE UNCHANGED <<userVars, hmiChannel, powerChannel, regionChannel, handled>>
  <2>1. UNCHANGED <<given, paced, handled, hmi_sent, hmi_delivered, power_sent,
                    power_delivered, region_sent, region_delivered>>
    BY <1>6 DEF userVars, hmiChannel, powerChannel, regionChannel
  <2> QED
    BY <1>0, <2>1 DEF SystemTypes, GivenTo
<1> QED
  BY <1>1, <1>2, <1>3, <1>4, <1>5, <1>6
  DEF SystemNext, AudioListener, AudioEnds, TimerStep, systemVars

\* What slld's users give, what the services are sent and what is handled are
\* commands; a service is sent those of the commands that are its own, in their order.
THEOREM SystemTypeCorrect == SystemSafetySpec => []SystemTypeOK
<1>1. SystemInit => SystemTypeInv
  BY SystemTypeInit
<1>2. SystemTypeInv /\ [SystemNext]_systemVars => SystemTypeInv'
  BY SystemTypeStep
<1>3. SystemTypeInv => SystemTypeOK
  BY SystemIsTyped
<1> QED
  BY <1>1, <1>2, <1>3, PTL DEF SystemSafetySpec

\* The whole demo is an event flow whose listeners get their events from services:
\* whatever holds of ArchDemo holds of it.
THEOREM SystemIsFlow == SystemSafetySpec => FlowSafetySpec
<1>1. SystemInit => SystemTypeInv /\ FlowInit
  BY SystemTypeInit DEF SystemInit
<1>2. SystemTypeInv /\ [SystemNext]_systemVars => SystemTypeInv'
  BY SystemTypeStep
<1>3. SystemTypeInv /\ [SystemNext]_systemVars => [FlowNext]_flowVars
  BY SystemStepIsFlowStep DEF SystemTypeInv
<1> QED
  BY <1>1, <1>2, <1>3, PTL DEF SystemSafetySpec, FlowSafetySpec

-------------------------------------------------------------------------------
\* The commands that no listener has taken yet.
Undelivered ==
  (Len(hmi_sent) - Len(hmi_delivered)) + (Len(power_sent) - Len(power_delivered))
    + (Len(region_sent) - Len(region_delivered))

LEMMA WaysAreNat ==
  ASSUME SystemTypes
  PROVE  /\ Len(hmi_sent) \in Nat /\ Len(hmi_delivered) \in Nat
         /\ Len(power_sent) \in Nat /\ Len(power_delivered) \in Nat
         /\ Len(region_sent) \in Nat /\ Len(region_delivered) \in Nat
         /\ Len(hmi_delivered) <= Len(hmi_sent)
         /\ Len(power_delivered) <= Len(power_sent)
         /\ Len(region_delivered) <= Len(region_sent)
         /\ Count(m_queue, Commands) \in Nat
         /\ m_queue \in Seq(Messages) /\ Len(m_queue) \in Nat
         /\ given \in Seq(Commands) /\ handled \in Seq(Commands)
         /\ Len(given) \in Nat /\ Len(handled) \in Nat
BY CountType, LenProperties DEF SystemTypes, FlowTypeOK, ChannelTyped

\* What each listener does, to the channels and to the queue.
LEMMA HmiTakes ==
  ASSUME SystemTypes, HmiListener
  PROVE  \E m \in HmiCommands :
           /\ Len(hmi_delivered) < Len(hmi_sent) /\ m = hmi_sent[Len(hmi_delivered) + 1]
           /\ hmi_delivered' = Append(hmi_delivered, m) /\ hmi_sent' = hmi_sent
           /\ Len(hmi_delivered') = Len(hmi_delivered) + 1
           /\ PostEvent(m)
           /\ Undelivered > 0 /\ Undelivered' = Undelivered - 1
           /\ UNCHANGED <<given, paced, handled, power_sent, power_delivered, region_sent, region_delivered,
                          status, inflight, sounds>>
<1> DEFINE m == hmi_sent[Len(hmi_delivered) + 1]
<1>1. /\ Len(hmi_delivered) < Len(hmi_sent) /\ hmi_sent' = hmi_sent
      /\ hmi_delivered' = Append(hmi_delivered, m)
      /\ UNCHANGED <<given, paced, handled, power_sent, power_delivered, region_sent, region_delivered,
                     status, inflight, sounds>>
      /\ PostEvent(m)
  BY DEF HmiListener, HmiService!Deliver, HmiService!Undelivered, HmiService!NextCommand,
         userVars, powerChannel, regionChannel, ListenerPosts, timers, audioService
<1>2. m \in HmiCommands /\ Len(Append(hmi_delivered, m)) = Len(hmi_delivered) + 1
  BY <1>1, TakenIsCommand DEF SystemTypes
<1>3. Undelivered > 0 /\ Undelivered' = Undelivered - 1
  BY <1>1, <1>2, WaysAreNat DEF Undelivered
<1> QED
  BY <1>1, <1>2, <1>3

LEMMA PowerTakes ==
  ASSUME SystemTypes, PowerListener
  PROVE  \E m \in PowerCommands :
           /\ Len(power_delivered) < Len(power_sent) /\ m = power_sent[Len(power_delivered) + 1]
           /\ power_delivered' = Append(power_delivered, m) /\ power_sent' = power_sent
           /\ Len(power_delivered') = Len(power_delivered) + 1
           /\ PostEvent(m)
           /\ Undelivered > 0 /\ Undelivered' = Undelivered - 1
           /\ UNCHANGED <<given, paced, handled, hmi_sent, hmi_delivered, region_sent, region_delivered,
                          status, inflight, sounds>>
<1> DEFINE m == power_sent[Len(power_delivered) + 1]
<1>1. /\ Len(power_delivered) < Len(power_sent) /\ power_sent' = power_sent
      /\ power_delivered' = Append(power_delivered, m)
      /\ UNCHANGED <<given, paced, handled, hmi_sent, hmi_delivered, region_sent, region_delivered,
                     status, inflight, sounds>>
      /\ PostEvent(m)
  BY DEF PowerListener, PowerService!Deliver, PowerService!Undelivered, PowerService!NextCommand,
         userVars, hmiChannel, regionChannel, ListenerPosts, timers, audioService
<1>2. m \in PowerCommands /\ Len(Append(power_delivered, m)) = Len(power_delivered) + 1
  BY <1>1, TakenIsCommand DEF SystemTypes
<1>3. Undelivered > 0 /\ Undelivered' = Undelivered - 1
  BY <1>1, <1>2, WaysAreNat DEF Undelivered
<1> QED
  BY <1>1, <1>2, <1>3

LEMMA RegionTakes ==
  ASSUME SystemTypes, RegionListener
  PROVE  \E m \in RegionCommands :
           /\ Len(region_delivered) < Len(region_sent) /\ m = region_sent[Len(region_delivered) + 1]
           /\ region_delivered' = Append(region_delivered, m) /\ region_sent' = region_sent
           /\ Len(region_delivered') = Len(region_delivered) + 1
           /\ PostEvent(m)
           /\ Undelivered > 0 /\ Undelivered' = Undelivered - 1
           /\ UNCHANGED <<given, paced, handled, hmi_sent, hmi_delivered, power_sent, power_delivered,
                          status, inflight, sounds>>
<1> DEFINE m == region_sent[Len(region_delivered) + 1]
<1>1. /\ Len(region_delivered) < Len(region_sent) /\ region_sent' = region_sent
      /\ region_delivered' = Append(region_delivered, m)
      /\ UNCHANGED <<given, paced, handled, hmi_sent, hmi_delivered, power_sent, power_delivered,
                     status, inflight, sounds>>
      /\ PostEvent(m)
  BY DEF RegionListener, RegionService!Deliver, RegionService!Undelivered, RegionService!NextCommand,
         userVars, hmiChannel, powerChannel, ListenerPosts, timers, audioService
<1>2. m \in RegionCommands /\ Len(Append(region_delivered, m)) = Len(region_delivered) + 1
  BY <1>1, TakenIsCommand DEF SystemTypes
<1>3. Undelivered > 0 /\ Undelivered' = Undelivered - 1
  BY <1>1, <1>2, WaysAreNat DEF Undelivered
<1> QED
  BY <1>1, <1>2, <1>3

-------------------------------------------------------------------------------
(***************************************************************************)
(* The order of one service's commands.  The queue must not be full when a *)
(* listener posts one, for a dropped command leaves a gap in the order.  A *)
(* command takes one place when it is queued, and may start a timer whose  *)
(* timeout takes another, which may start a sound whose completion takes a *)
(* third: what is under way never needs more places than three for each    *)
(* command given.                                                          *)
(***************************************************************************)
Room == 3 * MaxCommands <= Capacity

Timeouts == {TimeoutEvent(t) : t \in UsedTimers}

\* The expiries to come of a timer.
Expiries(t) == inflight[t] + IF status[t] = "running" THEN 1 ELSE 0

\* A queued command counts three times here, a timeout twice, any other event once.
QueueLoad(q) == Len(q) + Count(q, Commands \union Timeouts) + Count(q, Commands)

Load ==
  3 * Undelivered + QueueLoad(m_queue)
    + 2 * (Expiries(StopTimer) + Expiries(RecoveryTimer)) + sounds

LoadInv == Load <= 3 * Len(given)

\* The commands to one service, in the history, in the queue and before it: h and q
\* hold, one after the other, those that its listener has taken.
InOrder(h, q, S, sent, delivered) ==
  /\ Follows(h, S, sent)
  /\ Continues(q, S, sent, Count(h, S))
  /\ Count(h, S) + Count(q, S) = Len(delivered)

OrderInv ==
  /\ InOrder(handled, m_queue, HmiCommands, hmi_sent, hmi_delivered)
  /\ InOrder(handled, m_queue, PowerCommands, power_sent, power_delivered)
  /\ InOrder(handled, m_queue, RegionCommands, region_sent, region_delivered)

LEMMA OrderWhenSent ==
  ASSUME NEW S, NEW h \in Seq(Commands), NEW q \in Seq(Messages), NEW s \in Seq(S), NEW d,
         InOrder(h, q, S, s, d), NEW c \in S
  PROVE  InOrder(h, q, S, Append(s, c), d)
<1>1. Count(h, S) \in Nat
  BY CountType
<1>2. Continues(h, S, Append(s, c), 0)
  BY OfLonger DEF InOrder, Follows
<1>3. Continues(q, S, Append(s, c), Count(h, S))
  BY <1>1, OfLonger DEF InOrder
<1> QED
  BY <1>2, <1>3 DEF InOrder, Follows

LEMMA OrderWhenPosted ==
  ASSUME NEW S, NEW h \in Seq(Commands), NEW q \in Seq(Messages), NEW s, NEW d,
         InOrder(h, q, S, s, d), NEW m \in Messages
  PROVE  /\ m \notin S => InOrder(h, Append(q, m), S, s, d)
         /\ d \in Seq(S) /\ m \in S /\ Len(d) < Len(s) /\ Len(s) \in Nat /\ m = s[Len(d) + 1]
              => InOrder(h, Append(q, m), S, s, Append(d, m))
<1>1. Count(h, S) \in Nat /\ Count(q, S) \in Nat
  BY CountType
<1>2. /\ Count(Append(q, m), S) = Count(q, S) + IF m \in S THEN 1 ELSE 0
      /\ Continues(Append(q, m), S, s, Count(h, S)) <=>
           /\ Continues(q, S, s, Count(h, S))
           /\ m \in S => /\ Count(h, S) + Count(q, S) + 1 <= Len(s)
                         /\ m = s[Count(h, S) + Count(q, S) + 1]
  BY <1>1, OfAppended
<1>3. ASSUME m \notin S
      PROVE  InOrder(h, Append(q, m), S, s, d)
  BY <1>1, <1>2, <1>3 DEF InOrder
<1>4. ASSUME d \in Seq(S), m \in S, Len(d) < Len(s), Len(s) \in Nat, m = s[Len(d) + 1]
      PROVE  InOrder(h, Append(q, m), S, s, Append(d, m))
  <2>1. Len(Append(d, m)) = Len(d) + 1 /\ Len(d) \in Nat
    BY <1>4, AppendProperties, LenProperties
  <2> QED
    BY <1>1, <1>2, <1>4, <2>1 DEF InOrder
<1> QED
  BY <1>3, <1>4

LEMMA OrderWhenPopped ==
  ASSUME NEW S, S \subseteq Commands, NEW h \in Seq(Commands), NEW q \in Seq(Messages),
         NEW s, NEW d, InOrder(h, q, S, s, d), q # <<>>
  PROVE  InOrder(IF Head(q) \in Commands THEN Append(h, Head(q)) ELSE h, Tail(q), S, s, d)
<1> DEFINE m == Head(q)
           g == IF m \in Commands THEN Append(h, m) ELSE h
<1>1. Count(h, S) \in Nat
  BY CountType
<1>2. /\ Count(q, S) = (IF m \in S THEN 1 ELSE 0) + Count(Tail(q), S)
      /\ Count(Tail(q), S) \in Nat
      /\ Continues(q, S, s, Count(h, S)) <=>
           /\ m \in S => Count(h, S) + 1 <= Len(s) /\ m = s[Count(h, S) + 1]
           /\ Continues(Tail(q), S, s, Count(h, S) + IF m \in S THEN 1 ELSE 0)
  BY <1>1, OfTail
<1>3. /\ Count(g, S) = Count(h, S) + IF m \in S THEN 1 ELSE 0
      /\ Continues(g, S, s, 0) <=>
           /\ Continues(h, S, s, 0)
           /\ m \in S => Count(h, S) + 1 <= Len(s) /\ m = s[Count(h, S) + 1]
  <2>1. CASE m \in Commands
    <3>1. /\ Count(Append(h, m), S) = Count(h, S) + IF m \in S THEN 1 ELSE 0
          /\ Continues(Append(h, m), S, s, 0) <=>
               /\ Continues(h, S, s, 0)
               /\ m \in S => 0 + Count(h, S) + 1 <= Len(s) /\ m = s[0 + Count(h, S) + 1]
      BY <2>1, OfAppended
    <3> QED
      BY <1>1, <2>1, <3>1
  <2>2. CASE m \notin Commands
    BY <1>1, <2>2
  <2> QED
    BY <2>1, <2>2
<1> HIDE DEF m, g
<1>4. InOrder(g, Tail(q), S, s, d)
  BY <1>1, <1>2, <1>3 DEF InOrder, Follows
<1> QED
  BY <1>4 DEF g, m

\* The weights of what is under way.
LEMMA LoadsAreNat ==
  ASSUME SystemTypes
  PROVE  /\ Undelivered \in Nat /\ Len(m_queue) \in Nat /\ Len(given) \in Nat
         /\ m_queue \in Seq(Messages)
         /\ Count(m_queue, Commands \union Timeouts) \in Nat
         /\ Count(m_queue, Commands) \in Nat
         /\ QueueLoad(m_queue) \in Nat /\ Len(m_queue) <= QueueLoad(m_queue)
         /\ inflight[StopTimer] \in Nat /\ inflight[RecoveryTimer] \in Nat
         /\ Expiries(StopTimer) \in Nat /\ Expiries(RecoveryTimer) \in Nat
         /\ sounds \in Nat
<1>1. Undelivered \in Nat
  BY WaysAreNat DEF Undelivered
<1>2. m_queue \in Seq(Messages) /\ Len(m_queue) \in Nat /\ Len(given) \in Nat
  BY WaysAreNat
<1>3. /\ Count(m_queue, Commands \union Timeouts) \in Nat
      /\ Count(m_queue, Commands) \in Nat
  BY <1>2, CountType
<1>4. inflight[StopTimer] \in Nat /\ inflight[RecoveryTimer] \in Nat /\ sounds \in Nat
  BY FlowAssumption DEF SystemTypes, FlowTypeOK, UsedTimers
<1>5. QueueLoad(m_queue) \in Nat /\ Len(m_queue) <= QueueLoad(m_queue)
  BY <1>2, <1>3 DEF QueueLoad
<1> QED
  BY <1>1, <1>2, <1>3, <1>4, <1>5 DEF Expiries

LEMMA LoadIsNat ==
  ASSUME SystemTypes
  PROVE  Load \in Nat
<1>1. \A u, q, a, b, n \in Nat : 3 * u + q + 2 * (a + b) + n \in Nat
  OBVIOUS
<1> QED
  BY <1>1, LoadsAreNat DEF Load

\* As long as something is to be posted, there is room for it.
LEMMA RoomForMore ==
  ASSUME Room, SystemTypes, LoadInv,
         \/ Undelivered > 0
         \/ \E t \in UsedTimers : inflight[t] > 0
         \/ sounds > 0
  PROVE  Len(m_queue) < Capacity
<1>1. Load <= Capacity
  <2>1. Len(given) \in Nat /\ Len(given) <= MaxCommands /\ Load \in Nat
    BY LoadsAreNat, LoadIsNat DEF SystemTypes
  <2> QED
    BY <2>1, FlowAssumption, SystemAssumption DEF Room, LoadInv
<1>2. \/ Undelivered > 0 \/ Expiries(StopTimer) > 0 \/ Expiries(RecoveryTimer) > 0
      \/ sounds > 0
  BY LoadsAreNat DEF Expiries, UsedTimers
<1>3. Load > QueueLoad(m_queue)
  BY <1>2, LoadsAreNat DEF Load
<1>4. Load \in Nat /\ Capacity \in Nat
  BY LoadIsNat, FlowAssumption
<1> QED
  BY <1>1, <1>3, <1>4, LoadsAreNat

\* What an event weighs in the queue.
Weight(m) ==
  1 + (IF m \in Commands \union Timeouts THEN 1 ELSE 0) + IF m \in Commands THEN 1 ELSE 0

LEMMA PostedLoad ==
  ASSUME NEW q \in Seq(Messages), NEW m \in Messages
  PROVE  QueueLoad(Append(q, m)) = QueueLoad(q) + Weight(m)
<1> DEFINE One(S) == IF m \in S THEN 1 ELSE 0
<1>1. \A S : Count(Append(q, m), S) = Count(q, S) + One(S) /\ Count(q, S) \in Nat
  BY OfAppended, CountType
<1>2. Len(Append(q, m)) = Len(q) + 1 /\ Len(q) \in Nat
  BY AppendProperties, LenProperties
<1>3. \A S : One(S) \in Nat
  OBVIOUS
<1>4. Weight(m) = 1 + One(Commands \union Timeouts) + One(Commands)
  BY DEF Weight
<1> HIDE DEF One
<1>5. /\ Count(Append(q, m), Commands) = Count(q, Commands) + One(Commands)
      /\ Count(Append(q, m), Commands \union Timeouts)
           = Count(q, Commands \union Timeouts) + One(Commands \union Timeouts)
      /\ Count(q, Commands) \in Nat /\ Count(q, Commands \union Timeouts) \in Nat
      /\ One(Commands) \in Nat /\ One(Commands \union Timeouts) \in Nat
  BY <1>1, <1>3
<1> QED
  BY <1>2, <1>4, <1>5 DEF QueueLoad

LEMMA PoppedLoad ==
  ASSUME NEW q \in Seq(Messages), q # <<>>
  PROVE  QueueLoad(q) = QueueLoad(Tail(q)) + Weight(Head(q)) /\ QueueLoad(Tail(q)) \in Nat
<1> DEFINE One(S) == IF Head(q) \in S THEN 1 ELSE 0
<1>1. ASSUME NEW S
      PROVE  Count(q, S) = One(S) + Count(Tail(q), S) /\ Count(Tail(q), S) \in Nat
  BY OfTail
<1>2. Len(Tail(q)) = Len(q) - 1 /\ Len(q) \in Nat /\ Len(Tail(q)) \in Nat
  BY HeadTailProperties, LenProperties
<1>3. \A S : One(S) \in Nat
  OBVIOUS
<1>4. Weight(Head(q)) = 1 + One(Commands \union Timeouts) + One(Commands)
  BY DEF Weight
<1> HIDE DEF One
<1> QED
  BY <1>1, <1>2, <1>3, <1>4 DEF QueueLoad

LEMMA Weights ==
  /\ \A m \in Messages : Weight(m) \in 1 .. 3
  /\ \A m \in Commands : Weight(m) = 3
  /\ \A t \in UsedTimers : Weight(TimeoutEvent(t)) = 2
  /\ Weight("AudioPlayCompleted") = 1
  /\ \A m \in Messages :
       m \in {"ApplicationStopRequest", "ApplicationRecovery"} => Weight(m) = 3
<1>1. \A m : Weight(m) \in 1 .. 3
  BY DEF Weight
<1>2. \A m \in Commands : Weight(m) = 3
  BY DEF Weight
<1>3. \A t \in UsedTimers : Weight(TimeoutEvent(t)) = 2
  BY CommandsAreMessages DEF Weight, Timeouts
<1>4. "AudioPlayCompleted" \notin Timeouts
  BY DEF Timeouts, TimeoutEvent
<1>5. Weight("AudioPlayCompleted") = 1
  BY <1>4, CommandsAreMessages DEF Weight
<1>6. \A m \in Messages :
        m \in {"ApplicationStopRequest", "ApplicationRecovery"} => m \in Commands
  BY FlowAssumption DEF Messages, Commands, HmiCommands, TimeoutEvent, Regions
<1> QED
  BY <1>1, <1>2, <1>3, <1>5, <1>6

\* Posting adds the weight of the event, or nothing when the queue is full.
LEMMA PostEventLoad ==
  ASSUME SystemTypes, NEW m \in Messages, PostEvent(m)
  PROVE  /\ QueueLoad(m_queue') \in Nat
         /\ QueueLoad(m_queue') <= QueueLoad(m_queue) + Weight(m)
<1>1. m_queue \in Seq(Messages) /\ QueueLoad(m_queue) \in Nat /\ Weight(m) \in Nat
  BY LoadsAreNat, Weights
<1>2. CASE m_queue' = Append(m_queue, m)
  BY <1>1, <1>2, PostedLoad
<1>3. CASE m_queue' = m_queue
  BY <1>1, <1>3
<1> QED
  BY <1>2, <1>3 DEF PostEvent

\* The load, before and after a step.
Shift ==
  3 * (Undelivered' - Undelivered) + (QueueLoad(m_queue') - QueueLoad(m_queue))
    + 2 * ((Expiries(StopTimer)' - Expiries(StopTimer))
             + (Expiries(RecoveryTimer)' - Expiries(RecoveryTimer)))
    + (sounds' - sounds)

LEMMA LoadShifts ==
  ASSUME SystemTypes, LoadInv,
         Len(given)' \in Nat, Undelivered' \in Nat, QueueLoad(m_queue') \in Nat,
         Expiries(StopTimer)' \in Nat, Expiries(RecoveryTimer)' \in Nat, sounds' \in Nat,
         Shift <= 3 * (Len(given)' - Len(given))
  PROVE  LoadInv'
<1> DEFINE u0 == Undelivered
           u1 == Undelivered'
           q0 == QueueLoad(m_queue)
           q1 == QueueLoad(m_queue')
           s0 == Expiries(StopTimer)
           s1 == Expiries(StopTimer)'
           r0 == Expiries(RecoveryTimer)
           r1 == Expiries(RecoveryTimer)'
           n0 == sounds
           n1 == sounds'
           g0 == Len(given)
           g1 == Len(given)'
<1>1. u0 \in Nat /\ q0 \in Nat /\ s0 \in Nat /\ r0 \in Nat /\ n0 \in Nat /\ g0 \in Nat
  BY LoadsAreNat
<1>2. u1 \in Nat /\ q1 \in Nat /\ s1 \in Nat /\ r1 \in Nat /\ n1 \in Nat /\ g1 \in Nat
  OBVIOUS
<1>3. 3 * u0 + q0 + 2 * (s0 + r0) + n0 <= 3 * g0
  BY DEF LoadInv, Load
<1>4. 3 * (u1 - u0) + (q1 - q0) + 2 * ((s1 - s0) + (r1 - r0)) + (n1 - n0) <= 3 * (g1 - g0)
  BY DEF Shift
<1> HIDE DEF u0, u1, q0, q1, s0, s1, r0, r1, n0, n1, g0, g1
<1>5. 3 * u1 + q1 + 2 * (s1 + r1) + n1 <= 3 * g1
  BY <1>1, <1>2, <1>3, <1>4
<1> QED
  BY <1>5 DEF LoadInv, Load, u1, q1, s1, r1, n1, g1

\* What a processor starts weighs less than the event that makes it do so.
LEMMA PerformedLoad ==
  ASSUME SystemTypes, NEW m \in Messages, m \notin UserRegions, Performs(RowFor(m).action)
  PROVE  \E e, n \in 0 .. 1 :
           /\ 2 * e + n <= Weight(m)
           /\ Expiries(StopTimer)' \in Nat /\ Expiries(RecoveryTimer)' \in Nat
           /\ Expiries(StopTimer)' + Expiries(RecoveryTimer)'
                <= Expiries(StopTimer) + Expiries(RecoveryTimer) + e
           /\ sounds' \in Nat /\ sounds' <= sounds + n
<1> DEFINE action == RowFor(m).action
<1>1. /\ action = "startStopTimer" => m = "ApplicationStopRequest"
      /\ action = "startRecoveryTimer" => m = "ApplicationRecovery"
      /\ action = "requestSound" => m = "ApplicationStopRequestTimeout"
  BY ActionsHaveEvents DEF RowFor
<1>2. Performs(action)
  OBVIOUS
<1> HIDE DEF action
<1>3. /\ status \in [UsedTimers -> {"idle", "running"}]
      /\ inflight[StopTimer] \in Nat /\ inflight[RecoveryTimer] \in Nat /\ sounds \in Nat
      /\ StopTimer \in UsedTimers /\ RecoveryTimer \in UsedTimers
      /\ StopTimer # RecoveryTimer
  BY LoadsAreNat DEF SystemTypes, FlowTypeOK, UsedTimers, StopTimer, RecoveryTimer
<1>4. Weight(m) \in 1 .. 3
  BY Weights
<1>5. CASE action = "startStopTimer"
  <2>1. /\ status' = [status EXCEPT ![StopTimer] = "running"] /\ inflight' = inflight
        /\ sounds' = sounds
    BY <1>2, <1>5 DEF Performs, Timer!Arm, audioService
  <2>2. Weight(m) = 3
    BY <1>1, <1>5, Weights
  <2>3. /\ Expiries(StopTimer)' \in Nat /\ Expiries(StopTimer)' <= Expiries(StopTimer) + 1
        /\ Expiries(RecoveryTimer)' = Expiries(RecoveryTimer)
        /\ Expiries(StopTimer) \in Nat /\ Expiries(RecoveryTimer) \in Nat
    BY <1>3, <2>1 DEF Expiries
  <2> WITNESS 1 \in 0 .. 1, 0 \in 0 .. 1
  <2> QED
    BY <1>3, <2>1, <2>2, <2>3
<1>6. CASE action = "startRecoveryTimer"
  <2>1. /\ status' = [status EXCEPT ![RecoveryTimer] = "running"] /\ inflight' = inflight
        /\ sounds' = sounds
    BY <1>2, <1>6 DEF Performs, Timer!Arm, audioService
  <2>2. Weight(m) = 3
    BY <1>1, <1>6, Weights
  <2>3. /\ Expiries(RecoveryTimer)' \in Nat
        /\ Expiries(RecoveryTimer)' <= Expiries(RecoveryTimer) + 1
        /\ Expiries(StopTimer)' = Expiries(StopTimer)
        /\ Expiries(StopTimer) \in Nat /\ Expiries(RecoveryTimer) \in Nat
    BY <1>3, <2>1 DEF Expiries
  <2> WITNESS 1 \in 0 .. 1, 0 \in 0 .. 1
  <2> QED
    BY <1>3, <2>1, <2>2, <2>3
<1>7. CASE action = "requestSound"
  <2>1. status' = status /\ inflight' = inflight
        /\ sounds' \in Nat /\ sounds' <= sounds + 1
    BY <1>2, <1>3, <1>7 DEF Performs, Audio!Request, timers
  <2>2. Weight(m) = 2
    <3>1. m = TimeoutEvent(StopTimer)
      BY <1>1, <1>7 DEF TimeoutEvent
    <3> QED
      BY <1>3, <3>1, Weights
  <2>3. /\ Expiries(RecoveryTimer)' = Expiries(RecoveryTimer)
        /\ Expiries(StopTimer)' = Expiries(StopTimer)
        /\ Expiries(StopTimer) \in Nat /\ Expiries(RecoveryTimer) \in Nat
    BY <1>3, <2>1 DEF Expiries
  <2> WITNESS 0 \in 0 .. 1, 1 \in 0 .. 1
  <2> QED
    BY <1>3, <2>1, <2>2, <2>3
<1>8. CASE action \notin {"startStopTimer", "startRecoveryTimer", "requestSound"}
  <2>1. /\ status' = [t \in UsedTimers |-> "idle"] \/ status' = status
        /\ inflight' = inflight /\ sounds' = sounds
    BY <1>2, <1>8 DEF Performs, timers, audioService
  <2>2. /\ Expiries(StopTimer)' \in Nat /\ Expiries(StopTimer)' <= Expiries(StopTimer)
        /\ Expiries(RecoveryTimer)' \in Nat
        /\ Expiries(RecoveryTimer)' <= Expiries(RecoveryTimer)
        /\ Expiries(StopTimer) \in Nat /\ Expiries(RecoveryTimer) \in Nat
    BY <1>3, <2>1 DEF Expiries
  <2> WITNESS 0 \in 0 .. 1, 0 \in 0 .. 1
  <2> QED
    BY <1>3, <1>4, <2>1, <2>2
<1> QED
  BY <1>5, <1>6, <1>7, <1>8

\* A command that is given is on its way.
LEMMA SlldAdds ==
  ASSUME SystemTypes, NEW c \in Commands, slldRuns(c)
  PROVE  /\ Len(given)' = Len(given) + 1 /\ Undelivered' = Undelivered + 1
         /\ UNCHANGED <<handled, m_queue, status, inflight, sounds,
                        hmi_delivered, power_delivered, region_delivered>>
         /\ IF c \in HmiCommands THEN hmi_sent' = Append(hmi_sent, c) ELSE hmi_sent' = hmi_sent
         /\ IF c \in PowerCommands THEN power_sent' = Append(power_sent, c)
            ELSE power_sent' = power_sent
         /\ IF c \in RegionCommands THEN region_sent' = Append(region_sent, c)
            ELSE region_sent' = region_sent
<1>1. /\ given' = Append(given, c) /\ HandleCommand(c)
      /\ UNCHANGED <<handled, m_queue, status, inflight, sounds>>
  BY DEF slldRuns, flowVars, timers, audioService
<1>2. Len(given)' = Len(given) + 1
  BY <1>1, WaysAreNat, AppendProperties
<1>3. CASE /\ c \in HmiCommands /\ HmiService!Send(c)
           /\ UNCHANGED <<powerChannel, regionChannel>>
  <2>1. /\ hmi_sent' = Append(hmi_sent, c) /\ hmi_delivered' = hmi_delivered
        /\ UNCHANGED <<power_sent, power_delivered, region_sent, region_delivered>>
    BY <1>3 DEF HmiService!Send, powerChannel, regionChannel
  <2>2. c \notin PowerCommands /\ c \notin RegionCommands
    BY <1>3, CommandsAreMessages
  <2>3. Len(hmi_sent') = Len(hmi_sent) + 1
    BY <1>3, <2>1, SentIsTyped DEF SystemTypes
  <2>4. Undelivered' = Undelivered + 1
    BY <2>1, <2>3, WaysAreNat DEF Undelivered
  <2> QED
    BY <1>1, <1>2, <1>3, <2>1, <2>2, <2>4
<1>4. CASE /\ c \in PowerCommands /\ PowerService!Send(c)
           /\ UNCHANGED <<hmiChannel, regionChannel>>
  <2>1. /\ power_sent' = Append(power_sent, c) /\ power_delivered' = power_delivered
        /\ UNCHANGED <<hmi_sent, hmi_delivered, region_sent, region_delivered>>
    BY <1>4 DEF PowerService!Send, hmiChannel, regionChannel
  <2>2. c \notin HmiCommands /\ c \notin RegionCommands
    BY <1>4, CommandsAreMessages
  <2>3. Len(power_sent') = Len(power_sent) + 1
    BY <1>4, <2>1, SentIsTyped DEF SystemTypes
  <2>4. Undelivered' = Undelivered + 1
    BY <2>1, <2>3, WaysAreNat DEF Undelivered
  <2> QED
    BY <1>1, <1>2, <1>4, <2>1, <2>2, <2>4
<1>5. CASE /\ c \in RegionCommands /\ RegionService!Send(c)
           /\ UNCHANGED <<hmiChannel, powerChannel>>
  <2>1. /\ region_sent' = Append(region_sent, c) /\ region_delivered' = region_delivered
        /\ UNCHANGED <<hmi_sent, hmi_delivered, power_sent, power_delivered>>
    BY <1>5 DEF RegionService!Send, hmiChannel, powerChannel
  <2>2. c \notin HmiCommands /\ c \notin PowerCommands
    BY <1>5, CommandsAreMessages
  <2>3. Len(region_sent') = Len(region_sent) + 1
    BY <1>5, <2>1, SentIsTyped DEF SystemTypes
  <2>4. Undelivered' = Undelivered + 1
    BY <2>1, <2>3, WaysAreNat DEF Undelivered
  <2> QED
    BY <1>1, <1>2, <1>5, <2>1, <2>2, <2>4
<1> QED
  BY <1>1, <1>3, <1>4, <1>5 DEF HandleCommand

LEMMA LoadStep ==
  SystemTypes /\ LoadInv /\ [SystemNext]_systemVars => LoadInv'
<1> SUFFICES ASSUME SystemTypes, LoadInv, [SystemNext]_systemVars
             PROVE  LoadInv'
  OBVIOUS
<1>0. /\ Undelivered \in Nat /\ QueueLoad(m_queue) \in Nat /\ Len(given) \in Nat
      /\ Expiries(StopTimer) \in Nat /\ Expiries(RecoveryTimer) \in Nat /\ sounds \in Nat
  BY LoadsAreNat
<1>1. ASSUME NEW c \in Commands, slldRuns(c)
      PROVE  LoadInv'
  <2>1. /\ Len(given)' = Len(given) + 1 /\ Undelivered' = Undelivered + 1
        /\ UNCHANGED <<m_queue, sounds>>
        /\ UNCHANGED <<Expiries(StopTimer), Expiries(RecoveryTimer)>>
    BY <1>1, SlldAdds DEF Expiries
  <2> QED
    BY <1>0, <2>1, LoadShifts DEF Shift
<1>2. CASE HmiListener
  <2>1. PICK m \in HmiCommands :
          /\ PostEvent(m)
          /\ Undelivered > 0 /\ Undelivered' = Undelivered - 1
          /\ UNCHANGED <<given, status, inflight, sounds>>
    BY <1>2, HmiTakes
  <2>2. QueueLoad(m_queue') \in Nat /\ QueueLoad(m_queue') <= QueueLoad(m_queue) + 3
    <3>1. m \in Messages /\ Weight(m) = 3
      BY CommandsAreMessages, Weights
    <3> QED
      BY <2>1, <3>1, PostEventLoad
  <2>3. UNCHANGED <<Expiries(StopTimer), Expiries(RecoveryTimer)>>
    BY <2>1 DEF Expiries
  <2> QED
    BY <1>0, <2>1, <2>2, <2>3, LoadShifts DEF Shift
<1>3. CASE PowerListener
  <2>1. PICK m \in PowerCommands :
          /\ PostEvent(m)
          /\ Undelivered > 0 /\ Undelivered' = Undelivered - 1
          /\ UNCHANGED <<given, status, inflight, sounds>>
    BY <1>3, PowerTakes
  <2>2. QueueLoad(m_queue') \in Nat /\ QueueLoad(m_queue') <= QueueLoad(m_queue) + 3
    <3>1. m \in Messages /\ Weight(m) = 3
      BY CommandsAreMessages, Weights
    <3> QED
      BY <2>1, <3>1, PostEventLoad
  <2>3. UNCHANGED <<Expiries(StopTimer), Expiries(RecoveryTimer)>>
    BY <2>1 DEF Expiries
  <2> QED
    BY <1>0, <2>1, <2>2, <2>3, LoadShifts DEF Shift
<1>4. CASE RegionListener
  <2>1. PICK m \in RegionCommands :
          /\ PostEvent(m)
          /\ Undelivered > 0 /\ Undelivered' = Undelivered - 1
          /\ UNCHANGED <<given, status, inflight, sounds>>
    BY <1>4, RegionTakes
  <2>2. QueueLoad(m_queue') \in Nat /\ QueueLoad(m_queue') <= QueueLoad(m_queue) + 3
    <3>1. m \in Messages /\ Weight(m) = 3
      BY CommandsAreMessages, Weights
    <3> QED
      BY <2>1, <3>1, PostEventLoad
  <2>3. UNCHANGED <<Expiries(StopTimer), Expiries(RecoveryTimer)>>
    BY <2>1 DEF Expiries
  <2> QED
    BY <1>0, <2>1, <2>2, <2>3, LoadShifts DEF Shift
<1>5. CASE AudioListener
  <2>1. /\ PostEvent("AudioPlayCompleted") /\ sounds > 0 /\ sounds' = sounds - 1
        /\ UNCHANGED <<given, status, inflight>>
    BY <1>5 DEF AudioListener, SoundCompletes, Audio!Report, userVars, timers
  <2>2. QueueLoad(m_queue') \in Nat /\ QueueLoad(m_queue') <= QueueLoad(m_queue) + 1
    <3>1. "AudioPlayCompleted" \in Messages /\ Weight("AudioPlayCompleted") = 1
      BY Weights DEF Messages
    <3> QED
      BY <2>1, <3>1, PostEventLoad
  <2>3. UNCHANGED <<Expiries(StopTimer), Expiries(RecoveryTimer)>>
    BY <2>1 DEF Expiries
  <2>4. Undelivered' = Undelivered
    BY <1>5 DEF AudioListener, hmiChannel, powerChannel, regionChannel, Undelivered
  <2> QED
    BY <1>0, <2>1, <2>2, <2>3, <2>4, LoadShifts DEF Shift
<1>6. CASE AudioEnds
  <2>1. /\ sounds' \in Nat /\ sounds' <= sounds
        /\ UNCHANGED <<given, status, inflight, m_queue>>
    BY <1>0, <1>6
    DEF AudioEnds, AudioServiceEnds, Audio!ServiceEnds, Audio!SoundIsLost, userVars, timers
  <2>2. UNCHANGED <<Expiries(StopTimer), Expiries(RecoveryTimer)>>
    BY <2>1 DEF Expiries
  <2>3. Undelivered' = Undelivered
    BY <1>6 DEF AudioEnds, hmiChannel, powerChannel, regionChannel, Undelivered
  <2> QED
    BY <1>0, <2>1, <2>2, <2>3, LoadShifts DEF Shift
<1>7. ASSUME NEW t \in UsedTimers, TimerStep(t)
      PROVE  LoadInv'
  <2>0. /\ status \in [UsedTimers -> {"idle", "running"}]
        /\ inflight \in [UsedTimers -> Nat]
        /\ UsedTimers = {StopTimer, RecoveryTimer} /\ StopTimer # RecoveryTimer
    BY FlowAssumption DEF SystemTypes, FlowTypeOK, UsedTimers, StopTimer, RecoveryTimer
  <2>1. given' = given /\ Undelivered' = Undelivered
    BY <1>7 DEF TimerStep, userVars, hmiChannel, powerChannel, regionChannel, Undelivered
  <2>2. CASE TimerExpires(t)
    <3>1. /\ status[t] = "running" /\ status' = [status EXCEPT ![t] = "idle"]
          /\ inflight' = [inflight EXCEPT ![t] = @ + 1]
          /\ UNCHANGED <<m_queue, sounds>>
      BY <2>2 DEF TimerExpires, Timer!Expire, audioService
    <3>2. UNCHANGED <<Expiries(StopTimer), Expiries(RecoveryTimer)>>
      BY <2>0, <3>1 DEF Expiries
    <3> QED
      BY <1>0, <2>1, <3>1, <3>2, LoadShifts DEF Shift
  <2>3. CASE WorkerPosts(t)
    <3>1. /\ inflight[t] > 0 /\ status' = status /\ sounds' = sounds
          /\ inflight' = [inflight EXCEPT ![t] = @ - 1]
          /\ PostEvent(TimeoutEvent(t))
      BY <2>3 DEF WorkerPosts, Timer!Deliver, audioService
    <3>2. QueueLoad(m_queue') \in Nat /\ QueueLoad(m_queue') <= QueueLoad(m_queue) + 2
      <4>1. TimeoutEvent(t) \in Messages /\ Weight(TimeoutEvent(t)) = 2
        BY Weights DEF Messages
      <4> QED
        BY <3>1, <4>1, PostEventLoad
    <3>3. \/ Expiries(StopTimer)' = Expiries(StopTimer) - 1
               /\ Expiries(RecoveryTimer)' = Expiries(RecoveryTimer)
               /\ Expiries(StopTimer) > 0
          \/ Expiries(RecoveryTimer)' = Expiries(RecoveryTimer) - 1
               /\ Expiries(StopTimer)' = Expiries(StopTimer)
               /\ Expiries(RecoveryTimer) > 0
      BY <2>0, <3>1 DEF Expiries
    <3>4. /\ Expiries(StopTimer)' \in Nat /\ Expiries(RecoveryTimer)' \in Nat
          /\ Expiries(StopTimer)' + Expiries(RecoveryTimer)'
               <= Expiries(StopTimer) + Expiries(RecoveryTimer) - 1
      BY <1>0, <3>3
    <3> QED
      BY <1>0, <2>1, <3>1, <3>2, <3>4, LoadShifts DEF Shift
  <2> QED
    BY <1>7, <2>2, <2>3 DEF TimerStep
<1>8. CASE AppThreadLoop
  <2>1. given' = given /\ Undelivered' = Undelivered
    BY <1>8 DEF AppThreadLoop, userVars, hmiChannel, powerChannel, regionChannel, Undelivered
  <2>2. PICK m \in Messages :
          /\ PopsFront(m)
          /\ \/ m \notin UserRegions /\ Performs(RowFor(m).action)
             \/ UNCHANGED <<status, inflight, sounds>>
    BY <1>8, FlowAssumption
    DEF AppThreadLoop, ProcessMessage, SetRegion, HandleMessage, RequestKills, timers,
        audioService, Messages
  <2>3. /\ QueueLoad(m_queue) = QueueLoad(m_queue') + Weight(m)
        /\ QueueLoad(m_queue') \in Nat /\ Weight(m) \in Nat
    BY <2>2, LoadsAreNat, PoppedLoad, Weights DEF PopsFront
  <2>4. PICK e, n \in 0 .. 1 :
          /\ 2 * e + n <= Weight(m)
          /\ Expiries(StopTimer)' \in Nat /\ Expiries(RecoveryTimer)' \in Nat
          /\ Expiries(StopTimer)' + Expiries(RecoveryTimer)'
               <= Expiries(StopTimer) + Expiries(RecoveryTimer) + e
          /\ sounds' \in Nat /\ sounds' <= sounds + n
    <3>1. CASE m \notin UserRegions /\ Performs(RowFor(m).action)
      BY <3>1, PerformedLoad
    <3>2. CASE UNCHANGED <<status, inflight, sounds>>
      <4>1. UNCHANGED <<Expiries(StopTimer), Expiries(RecoveryTimer)>>
        BY <3>2 DEF Expiries
      <4>2. 0 \in 0 .. 1 /\ 2 * 0 + 0 <= Weight(m)
        BY <2>3
      <4> QED
        BY <1>0, <3>2, <4>1, <4>2
    <3> QED
      BY <2>2, <3>1, <3>2
  <2> DEFINE u == Undelivered
             q0 == QueueLoad(m_queue)
             q1 == QueueLoad(m_queue')
             s0 == Expiries(StopTimer)
             s1 == Expiries(StopTimer)'
             r0 == Expiries(RecoveryTimer)
             r1 == Expiries(RecoveryTimer)'
             n0 == sounds
             n1 == sounds'
             g == Len(given)
             w == Weight(m)
  <2>5. /\ u \in Nat /\ q0 \in Nat /\ s0 \in Nat /\ r0 \in Nat /\ n0 \in Nat /\ g \in Nat
        /\ q1 \in Nat /\ s1 \in Nat /\ r1 \in Nat /\ n1 \in Nat /\ w \in Nat
        /\ q0 = q1 + w /\ 2 * e + n <= w /\ s1 + r1 <= s0 + r0 + e /\ n1 <= n0 + n
    BY <1>0, <2>3, <2>4
  <2>6. Shift = 3 * (u - u) + (q1 - q0) + 2 * ((s1 - s0) + (r1 - r0)) + (n1 - n0)
        /\ Len(given)' - Len(given) = g - g
    BY <2>1 DEF Shift
  <2> HIDE DEF u, q0, q1, s0, s1, r0, r1, n0, n1, g, w
  <2>7. Shift <= 3 * (Len(given)' - Len(given))
    BY <2>5, <2>6
  <2>8. Len(given)' \in Nat /\ Undelivered' \in Nat
    BY <1>0, <2>1
  <2> QED
    BY <2>3, <2>4, <2>8, <2>7, LoadShifts
<1>9. CASE UNCHANGED systemVars
  BY <1>9
  DEF systemVars, flowVars, timers, audioService, userVars, hmiChannel, powerChannel,
      regionChannel, LoadInv, Load, Undelivered, QueueLoad, Expiries
<1> QED
  BY <1>1, <1>2, <1>3, <1>4, <1>5, <1>6, <1>7, <1>8, <1>9 DEF SystemNext

\* The queue or what is known of it does not change the order of a service's commands.
LEMMA OrderKeptByOther ==
  ASSUME SystemTypes, OrderInv, NEW m \in Messages \ Commands, PostEvent(m),
         UNCHANGED <<handled, hmi_sent, hmi_delivered, power_sent, power_delivered,
                     region_sent, region_delivered>>
  PROVE  OrderInv'
<1>1. handled \in Seq(Commands) /\ m_queue \in Seq(Messages)
  BY WaysAreNat
<1>2. m \notin HmiCommands /\ m \notin PowerCommands /\ m \notin RegionCommands
  BY CommandsAreMessages
<1>3. CASE m_queue' = Append(m_queue, m)
  BY <1>1, <1>2, <1>3, OrderWhenPosted DEF OrderInv
<1>4. CASE m_queue' = m_queue
  BY <1>4 DEF OrderInv
<1> QED
  BY <1>3, <1>4 DEF PostEvent

LEMMA OrderKeptBySlld ==
  ASSUME SystemTypes, OrderInv, NEW c \in Commands, slldRuns(c)
  PROVE  OrderInv'
<1>1. /\ handled \in Seq(Commands) /\ m_queue \in Seq(Messages)
      /\ hmi_sent \in Seq(HmiCommands) /\ power_sent \in Seq(PowerCommands)
      /\ region_sent \in Seq(RegionCommands)
  BY WaysAreNat DEF SystemTypes, ChannelTyped
<1>2. /\ UNCHANGED <<handled, m_queue, hmi_delivered, power_delivered, region_delivered>>
      /\ IF c \in HmiCommands THEN hmi_sent' = Append(hmi_sent, c) ELSE hmi_sent' = hmi_sent
      /\ IF c \in PowerCommands THEN power_sent' = Append(power_sent, c)
         ELSE power_sent' = power_sent
      /\ IF c \in RegionCommands THEN region_sent' = Append(region_sent, c)
         ELSE region_sent' = region_sent
  BY SlldAdds
<1>3. InOrder(handled, m_queue, HmiCommands, hmi_sent', hmi_delivered)
  BY <1>1, <1>2, OrderWhenSent DEF OrderInv
<1>4. InOrder(handled, m_queue, PowerCommands, power_sent', power_delivered)
  BY <1>1, <1>2, OrderWhenSent DEF OrderInv
<1>5. InOrder(handled, m_queue, RegionCommands, region_sent', region_delivered)
  BY <1>1, <1>2, OrderWhenSent DEF OrderInv
<1> QED
  BY <1>2, <1>3, <1>4, <1>5 DEF OrderInv

LEMMA OrderKeptByHmi ==
  ASSUME Room, SystemTypes, LoadInv, OrderInv, HmiListener
  PROVE  OrderInv'
<1>1. /\ handled \in Seq(Commands) /\ m_queue \in Seq(Messages)
      /\ Len(hmi_sent) \in Nat /\ hmi_delivered \in Seq(HmiCommands)
  BY WaysAreNat DEF SystemTypes, ChannelTyped
<1>2. PICK m \in HmiCommands :
        /\ Len(hmi_delivered) < Len(hmi_sent) /\ m = hmi_sent[Len(hmi_delivered) + 1]
        /\ hmi_delivered' = Append(hmi_delivered, m) /\ hmi_sent' = hmi_sent
        /\ PostEvent(m) /\ Undelivered > 0
        /\ UNCHANGED <<handled, power_sent, power_delivered, region_sent, region_delivered>>
  BY HmiTakes
<1>3. m_queue' = Append(m_queue, m)
  BY <1>2, RoomForMore DEF PostEvent
<1>4. m \notin PowerCommands /\ m \notin RegionCommands /\ m \in Messages
  BY CommandsAreMessages
<1>5. InOrder(handled, Append(m_queue, m), HmiCommands, hmi_sent, Append(hmi_delivered, m))
  BY <1>1, <1>2, <1>4, OrderWhenPosted DEF OrderInv
<1>6. /\ InOrder(handled, Append(m_queue, m), PowerCommands, power_sent, power_delivered)
      /\ InOrder(handled, Append(m_queue, m), RegionCommands, region_sent, region_delivered)
  BY <1>1, <1>4, OrderWhenPosted DEF OrderInv
<1> QED
  BY <1>2, <1>3, <1>5, <1>6 DEF OrderInv

LEMMA OrderKeptByPower ==
  ASSUME Room, SystemTypes, LoadInv, OrderInv, PowerListener
  PROVE  OrderInv'
<1>1. /\ handled \in Seq(Commands) /\ m_queue \in Seq(Messages)
      /\ Len(power_sent) \in Nat /\ power_delivered \in Seq(PowerCommands)
  BY WaysAreNat DEF SystemTypes, ChannelTyped
<1>2. PICK m \in PowerCommands :
        /\ Len(power_delivered) < Len(power_sent) /\ m = power_sent[Len(power_delivered) + 1]
        /\ power_delivered' = Append(power_delivered, m) /\ power_sent' = power_sent
        /\ PostEvent(m) /\ Undelivered > 0
        /\ UNCHANGED <<handled, hmi_sent, hmi_delivered, region_sent, region_delivered>>
  BY PowerTakes
<1>3. m_queue' = Append(m_queue, m)
  BY <1>2, RoomForMore DEF PostEvent
<1>4. m \notin HmiCommands /\ m \notin RegionCommands /\ m \in Messages
  BY CommandsAreMessages
<1>5. InOrder(handled, Append(m_queue, m), PowerCommands, power_sent, Append(power_delivered, m))
  BY <1>1, <1>2, <1>4, OrderWhenPosted DEF OrderInv
<1>6. /\ InOrder(handled, Append(m_queue, m), HmiCommands, hmi_sent, hmi_delivered)
      /\ InOrder(handled, Append(m_queue, m), RegionCommands, region_sent, region_delivered)
  BY <1>1, <1>4, OrderWhenPosted DEF OrderInv
<1> QED
  BY <1>2, <1>3, <1>5, <1>6 DEF OrderInv

LEMMA OrderKeptByRegion ==
  ASSUME Room, SystemTypes, LoadInv, OrderInv, RegionListener
  PROVE  OrderInv'
<1>1. /\ handled \in Seq(Commands) /\ m_queue \in Seq(Messages)
      /\ Len(region_sent) \in Nat /\ region_delivered \in Seq(RegionCommands)
  BY WaysAreNat DEF SystemTypes, ChannelTyped
<1>2. PICK m \in RegionCommands :
        /\ Len(region_delivered) < Len(region_sent) /\ m = region_sent[Len(region_delivered) + 1]
        /\ region_delivered' = Append(region_delivered, m) /\ region_sent' = region_sent
        /\ PostEvent(m) /\ Undelivered > 0
        /\ UNCHANGED <<handled, hmi_sent, hmi_delivered, power_sent, power_delivered>>
  BY RegionTakes
<1>3. m_queue' = Append(m_queue, m)
  BY <1>2, RoomForMore DEF PostEvent
<1>4. m \notin HmiCommands /\ m \notin PowerCommands /\ m \in Messages
  BY CommandsAreMessages
<1>5. InOrder(handled, Append(m_queue, m), RegionCommands, region_sent, Append(region_delivered, m))
  BY <1>1, <1>2, <1>4, OrderWhenPosted DEF OrderInv
<1>6. /\ InOrder(handled, Append(m_queue, m), HmiCommands, hmi_sent, hmi_delivered)
      /\ InOrder(handled, Append(m_queue, m), PowerCommands, power_sent, power_delivered)
  BY <1>1, <1>4, OrderWhenPosted DEF OrderInv
<1> QED
  BY <1>2, <1>3, <1>5, <1>6 DEF OrderInv

LEMMA OrderKeptByApp ==
  ASSUME SystemTypes, OrderInv, AppThreadLoop
  PROVE  OrderInv'
<1>1. handled \in Seq(Commands) /\ m_queue \in Seq(Messages)
  BY WaysAreNat
<1>2. UNCHANGED <<hmi_sent, hmi_delivered, power_sent, power_delivered,
                  region_sent, region_delivered>>
  BY DEF AppThreadLoop, hmiChannel, powerChannel, regionChannel
<1>3. /\ m_queue # <<>> /\ m_queue' = Tail(m_queue)
      /\ handled' = IF Head(m_queue) \in Commands THEN Append(handled, Head(m_queue))
                    ELSE handled
  BY DEF AppThreadLoop, PopsFront
<1>4. /\ HmiCommands \subseteq Commands /\ PowerCommands \subseteq Commands
      /\ RegionCommands \subseteq Commands
  BY CommandsAreMessages
<1>5. /\ InOrder(handled', Tail(m_queue), HmiCommands, hmi_sent, hmi_delivered)
      /\ InOrder(handled', Tail(m_queue), PowerCommands, power_sent, power_delivered)
      /\ InOrder(handled', Tail(m_queue), RegionCommands, region_sent, region_delivered)
  BY <1>1, <1>3, <1>4, OrderWhenPopped DEF OrderInv
<1> QED
  BY <1>2, <1>3, <1>5 DEF OrderInv

LEMMA OrderStep ==
  Room /\ SystemTypes /\ LoadInv /\ OrderInv /\ [SystemNext]_systemVars => OrderInv'
<1> SUFFICES ASSUME Room, SystemTypes, LoadInv, OrderInv, [SystemNext]_systemVars
             PROVE  OrderInv'
  OBVIOUS
<1>1. CASE AudioListener
  <2>1. "AudioPlayCompleted" \in Messages \ Commands
    BY CommandsAreMessages DEF Messages
  <2> QED
    BY <1>1, <2>1, OrderKeptByOther
    DEF AudioListener, SoundCompletes, hmiChannel, powerChannel, regionChannel
<1>2. ASSUME NEW t \in UsedTimers, WorkerPosts(t), TimerStep(t)
      PROVE  OrderInv'
  <2>1. TimeoutEvent(t) \in Messages \ Commands
    BY CommandsAreMessages DEF Messages
  <2> QED
    BY <1>2, <2>1, OrderKeptByOther
    DEF TimerStep, WorkerPosts, hmiChannel, powerChannel, regionChannel
<1>3. CASE UNCHANGED <<m_queue, handled, hmiChannel, powerChannel, regionChannel>>
  BY <1>3 DEF OrderInv, hmiChannel, powerChannel, regionChannel
<1>4. ASSUME NEW t \in UsedTimers, TimerExpires(t), TimerStep(t)
      PROVE  OrderInv'
  BY <1>3, <1>4 DEF TimerStep, TimerExpires
<1>5. CASE AudioEnds
  BY <1>3, <1>5 DEF AudioEnds, AudioServiceEnds
<1>6. CASE UNCHANGED systemVars
  BY <1>3, <1>6 DEF systemVars, flowVars
<1> QED
  BY <1>1, <1>2, <1>4, <1>5, <1>6, OrderKeptBySlld, OrderKeptByHmi, OrderKeptByPower,
     OrderKeptByRegion, OrderKeptByApp
  DEF SystemNext, TimerStep

LEMMA OrderInit == SystemInit => LoadInv /\ OrderInv
<1> SUFFICES ASSUME SystemInit
             PROVE  LoadInv /\ OrderInv
  OBVIOUS
<1>1. /\ given = <<>> /\ handled = <<>> /\ m_queue = <<>>
      /\ hmi_sent = <<>> /\ hmi_delivered = <<>>
      /\ power_sent = <<>> /\ power_delivered = <<>>
      /\ region_sent = <<>> /\ region_delivered = <<>>
      /\ sounds = 0
      /\ status = [t \in UsedTimers |-> "idle"] /\ inflight = [t \in UsedTimers |-> 0]
  BY DEF SystemInit, FlowInit, HmiService!ChannelInit, PowerService!ChannelInit,
         RegionService!ChannelInit, Timer!ContractInit, Audio!SoundInit
<1>2. Len(<<>>) = 0
  BY EmptySeq
<1>3. \A S : Count(<<>>, S) = 0
  BY OfNone
<1>4. \A S, t : Continues(<<>>, S, t, 0)
  BY OfNone
<1>5. Expiries(StopTimer) = 0 /\ Expiries(RecoveryTimer) = 0
  BY <1>1 DEF Expiries, UsedTimers
<1>6. Undelivered = 0 /\ QueueLoad(m_queue) = 0
  BY <1>1, <1>2, <1>3 DEF Undelivered, QueueLoad
<1>7. LoadInv
  BY <1>1, <1>2, <1>5, <1>6 DEF LoadInv, Load
<1>8. OrderInv
  BY <1>1, <1>2, <1>3, <1>4 DEF OrderInv, InOrder, Follows
<1> QED
  BY <1>7, <1>8

\* The commands to one service are handled in the order in which its clients gave
\* them, none twice and none left out, whatever else is on its way: for any number of
\* commands for whose effects the queue has room.
THEOREM OrderIsKept ==
  ASSUME Room
  PROVE  SystemSafetySpec => []ServiceOrderKept
<1> DEFINE Inv == SystemTypeInv /\ LoadInv /\ OrderInv
<1>1. SystemInit => Inv
  BY SystemTypeInit, OrderInit
<1>2. Inv /\ [SystemNext]_systemVars => Inv'
  BY SystemTypeStep, LoadStep, OrderStep DEF SystemTypeInv
<1>3. Inv => ServiceOrderKept
  BY DEF OrderInv, InOrder, ServiceOrderKept
<1> HIDE DEF Inv
<1> QED
  BY <1>1, <1>2, <1>3, PTL DEF SystemSafetySpec

\* The queue drops nothing that a processor waits for (the stop timeout, the completed
\* sound): it has room for whatever the commands bring about.
THEOREM NothingIsDropped ==
  ASSUME Room
  PROVE  SystemSafetySpec => [](dropped = {})
<1> DEFINE Inv == SystemTypeInv /\ LoadInv /\ dropped = {}
<1>1. SystemInit => Inv
  BY SystemTypeInit, OrderInit DEF SystemInit, FlowInit
<1>2. Inv /\ [SystemNext]_systemVars => Inv'
  <2> SUFFICES ASSUME SystemTypeInv, LoadInv, dropped = {}, [SystemNext]_systemVars
               PROVE  dropped' = {}
    BY SystemTypeStep, LoadStep DEF SystemTypeInv
  <2>0. SystemTypes
    BY DEF SystemTypeInv
  <2>1. ASSUME NEW m, PostEvent(m), Len(m_queue) < Capacity
        PROVE  dropped' = dropped
    BY <2>1 DEF PostEvent
  <2>2. CASE HmiListener
    BY <2>0, <2>1, <2>2, HmiTakes, RoomForMore
  <2>3. CASE PowerListener
    BY <2>0, <2>1, <2>3, PowerTakes, RoomForMore
  <2>4. CASE RegionListener
    BY <2>0, <2>1, <2>4, RegionTakes, RoomForMore
  <2>5. CASE AudioListener
    BY <2>0, <2>1, <2>5, RoomForMore DEF AudioListener, SoundCompletes, Audio!Report
  <2>6. ASSUME NEW t \in UsedTimers, TimerStep(t)
        PROVE  dropped' = dropped
    <3>1. CASE TimerExpires(t)
      BY <3>1 DEF TimerExpires
    <3>2. CASE WorkerPosts(t)
      BY <2>0, <2>1, <3>2, RoomForMore DEF WorkerPosts, Timer!Deliver
    <3> QED
      BY <2>6, <3>1, <3>2 DEF TimerStep
  <2>7. CASE AppThreadLoop
    BY <2>7 DEF AppThreadLoop, ProcessMessage, SetRegion, HandleMessage, RequestKills
  <2>8. CASE AudioEnds
    BY <2>8 DEF AudioEnds, AudioServiceEnds
  <2>9. ASSUME NEW c \in Commands, slldRuns(c)
        PROVE  dropped' = dropped
    BY <2>9 DEF slldRuns, flowVars
  <2>10. CASE UNCHANGED systemVars
    BY <2>10 DEF systemVars, flowVars
  <2> QED
    BY <2>2, <2>3, <2>4, <2>5, <2>6, <2>7, <2>8, <2>9, <2>10 DEF SystemNext
<1> HIDE DEF Inv
<1>3. Inv => dropped = {}
  BY DEF Inv
<1> QED
  BY <1>1, <1>2, <1>3, PTL DEF SystemSafetySpec

\* A processor in Stopping has its timeout armed, on its way or queued; one that waits
\* for the sound has it asked for or its completion queued, unless AudioService is not
\* there.  A full queue is no excuse, as it is in StoppingIsWatched and WaitingIsWatched.
NoneForgotten == \A r \in Regions :
  /\ Waits(r, "Stopping") =>
       \/ status[StopTimer] = "running" \/ inflight[StopTimer] > 0
       \/ Queued(TimeoutEvent(StopTimer))
  /\ Waits(r, "WaitingAudioComplete") =>
       sounds > 0 \/ Queued("AudioPlayCompleted") \/ audio # "up"

\* The composed demo forgets no processor that waits, with one region and room in the
\* queue for what the commands bring about.
THEOREM NoProcessorIsForgotten ==
  ASSUME Room, OneRegion
  PROVE  SystemSafetySpec => []NoneForgotten
<1>1. StoppingIsWatched /\ WaitingIsWatched /\ dropped = {} => NoneForgotten
  BY DEF StoppingIsWatched, WaitingIsWatched, NoneForgotten
<1> QED
  BY <1>1, SystemIsFlow, StopIsWatched, SoundIsWatched, NothingIsDropped, PTL
===============================================================================
