------------------------------- MODULE ArchDemo -------------------------------
(***************************************************************************)
(* The event flow of the running application: the listener threads and the *)
(* timer workers push into the bounded queue, the application thread pops  *)
(* one message at a time and gives it to the processor of the region that  *)
(* is current then.  All processors share the TimerManager, known here by  *)
(* its contract, and the AudioService, known by its contract as well, which*)
(* plays the stop-completed sound and reports its end as an event.         *)
(*                                                                         *)
(* ProcessMessage is one step: what it does is local to the application    *)
(* thread, or changes the timers in an order that cannot be told apart.    *)
(***************************************************************************)
EXTENDS Naturals, Processors

CONSTANTS
  UserEvents,    \* events the services forward on a user's command
  UserRegions,   \* regions that a RegionChanged command may name
  AudioMayEnd,   \* whether AudioService may end while the application runs
  Capacity,      \* m_queue_size
  MaxInflight,   \* bounds the model: timeouts of one timer not yet posted
  MaxSounds      \* bounds the model: sounds requested and not yet reported

ASSUME FlowAssumption ==
  /\ UserRegions \subseteq Regions
  /\ AudioMayEnd \in BOOLEAN
  /\ {Capacity, MaxInflight, MaxSounds} \subseteq Nat \ {0}

VARIABLES
  process,            \* "running", or "killed" by SIGPIPE
  m_queue,
  m_current_region,
  m_current_state,    \* per region, the state of its processor's machine
  status, inflight, closed,   \* the timers, see TimerContract
  audio, sounds,      \* AudioService, see SoundContract
  dropped             \* history: the awaited events that a full queue dropped

timers == <<status, inflight, closed>>
audioService == <<audio, sounds>>
flowVars == <<process, m_queue, m_current_region, m_current_state, timers, audioService,
              dropped>>

Timer == INSTANCE TimerContract WITH Timers <- UsedTimers

Audio == INSTANCE SoundContract WITH reported <- 0

\* A RegionChanged message is the region that its payload names.
Messages ==
  UserEvents \union UserRegions \union {TimeoutEvent(t) : t \in UsedTimers}
    \union {"AudioPlayCompleted"}

\* Without AudioService, Initialize continues with the services there are.
FlowInit ==
  /\ process = "running"
  /\ m_queue = <<>>
  /\ m_current_region = "RegionThree"
  /\ m_current_state = [r \in Regions |-> "Idle"]
  /\ Timer!ContractInit
  /\ Audio!SoundInit
  /\ dropped = {}

\* The events without which a processor stays where it is.
Awaited == {TimeoutEvent(StopTimer), "AudioPlayCompleted"}

Running == process = "running" /\ UNCHANGED process

-------------------------------------------------------------------------------
\* Fault: the test for a full queue is off by one.
PostEventFault(m) ==
  IF Len(m_queue) <= Capacity
  THEN m_queue' = Append(m_queue, m) /\ UNCHANGED dropped
  ELSE dropped' = dropped \union ({m} \intersect Awaited) /\ UNCHANGED m_queue

\* EventHandler::PostEvent: what does not fit is dropped without a word.
PostEvent(m) ==
  IF Len(m_queue) < Capacity
  THEN m_queue' = Append(m_queue, m) /\ UNCHANGED dropped
  ELSE dropped' = dropped \union ({m} \intersect Awaited) /\ UNCHANGED m_queue

ListenerPosts(m) ==
  /\ Running
  /\ PostEvent(m)
  /\ UNCHANGED <<m_current_region, m_current_state, timers, audioService>>

TimerExpires(t) ==
  /\ Running
  /\ inflight[t] < MaxInflight
  /\ Timer!Expire(t)
  /\ UNCHANGED <<m_queue, m_current_region, m_current_state, audioService, dropped>>

\* Fault: the stop timer is configured with the event of the recovery timer.
WorkerPostsFault(t) ==
  /\ Running
  /\ Timer!Deliver(t)
  /\ PostEvent(TimeoutEvent(RecoveryTimer))
  /\ UNCHANGED <<m_current_region, m_current_state, audioService>>

WorkerPosts(t) ==
  /\ Running
  /\ Timer!Deliver(t)
  /\ PostEvent(TimeoutEvent(t))
  /\ UNCHANGED <<m_current_region, m_current_state, audioService>>

\* Fault: AudioWrapper does not know AUDIO_PLAY_COMPLETED and drops the line.
SoundCompletesFault ==
  /\ Running
  /\ Audio!Report
  /\ UNCHANGED <<m_queue, m_current_region, m_current_state, timers, dropped>>

\* AudioService forwards the completion, and the audio listener posts it.
SoundCompletes ==
  /\ Running
  /\ Audio!Report
  /\ PostEvent("AudioPlayCompleted")
  /\ UNCHANGED <<m_current_region, m_current_state, timers>>

AudioServiceEnds ==
  /\ Running
  /\ AudioMayEnd
  /\ Audio!ServiceEnds \/ Audio!SoundIsLost
  /\ UNCHANGED <<m_queue, m_current_region, m_current_state, timers, dropped>>

-------------------------------------------------------------------------------
\* The actions of the tables.  The result of the audio request is ignored.
Performs(action) ==
  /\ CASE action = "startStopTimer" -> Timer!Arm(StopTimer)
       [] action = "startRecoveryTimer" -> Timer!Arm(RecoveryTimer)
       [] action = "cancelAllTimers" ->
            /\ status' = [t \in UsedTimers |-> "idle"]
            /\ UNCHANGED <<inflight, closed>>
       [] OTHER -> UNCHANGED timers
  /\ IF action = "requestSound" THEN Audio!Request ELSE UNCHANGED audioService

\* Fault: the message is taken from the wrong end of the queue.
PopsFrontFault(m) ==
  /\ m_queue # <<>>
  /\ m_queue[Len(m_queue)] = m
  /\ m_queue' = SubSeq(m_queue, 1, Len(m_queue) - 1)

PopsFront(m) ==
  /\ m_queue # <<>>
  /\ Head(m_queue) = m
  /\ m_queue' = Tail(m_queue)

SetRegion ==
  /\ Running
  /\ \E r \in UserRegions : PopsFront(r) /\ m_current_region' = r
  /\ UNCHANGED <<m_current_state, timers, audioService, dropped>>

RowFor(m) ==
  HandleEvent(TableOf(m_current_region), m_current_state[m_current_region], m)

\* ProcessorManager::HandleMessage, by the processor of the current region.
HandleMessage ==
  /\ Running
  /\ \E m \in Messages \ UserRegions :
       /\ PopsFront(m)
       /\ RowFor(m).action = "requestSound" => sounds < MaxSounds
       /\ Performs(RowFor(m).action)
       /\ m_current_state' = [m_current_state EXCEPT ![m_current_region] = RowFor(m).next]
  /\ UNCHANGED <<m_current_region, dropped>>

\* The request is written to a service that has ended: SIGPIPE.
RequestKills ==
  /\ process = "running"
  /\ audio = "gone"
  /\ \E m \in Messages \ UserRegions :
       PopsFront(m) /\ RowFor(m).action = "requestSound"
  /\ process' = "killed"
  /\ UNCHANGED <<m_current_region, m_current_state, timers, audioService, dropped>>

ProcessMessage == SetRegion \/ HandleMessage \/ RequestKills

FlowNext ==
  \/ \E m \in UserEvents \union UserRegions : ListenerPosts(m)
  \/ \E t \in UsedTimers : TimerExpires(t) \/ WorkerPosts(t)
  \/ SoundCompletes \/ AudioServiceEnds
  \/ ProcessMessage

FlowFairness ==
  /\ \A t \in UsedTimers : WF_flowVars(TimerExpires(t)) /\ WF_flowVars(WorkerPosts(t))
  /\ WF_flowVars(SoundCompletes)
  /\ WF_flowVars(ProcessMessage)

FlowSafetySpec == FlowInit /\ [][FlowNext]_flowVars

FlowSpec == FlowSafetySpec /\ FlowFairness

-------------------------------------------------------------------------------
FlowTypeOK ==
  /\ process \in {"running", "killed"}
  /\ m_queue \in Seq(Messages)
  /\ Len(m_queue) <= Capacity
  /\ m_current_region \in Regions
  /\ m_current_state \in [Regions -> States]
  /\ status \in [UsedTimers -> {"idle", "running"}]
  /\ inflight \in [UsedTimers -> 0 .. MaxInflight]
  /\ closed = FALSE
  /\ audio \in {"absent", "up", "gone"}
  /\ sounds \in 0 .. MaxSounds
  /\ dropped \subseteq Awaited

Waits(r, state) == process = "running" /\ m_current_state[r] = state

Queued(m) == \E i \in DOMAIN m_queue : m_queue[i] = m

\* A processor in Stopping is not forgotten: its stop timer runs, or the timeout
\* is being posted or queued, or a full queue dropped a timeout.
StoppingIsWatched == \A r \in Regions : Waits(r, "Stopping") =>
  \/ status[StopTimer] = "running" \/ inflight[StopTimer] > 0
  \/ Queued(TimeoutEvent(StopTimer))
  \/ TimeoutEvent(StopTimer) \in dropped

\* The same for the sound that WaitingAudioComplete waits for, which nobody
\* plays when AudioService is not there, or no longer.
WaitingIsWatched == \A r \in Regions : Waits(r, "WaitingAudioComplete") =>
  \/ sounds > 0 \/ Queued("AudioPlayCompleted")
  \/ "AudioPlayCompleted" \in dropped
  \/ audio # "up"

\* The regions whose processor can get a message.
UsedRegions == UserRegions \union {"RegionThree"}

\* A stop always ends, unless a full queue dropped its timeout, or the request
\* for the sound killed the process.
StopEnds == \A r \in UsedRegions :
  Waits(r, "Stopping") ~> ~Waits(r, "Stopping") \/ TimeoutEvent(StopTimer) \in dropped

\* So does the wait for the sound, as long as AudioService is there.
SoundEnds == \A r \in UsedRegions :
  Waits(r, "WaitingAudioComplete") ~>
    \/ ~Waits(r, "WaitingAudioComplete")
    \/ audio # "up" \/ "AudioPlayCompleted" \in dropped

\* The stop-completed sound is requested only once the stop timer that
\* OnStopRequest started has expired.
StopCompletesAfterTimer ==
  [][\A r \in Regions :
       m_current_state[r] = "Stopping" /\ m_current_state'[r] = "WaitingAudioComplete"
         => status[StopTimer] # "running"]_flowVars

\* A completion ends the wait only when no sound is left to be played: the sound
\* that this stop asked for is over.
SoundEndsItsOwnStop ==
  [][\A r \in Regions :
       m_current_state[r] = "WaitingAudioComplete" /\ m_current_state'[r] = "Idle"
         => sounds = 0 \/ Head(m_queue) # "AudioPlayCompleted"]_flowVars
===============================================================================
