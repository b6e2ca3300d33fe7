# A TLA+ model of the architecture demo

The repository is a small automotive-style demo: an application process that reacts to events with
per-region state machines, four service processes that feed it over local sockets, and a command
line client, `slld`, that gives commands to the services. This directory models its event queue,
timers, state machines, lifecycle, service processes and client in TLA+, each by itself and the
whole demo on top of what the parts promise. TLC checks the models on small instances, and TLAPS
proves the safety properties, and the refinements, for every instance.

## The system

```
 slld --line--> Hmi/Power/Region/AudioService --line--> wrapper (listener thread)
                                                            | PostEvent
                    timer workers (detached) --PostEvent--> MessageQueue
                              ^                             | WaitAndPop
                              | StartTimer, CancelAll       v
                         TimerManager <------- ProcessorManager / Processor (application thread)
                                                            | RequestPlayStopCompletedSound
                                                            v
                                                   AudioWrapper --line--> AudioService
```

| Component | State | Operations | Meets the others through |
|---|---|---|---|
| `MessageQueue<T>` (`Application/utils`) | `m_queue`, `m_stopped`, one mutex, one condition variable | `Push`, `WaitAndPop`, `Stop` | called by listeners and timer workers (push), the application thread (pop), the main thread (stop) |
| `TimerManager` | a context per timer (generation, active, paused, remaining, deadline), `stopped`, detached workers | `StartTimer`, `PauseTimer`, `ResumeTimer`, `CancelTimer`, `CancelAll`, `Stop`, the worker | called by the processors and the main thread; calls `PostEvent` back |
| `StateMachine`, the region processors | the current state, the table | `HandleEvent` | actions start and cancel timers, ask for the sound |
| `ProcessorManager` | the current region | `SetRegion`, `HandleMessage` | application thread only |
| `Application`, `main` | `m_running`, `m_stop_requested`, the application thread, `g_stop_requested` | `Initialize`, `Start`, `AppThreadLoop`, `RequestStop`, `Wait`, the destructor | owns all of the above; the wrappers are singletons |
| wrappers | socket, `m_running`, listener thread | `Connect`, `StartListening`, `ListenLoop`, `Stop`, `RequestPlayStopCompletedSound` | the service process, `PostEvent` |
| `HmiService`, `PowerService`, `RegionService` | sockets, line buffer, `g_running` | accept, poll, read, forward | `slld` clients, the wrapper |
| `AudioService` | the same, `app_buffer`, `g_app_write_mutex`, a detached thread per sound | the same, plus the application's requests and the completions | the same, plus `AudioWrapper`'s requests |
| `slld` | none | connect, write, close | a service |

What is hard about it, and what makes each part correct:

- **Queue.** Signals are sent after the unlock; pushes race with the stop and the drain; a full
  queue drops without telling. Correct when nothing accepted is lost or overtaken, no wake-up is
  missed, and `false` means drained.
- **Timers.** Restart and cancel leave old workers alive, the stop flag is an atomic outside the
  mutex that the sleepers use, the deadline changes under a `wait_until`. Correct when an armed
  timer always has its worker, no sleeper misses a change, no expiry is early, one arming expires
  once at most.
- **Event flow.** A processor that waits (for the timeout, for the sound) depends on one event.
  Correct when that event is always under way, and belongs to the wait it ends.
- **Lifecycle.** Threads blocked in `read`, in the queue or in a handler when the signal comes;
  descriptors shared without a lock; detached workers. Correct when the process ends, by itself,
  with nothing left behind.
- **Services.** Lines cut anywhere by the stream; one client at a time; a blocking `accept`.
  Correct when commands arrive whole, once, in order, and no client starves.
- **AudioService.** One `poll` serves two descriptors, and its answer for the second is used after
  the first was handled; several threads write to one socket; `main` ends while sounds play.
  Correct when lines stay whole, every sound asked for is reported once, and nothing blocks on an
  old answer.
- **The whole demo.** Commands to different services travel independently, and `slld` waits for no
  answer. Correct when each service keeps its order, every command is handled, and nothing but a
  command that overtakes another can spoil the demo.

`PROJECT.json` lists each hazard with its line and the properties that would catch it.

## The modules

| Module | Models | Used by |
|---|---|---|
| `MessageQueue` | the queue, one step per critical section and one per later signal | `MessageQueueProofs` |
| `TimerContract` | abstract: a timer is idle, running or held; expiries are in flight until posted | `TimerManager` (refinement), `ArchDemo`, `Application` (as the timers they use) |
| `TimerManager` | contexts, callers, workers, clock | `TimerManagerProofs` |
| `StateMachine` | a table and the search `HandleEvent` makes in it | `Processors` |
| `Processors` | the two tables, the timers and timeout events they use | `ArchDemo`, `Application` |
| `SoundContract` | abstract: sounds asked for are reported once each, or lost when the service ends | `AudioService` (refinement), `ArchDemo` (as the service it uses) |
| `ArchDemo` | the running application: listeners, queue, dispatch, timers, sound | `System` |
| `Application` | the process: connecting, threads, signal, stop, destruction | `ApplicationProofs` |
| `CommandChannel` | abstract: commands come out once, whole, in the order of the connections | `Service` (refinement), `System` (as the services it uses) |
| `Service` | a service, its clients and its wrapper over two byte streams | `AudioService` |
| `AudioService` | the same with requests and the threads of the sounds | `AudioServiceProofs` |
| `System` | a user with `slld`, three services, three listeners, and `ArchDemo` | `SystemProofs` |
| `Selections` | no part of the code: how often, and in which order, the elements of a set occur in a sequence | `AudioService`, `System` (in their properties) |

`MessageQueueProofs`, `TimerManagerProofs`, `ProcessorsProofs`, `ApplicationProofs`,
`ServiceProofs`, `AudioServiceProofs` and `SelectionsProofs` each hold the theorems about the module
they are named after; `SystemProofs` holds those about `System` and, before them, those about the
`ArchDemo` that it contains.

How state and actions correspond to the code:

- `MessageQueue` keeps the names `m_queue`, `m_stopped`. `PushStores`/`PushReturns` are the lock
  scope of `Push`, `PushNotifies` its `notify_one`; `StopSets`, `StopNotifies` likewise;
  `WaitSleeps`, `WaitReturnsFalse`, `WaitPops` are what `WaitAndPop` does each time it holds the
  mutex. `LoopTests` is the test of `m_running` that `AppThreadLoop` makes before each call
  (`application.cpp:168`), and `RequestStopClears` the line of `RequestStop` that clears it, before
  it calls `Stop`; so the loop may end with messages still queued (`"left"`), or drain the queue and
  be told `false` (`"ended"`). `accepted` and `delivered` are history.
- `TimerManager` has one variable per field of `TimerContext`, with `left` for `deadline - now`.
  `call[th]` is the program counter and the locals of a caller; the suffixes `Lookup`, `Update`,
  `Notify`, `Worker` are the parts of an operation that other threads can come between. A worker
  is a record of its timer, its captured generation and its place. `Tick` is the clock; pausing
  rounds `left` down to whole milliseconds. The `Lookup` of a context that exists is a step of
  its own, too, as it takes another mutex. `generation` is not bounded by its 64 bits.
- `ArchDemo` takes `ProcessMessage` as one step, because it runs on one thread and what it does
  to the timers cannot be told apart by the others. `status`, `inflight`, `closed` are those of
  `TimerContract`, `audio` and `sounds` those of `SoundContract`. `audio` is `"absent"` when the
  wrapper found no service, and then the request is lost without a word; it is `"gone"` when the
  service ended later, and then the request is a write to a dead connection, and `process` becomes
  `"killed"`. A `RegionChanged` message is the region it names. `dropped` is history: it remembers
  that the bounded queue dropped an awaited event.
- `Application` gives each thread a place (`main`, `app_thread`, `listener[s]`), and each
  descriptor its state. Here the audio request is two steps, the test of `m_socket_fd` and the
  `write`, since the main thread may shut the socket down or close it in between.
- `Service` follows `main` of `hmi_service.cpp` loop by loop. The texts of commands are two
  characters that name the client, so that a wrong cut or join is seen.
- `AudioService` extends `Service`: what `audio_service.cpp` does as the others do, is done by
  their actions. `revents` is what the last `poll` wrote into its two `pollfd`s; `PollReturns`
  sets it, and `RequestsDone` goes to `accept` by it, after the application's requests were read
  and handled. `sound[i]` is the detached thread of the i-th request. Each line that is written to
  the application goes out in two steps between which any other thread may run
  (`MainForwards`/`MainForwarded`, `SoundWrites`/`SoundWritten`), and only `g_app_write_mutex`
  keeps them apart. `service = "closed"` is `main` after it closed the descriptor and before it
  returns: a thread that writes then reports nothing.
- `System` gives each of the three services that only forward a `CommandChannel`, and ends it at
  the listener of its wrapper, which posts to the queue of `ArchDemo`. `slldRuns` is one run of
  the client. `given` is what the user typed, `handled` what the application thread took from the
  queue; `paced` says that each command was given after those before it had been handled.

Modules declare their parameters as `CONSTANTS` with a named assumption. Operators whose names end
in `Fault` are wrong versions of the definition that follows them. No specification uses them:
put in place of the definition, each makes one property fail, which shows that the property
depends on the code.

### How the parts fit together

Three abstract specifications stand between the modules. Each is implemented by the detailed module
of the component (checked by TLC in the runs below, and proved), and used in its place by those that
compose it:

```
TimerManager  --implements-->  TimerContract   --used by-->  ArchDemo, Application
Service       --implements-->  CommandChannel  --used by-->  System
AudioService  --implements-->  SoundContract   --used by-->  ArchDemo (and System through it)
```

The mappings are in the modules that implement: `Contract` of `TimerManager` (a context's flags
become idle, running or held; a worker between its decision and its post is an expiry in flight),
`Channel` of `Service` (sent is the accepted clients followed by those in the backlog, delivered is
`posted`), `Sound` of `AudioService` (a request counts as unreported from the application's write
until the wrapper has taken the completion). `MessageQueue` has no such module: what the others use
of it, a bounded FIFO that drops when it is full and ends with `false` when it is stopped and empty,
is `FifoDelivery` and `DrainedBeforeFalse`.

## What TLC checks

| Run (`.cfg`) | Shows | Bounds |
|---|---|---|
| `MCMessageQueue` | `FifoDelivery`, `NoLostWakeup`, `DrainedBeforeFalse`, `AcceptedIsDelivered`, `StopEndsConsumer` | 2 producers, 2 messages, capacity 2, 4 accepted |
| `MCTimerManager` | `ActiveHasWorker`, `NoMissedNotify`, `NeverEarly`, `ImplementsContract`, `ArmedSettles`, `WorkersEnd` | 2 threads, 2 timers, 3 ticks (one and a half milliseconds), 3 calls |
| `MCArchDemo` | `StoppingIsWatched`, `WaitingIsWatched`, `StopEnds`, `SoundEnds` | one region, all events of the tables, capacity 2, 2 sounds, AudioService absent, present or ending |
| `MCApplication` | `ListenerHasSocket`, `NothingLeftBehind`, `AtMostOneLateMessage`, `SignalEndsProcess` | 3 wrappers, 3 lines, capacity 1, AudioService may exit |
| `MCService` | `CommandsInOrder`, `ImplementsChannel`, `CommandArrives`, `SignalEndsService` | 3 clients |
| `MCAudioService` | `PollStaysTrue`, `LinesAreWhole`, `ImplementsSoundContract`, `SoundIsReported`, `EndsWithApplication` | 1 client, 2 requests |
| `MCSystem` | `ServiceOrderKept`, `CommandsAreHandled`, `DemoSettles` | 4 commands of three services, two regions, capacity 12, AudioService absent, present or ending |

Each run also checks the module's type invariant.

Five runs are expected to find a violation; each is a disagreement of code and documentation:

| Run | Property | What happens |
|---|---|---|
| `MCArchDemoStale` | `StopCompletesAfterTimer` | A worker commits to the expiry; IG_OFF cancels, IG_ON, START, STOP follow; the late timeout now ends the new stop while its five seconds still run. |
| `MCArchDemoSound` | `SoundEndsItsOwnStop` | A stop asks for its sound; IG_OFF ends the wait but not the sound; after IG_ON, START and STOP the new stop waits for its own sound, and the completion of the old one ends that wait. |
| `MCArchDemoRegions` | `StoppingIsWatched` | RegionThree stops; the region changes; IG_OFF in the other region cancels the shared stop timer; RegionThree is left in `Stopping`. |
| `MCApplicationSigpipe` | `GracefulShutdown` | The application thread is past the test of the audio descriptor when the main thread shuts the socket down; the write raises SIGPIPE and kills the process. |
| `MCApplicationDangling` | `NoPostAfterDestruction` | A worker that committed before the stop posts through the lambda of an `Application` that was destroyed. |

**Why the bounds are enough.** A queue of two places can be empty, partly full and full while both
producers are between storing and signalling. Three timer operations hold start, pause and resume,
or two starts and a cancel, against each other on two threads, with more than one generation of
workers alive, and Stop against a start that has passed the test of `stopped`; three ticks at two
per millisecond make a pause lose time and also leave a zero remainder. The flow needs capacity two
for an event to wait behind another and be dropped; two sounds are that of a stop that was cut short
and that of the next. Three lines are one more than the application thread and the queue of one
place can take up, so a listener can be anywhere when the signal comes; the two runs that look for a
violation of the lifecycle have all four wrappers. Three clients are one that is served while two
wait, so the order of the backlog matters. Two requests are two sounds that end in either order
while `main` forwards a command between them. Four commands are the demo and one more. A queue of
twelve, three places for each, never drops a message (`NothingIsDropped` below), so that the run is
not about a full queue, which `MCArchDemo` covers; the escape of `CommandsAreHandled`, the request
that kills the application because AudioService has ended, is within reach there. The bounds
`MaxAccepted`, `MaxCalls`, `MaxLines`, `MaxInflight`, `MaxSounds`, `MaxRequests` and `MaxCommands`
stop counters that the code does not bound.

**Deadlock.** At those bounds a behaviour may simply stop, as it does when a process has ended or was
killed, or when the user gives no more commands; `CHECK_DEADLOCK FALSE` says so in the runs of
`TimerManager`, `Application`, `Service`, `AudioService`, `System` and in `MCArchDemo`, where a
write to an AudioService that ended kills the process. That nobody waits for ever is what the
liveness properties of those runs say. The run of `MessageQueue` checks deadlock.

**Fairness.** Threads that are inside an operation, and the workers, loops and listeners, are
scheduled (weak fairness, each thread by itself): the code runs them as operating-system threads
and none of them spins on another. Time passes, and sounds end. Not assumed: that anyone pushes,
calls, sends, stops or signals; that a peer answers; that an application connects or a service stays
alive. In `Service` and `AudioService`, a client that has connected goes on to write and close,
because `slld` does nothing in between. In `Application`, a listener is not assumed to read
anything: only the end of the connection gets it out of `read`. `g_app_write_mutex` is not assumed
to be fair among its waiters; weak fairness is enough, as there are finitely many writes ahead.

**What the properties leave open.** `StopEnds`, `SoundEnds` and the two `...IsWatched` invariants
name the escapes that the code has: an awaited event dropped by a full queue, and for the sound an
AudioService that is not there. `SignalEndsService` excludes a service that no application ever
connects to: `std::signal` restarts `accept`, so such a service does not end on SIGTERM.
`SoundIsReported` ends its promise with the service or the application. `AcceptedIsDelivered` ends
when `m_running` is cleared: the application thread then handles one more message at most
(`AtMostOneLateMessage`), and what is queued behind it is discarded.

`ServiceOrderKept` says nothing of two services: IG_ON and START given one right after the other may
be handled in the other order, and the commands of the scenario (`README.md:259`, `265` of the
repository) are given so. `DemoSettles` says what comes of that, for a user who does not wait: START
is ignored in `Idle`, STOP in `IgnitionOn`, and the processor is left there, not in the `Idle` that
the scenario expects. It also says that this is the only way in which the demo can fail while
AudioService stays, and that a user who waits for each effect (`paced`) always finds `Idle` in the
end. `CommandsAreHandled` and `DemoSettles` have no escape for a full queue; with a capacity of two,
instead of twelve, both fail.

## What is proved

Each theorem holds for every value of the constants that the module's named assumptions allow, and
for behaviours of any length; further assumptions are named below.

| Module | Theorem | Statement |
|---|---|---|
| `MessageQueueProofs` | `QueueTypeCorrect` | `[]QueueTypeOK`, with `Len(m_queue) <= Capacity` |
| | `QueueIsFifo`, `QueueLosesNoWakeup`, `QueueDrains` | `[]FifoDelivery`, `[]NoLostWakeup`, `[]DrainedBeforeFalse` |
| `TimerManagerProofs` | `TimerTypeCorrect`, `ActiveIsWatched`, `NotifyIsNotMissed` | `[]TimerTypeOK`, `[]ActiveHasWorker`, `[]NoMissedNotify` |
| | `ExpiresInTime` | `NeverEarly`, a property of steps |
| | `ContractImplemented` | `ImplementsContract`, the refinement of `TimerContract` |
| `ProcessorsProofs` | `ProcessorsKeepStates` | `HandleEvent` keeps a machine in the states of its table |
| `SystemProofs` | `FlowTypeCorrect` | `[]FlowTypeOK` |
| | `StopIsWatched`, `SoundIsWatched` | `[]StoppingIsWatched`, `[]WaitingIsWatched`, with one region |
| | `SystemTypeCorrect` | `[]SystemTypeOK` |
| | `SystemIsFlow` | a behaviour of `System` is one of `ArchDemo` |
| | `NothingIsDropped`, `OrderIsKept` | the queue drops nothing, `[]ServiceOrderKept`, with `Room` in the queue |
| | `NoProcessorIsForgotten` | `[]NoneForgotten`: with `Room` and one region, what a processor waits for is under way |
| `ApplicationProofs` | `AppTypeCorrect`, `ListenersHaveSockets` | `[]AppTypeOK`, `[]ListenerHasSocket` |
| | `NothingIsLeftBehind`, `OneLateMessage` | `[]NothingLeftBehind`, `[]AtMostOneLateMessage` |
| `ServiceProofs` | `ServiceTypeCorrect`, `CommandsComeInOrder` | `[]ServiceTypeOK`, `[]CommandsInOrder` |
| | `ChannelImplemented` | `ImplementsChannel`, the refinement of `CommandChannel` |
| `AudioServiceProofs` | `PollIsTrue`, `AudioTypeCorrect`, `LinesStayWhole` | `[]PollStaysTrue`, `[]AudioTypeOK`, `[]LinesAreWhole` |
| | `SoundContractKept` | `ImplementsSoundContract`, the refinement of `SoundContract` |

**The queue.** `QueueInv`, the conjunction of `QueueTypeOK`, `FifoDelivery`, `NoLostWakeup` and
`EndedIsDrained`, is inductive (`QueueInvariance`). `DrainedBeforeFalse` is not inductive by itself:
that a later push cannot enter needs `m_stopped`, and that everything accepted was delivered needs
`FifoDelivery` with an empty queue, which is what `EndedIsDrained` remembers. Each part has a
lemma with one step per action. `FifoDelivery` rests on two facts about sequences, `AppendToRest`
and `MoveHead`: storing at the end, or taking the head, does not change the delivered messages
followed by the stored ones.

**The timers.** The properties are not inductive; `TimerInv` (`TimerInvariance`) adds

- `CallsKnowTimers`: an operation that has released the timer's mutex and is going to signal, or to
  launch the worker, is about one timer, which is in the map;
- `OneWorkerPerGeneration`: no two workers, and no worker and a launch to come, share a timer and a
  generation, and no generation is ahead of its timer's. Without it a worker that returns could be
  the one that `ActiveHasWorker` counts on, an expiry could deactivate a timer under a sleeper of
  the same generation that nobody signals, and two workers could post for one arming;
- `TimeKept`: while a timer runs, what it ran plus what is left of its deadline is the duration, and
  while it is paused what it ran plus `remaining` is, but for less than a millisecond per pause. It
  also says that the deadline is never later than `remaining` tells, so that the two conditions for
  an expiry come to one.

`NoMissedNotify` needs `timer_map` to hold the timer of every worker, because `CancelAll` signals the
timers in the map only. For the refinement, `Status` and `Inflight` are the mapping of `Contract`;
`CommitIsExpiry` and `DepartureIsPost` say that nothing but an expiry and a post changes what is in
flight, and `FinitePosting` that it can be counted.

**The flow.** `StopIsWatched` and `SoundIsWatched` assume `OneRegion`: `UserRegions` names no region
but the one that is current at the start. Without it they are false, as `MCArchDemoRegions` shows.
`FlowInv` is `FlowTypeOK`, the two properties, and `OnlyThree`: the current region stays, and the
processors of the others stay in `Idle`, so that the processor that gets a message, and cancels the
timers, is the one that waits. The proof goes along the rows of the tables; `StopSequenceRows` of
`ProcessorsProofs` states what `HandleEvent` finds there.

**The lifecycle.** `AppInv` (`AppInvariance`) is about any of the four wrappers in use, any capacity
and any number of lines. It joins the place of the main thread to what it has done: `Phases` for the
timers, the queue and the application thread, `WrappersDone` for the wrappers that the loop of
`StopInternal` has gone past, `JoinedFirst` for the one it is at, whose listener has ended before its
descriptor is closed. `ListenerHasSocket` is inductive only with `JoinedFirst`. `LateIsLast` says
that the application thread, once it has handled a message late, tests `m_running` before anything
else, and that nothing sets it again.

**The services.** `ServiceInv` (`ServiceInvariance`) is about any set of clients. From
`ClientsAssumption` no client is one of the two names that the model uses, so that the text of a
command has no newline. `Carried` says where the bytes are: there is a number of lines forwarded such
that those after the posted ones, in the order of `accepted`, are exactly what the application's
stream and buffer hold (`OnTheWay`), and that the line of the client being served is, whole, in its
stream and the service's buffer, or was the last forwarded (`ServedLine`). `NothingCut` says that a
client is left before its line was forwarded only by a service that is stopping; `BacklogWaits` that
the streams of the clients not yet accepted are whole. A line has three bytes, so `LinesOf` states
what a stream holds position by position, and no induction over the stream is needed: a read moves
bytes from the front of one sequence to the end of another, which leaves their concatenation alone
(`Joined`, `JoinedTwice`), and taking a line out of the buffer removes the first three.

**AudioService.** `PollInv` adds to `PollStaysTrue` that what was ready stays ready from the `poll` on,
through the steps for the requests (`ResultHolds`): only `main` reads the requests and accepts
clients, and an application that has gone does not come back.

The rest follows from `AudioInv` (`AudioInvariance`), for any set of clients and any number of
requests. `AudioAssumption`, with `ClientsAssumption`, keeps the characters of the model's texts
apart, so that no command looks like a request or a completion. Its parts are

- `ControlInv`: whoever writes has the mutex, and has it only while it writes;
- `RequestInv`: the bytes of the requests that `main` has not handled are whole lines (`Encodes`), and
  the threads that it has started are the first ones, as many as were handled. So a request that
  is handled always finds a thread not yet started;
- `ClientInv`: the clients in the backlog are different and their lines whole;
- `WrittenInv`: there is a sequence of texts that what is on its way to the application encodes, the
  last without its newline exactly while somebody has the mutex; these texts, after those posted,
  have the commands of the accepted clients in their order (`Follows`); and the number of commands
  in them is the number that `main` has forwarded, which tells where the line of the client that it
  serves is (`Serves`).

The mutex is what makes `WrittenInv` inductive: `TextWritten` needs the lines before to be complete. All
lines have three bytes, so `Encodes` speaks of positions, like `LinesOf`. For `SoundContractKept` each
step changes the three places of a request, on its way, playing and on its way back, by one less here
and one more there; newlines are counted on the way to the service, and the word of the completion
on the way back, since there its newline may be still to come.

**Selections.** `ServiceOrderKept`, `LinesAreWhole` and the counts of `SoundContract` are about the
elements of a set that a sequence holds. The library's `SelectSeq` is recursive, and nothing could be
proved of it; `Selections` counts the positions instead (`CountTo`). `SelectionsProofs` has what the
proofs need of it: what is counted in, and follows, `a \o b`, an appended element, a tail.

**The whole demo.** `SystemTypeInv` says that the commands given are, service by service, those sent on
its channel. `SystemIsFlow` carries the theorems about `ArchDemo` over: what a listener of `System` posts
is something that a listener of `ArchDemo` may post.

`OrderIsKept` needs room in the queue. A command that the full queue drops leaves a gap, and the
next one of the same service is then handled in its place. `Room` is `3 * MaxCommands <= Capacity`.
Why this is enough is `LoadInv`: a command can start one stop timer, its timeout can ask for one
sound, and the sound is reported once; so count three for a command on its way, two for a timer that
runs or a timeout on its way, and one for a sound or its completion. This `Load` goes up by three
when a command is given, and by nothing else (`LoadStep`). The queue never holds more than that, and
a message enters it from a place that counted for it. With nothing dropped, `OrderInv` says of each
service that its commands handled, then those in the queue, then those still in its channel, are
those given. `NoProcessorIsForgotten` puts the pieces together: `StopIsWatched` and
`SoundIsWatched`, carried over by `SystemIsFlow`, without the escape for a dropped event, which
`NothingIsDropped` closes. The code has 2048 places in the queue (`application.cpp:23`), so `Room`
is about a user who has given up to 682 commands; that more can be given and none be dropped, as
long as the application keeps up, the model cannot say without assuming its speed.

**Only model-checked.** All liveness, which is out of the prover's reach, and the properties of the
violation runs. `AudioInv` and `ServiceInv` say that there is some sequence that the bytes encode,
which TLC cannot enumerate; their consequences are what the runs check.

## What is not modelled

- Payload tokens other than the region, event names and log output: no property is about them.
- Events that no table has a row for (beeps, sleep and wake): the machine ignores them.
- `PostInternalEvent` and the `Shutdown` event: nothing calls the one or posts the other.
- Failures of `socket`, `bind`, `listen` and of thread creation, which end a process at once, and
  partial writes of a line.
- A second application that connects to a service: the code accepts one, and never another.
- Wrong arguments of `slld`, which end it before it does anything; with these, the scripts that
  start, stop and show the processes. That `run.sh` starts the application a fixed time after the
  services shows here as a service that may be absent.

## Plan

1. *Done:* queue, timers, state machines, flow, lifecycle, services, `AudioService`, the composed
   system; the contracts of the timers, the sounds and the command channels with their refinements;
   a proof of every safety property that a passing run checks, and of the three refinements.
2. Left to prove: that `FifoDelivery` is the queue that the others use, which needs a contract of the
   queue with `MessageQueue` as its refinement; `DemoSettles` without its liveness, as an invariant
   of a demo that has settled.
3. Left to model: `System` with IG_OFF, once a property asks about it; a stop of the whole demo, as
   `stop.sh` orders it, out of `Application` and the services.
