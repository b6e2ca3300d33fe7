----------------------------- MODULE TimerManager -----------------------------
(***************************************************************************)
(* TimerManager of Application/app.  Each StartTimer launches a detached    *)
(* worker thread; a restart or a cancel does not stop the workers that are  *)
(* there already, it only changes the generation they compare with theirs.  *)
(*                                                                          *)
(* A critical section under TimerContext::mutex is one step.  What happens  *)
(* outside it (the test of the atomic stopped, the look-up under the state  *)
(* mutex, a notify after the unlock, the launch of the worker, the post of  *)
(* the event) is a step of its own.                                         *)
(***************************************************************************)
EXTENDS Naturals, FiniteSets

CONSTANTS
  Threads,      \* callers: the application thread and the main thread
  Timers,       \* TimerId
  Duration,     \* TimerConfig::duration, in clock ticks
  TicksPerMs,   \* clock ticks in the millisecond that PauseTimer rounds down to
  MaxCalls      \* bounds the model: operations called over a behaviour

ASSUME TimerAssumption ==
  /\ Duration \in Nat \ {0}
  /\ TicksPerMs \in Nat \ {0}
  /\ MaxCalls \in Nat

VARIABLES
  timer_map,   \* the timers whose context was created
  generation,  \* TimerContext, per timer
  active,
  paused,
  remaining,
  left,        \* deadline - now, never below 0
  stopped,
  call,        \* per thread: where it is in an operation, and its local variables
  workers,     \* worker threads that have not returned
  elapsed,     \* history, per timer: ticks it ran since it was started, up to Duration
  pauses,      \* history, per timer: pauses since it was started
  calls        \* operations called so far

contextVars == <<generation, active, paused, remaining, left, elapsed, pauses>>
timerVars == <<timer_map, contextVars, stopped, call, workers, calls>>

Idle == [at |-> "idle", current |-> {}, todo |-> {}, generation |-> 0]

At(place, ts) == [Idle EXCEPT !.at = place, !.current = ts]

CallPlaces ==
  {"idle", "startUpdate", "startLookup", "startNotify", "startWorker",
   "pauseUpdate", "resumeUpdate", "cancelUpdate", "cancelNotify",
   "stopCancelAll", "cancelAll", "cancelAllNotify"}

Call == [at : CallPlaces, current : SUBSET Timers, todo : SUBSET Timers, generation : Nat]

\* "running"    takes the timer's mutex to test what to do
\* "sleepPaused", "sleepDeadline"   in cv.wait and in cv.wait_until
\* "posting"    committed to the expiry, mutex released, event not posted yet
Worker == [timer : Timers, generation : Nat,
           at : {"running", "sleepPaused", "sleepDeadline", "posting"}]

Init ==
  /\ timer_map = {}
  /\ generation = [t \in Timers |-> 0]
  /\ active = [t \in Timers |-> FALSE]
  /\ paused = [t \in Timers |-> FALSE]
  /\ remaining = [t \in Timers |-> 0]
  /\ left = [t \in Timers |-> 0]
  /\ stopped = FALSE
  /\ call = [th \in Threads |-> Idle]
  /\ workers = {}
  /\ elapsed = [t \in Timers |-> 0]
  /\ pauses = [t \in Timers |-> 0]
  /\ calls = 0

-------------------------------------------------------------------------------
\* cv.notify_all: every worker of the timer that sleeps tests again.
Woken(ws, t) ==
  {IF w.timer = t /\ w.at \in {"sleepPaused", "sleepDeadline"}
   THEN [w EXCEPT !.at = "running"] ELSE w : w \in ws}

\* CancelAll holds the state mutex over its whole loop.
StateMutexFree == \A th \in Threads : call[th].at \notin {"cancelAll", "cancelAllNotify"}

Goto(th, c) == call' = [call EXCEPT ![th] = c]

Enters(th) ==
  /\ call[th] = Idle
  /\ calls < MaxCalls
  /\ calls' = calls + 1

StartTimer(th, t) ==
  /\ Enters(th)
  /\ ~stopped
  /\ Goto(th, At("startLookup", {t}))
  /\ UNCHANGED <<timer_map, contextVars, stopped, workers>>

\* StartTimer and a second Stop do nothing on a stopped manager.
CallIgnored(th) ==
  /\ call[th] = Idle
  /\ stopped
  /\ UNCHANGED timerVars

\* GetOrCreateTimerContext.
Lookup(th, t) ==
  /\ StateMutexFree
  /\ timer_map' = timer_map \union {t}

StartLookup(th) == \E t \in call[th].current :
  /\ call[th].at = "startLookup"
  /\ Lookup(th, t)
  /\ Goto(th, At("startUpdate", {t}))
  /\ UNCHANGED <<contextVars, stopped, workers, calls>>

\* Fault: the worker is given the generation before the increment.
StartUpdateFault(th) == \E t \in call[th].current :
  /\ call[th].at = "startUpdate"
  /\ generation' = [generation EXCEPT ![t] = @ + 1]
  /\ active' = [active EXCEPT ![t] = TRUE]
  /\ paused' = [paused EXCEPT ![t] = FALSE]
  /\ remaining' = [remaining EXCEPT ![t] = Duration]
  /\ left' = [left EXCEPT ![t] = Duration]
  /\ elapsed' = [elapsed EXCEPT ![t] = 0]
  /\ pauses' = [pauses EXCEPT ![t] = 0]
  /\ Goto(th, [At("startNotify", {t}) EXCEPT !.generation = generation[t]])
  /\ UNCHANGED <<timer_map, stopped, workers, calls>>

StartUpdate(th) == \E t \in call[th].current :
  /\ call[th].at = "startUpdate"
  /\ generation' = [generation EXCEPT ![t] = @ + 1]
  /\ active' = [active EXCEPT ![t] = TRUE]
  /\ paused' = [paused EXCEPT ![t] = FALSE]
  /\ remaining' = [remaining EXCEPT ![t] = Duration]
  /\ left' = [left EXCEPT ![t] = Duration]
  /\ elapsed' = [elapsed EXCEPT ![t] = 0]
  /\ pauses' = [pauses EXCEPT ![t] = 0]
  /\ Goto(th, [At("startNotify", {t}) EXCEPT !.generation = generation[t] + 1])
  /\ UNCHANGED <<timer_map, stopped, workers, calls>>

StartNotify(th) == \E t \in call[th].current :
  /\ call[th].at = "startNotify"
  /\ workers' = Woken(workers, t)
  /\ Goto(th, [call[th] EXCEPT !.at = "startWorker"])
  /\ UNCHANGED <<timer_map, contextVars, stopped, calls>>

StartWorker(th) == \E t \in call[th].current :
  /\ call[th].at = "startWorker"
  /\ workers' = workers \union
       {[timer |-> t, generation |-> call[th].generation, at |-> "running"]}
  /\ Goto(th, Idle)
  /\ UNCHANGED <<timer_map, contextVars, stopped, calls>>

-------------------------------------------------------------------------------
\* The other operations on one timer start with the look-up.
Begin(th, t, place) ==
  /\ Enters(th)
  /\ Lookup(th, t)
  /\ Goto(th, At(place, {t}))
  /\ UNCHANGED <<contextVars, stopped, workers>>

PauseTimer(th, t) == Begin(th, t, "pauseUpdate")
ResumeTimer(th, t) == Begin(th, t, "resumeUpdate")
CancelTimer(th, t) == Begin(th, t, "cancelUpdate")

\* Fault: no branch for a deadline that is past, by a millisecond, when now is read.
PauseUpdateFault(th) == \E t \in call[th].current :
  /\ call[th].at = "pauseUpdate"
  /\ active[t] /\ ~paused[t]
  /\ remaining' = [remaining EXCEPT ![t] = ((left[t] - TicksPerMs) \div TicksPerMs) * TicksPerMs]
  /\ paused' = [paused EXCEPT ![t] = TRUE]
  /\ pauses' = [pauses EXCEPT ![t] = @ + 1]
  /\ workers' = Woken(workers, t)
  /\ Goto(th, Idle)
  /\ UNCHANGED <<timer_map, generation, active, left, stopped, elapsed, calls>>

\* The time left is rounded down to milliseconds; the notify is under the mutex.
PauseUpdate(th) == \E t \in call[th].current :
  /\ call[th].at = "pauseUpdate"
  /\ active[t] /\ ~paused[t]
  /\ remaining' = [remaining EXCEPT ![t] = (left[t] \div TicksPerMs) * TicksPerMs]
  /\ paused' = [paused EXCEPT ![t] = TRUE]
  /\ pauses' = [pauses EXCEPT ![t] = @ + 1]
  /\ workers' = Woken(workers, t)
  /\ Goto(th, Idle)
  /\ UNCHANGED <<timer_map, generation, active, left, stopped, elapsed, calls>>

\* Fault: ResumeTimer keeps the deadline of StartTimer.
ResumeUpdateFault(th) == \E t \in call[th].current :
  /\ call[th].at = "resumeUpdate"
  /\ active[t] /\ paused[t]
  /\ paused' = [paused EXCEPT ![t] = FALSE]
  /\ workers' = Woken(workers, t)
  /\ Goto(th, Idle)
  /\ UNCHANGED <<timer_map, generation, active, remaining, left, stopped, elapsed, pauses, calls>>

\* Fault: ResumeTimer forgets notify_all.
ResumeSilentFault(th) == \E t \in call[th].current :
  /\ call[th].at = "resumeUpdate"
  /\ active[t] /\ paused[t]
  /\ paused' = [paused EXCEPT ![t] = FALSE]
  /\ left' = [left EXCEPT ![t] = remaining[t]]
  /\ Goto(th, Idle)
  /\ UNCHANGED <<timer_map, generation, active, remaining, workers, stopped, elapsed, pauses, calls>>

ResumeUpdate(th) == \E t \in call[th].current :
  /\ call[th].at = "resumeUpdate"
  /\ active[t] /\ paused[t]
  /\ paused' = [paused EXCEPT ![t] = FALSE]
  /\ left' = [left EXCEPT ![t] = remaining[t]]
  /\ workers' = Woken(workers, t)
  /\ Goto(th, Idle)
  /\ UNCHANGED <<timer_map, generation, active, remaining, stopped, elapsed, pauses, calls>>

\* PauseTimer and ResumeTimer return early on a timer in the wrong state.
UpdateIgnored(th) == \E t \in call[th].current :
  /\ \/ call[th].at = "pauseUpdate" /\ (~active[t] \/ paused[t])
     \/ call[th].at = "resumeUpdate" /\ (~active[t] \/ ~paused[t])
  /\ Goto(th, Idle)
  /\ UNCHANGED <<timer_map, contextVars, stopped, workers, calls>>

Reset(t) ==
  /\ generation' = [generation EXCEPT ![t] = @ + 1]
  /\ active' = [active EXCEPT ![t] = FALSE]
  /\ paused' = [paused EXCEPT ![t] = FALSE]
  /\ remaining' = [remaining EXCEPT ![t] = 0]
  /\ UNCHANGED <<left, elapsed, pauses>>

CancelUpdate(th) == \E t \in call[th].current :
  /\ call[th].at = "cancelUpdate"
  /\ Reset(t)
  /\ Goto(th, At("cancelNotify", {t}))
  /\ UNCHANGED <<timer_map, stopped, workers, calls>>

\* Fault: CancelTimer forgets notify_all.
CancelNotifyFault(th) == \E t \in call[th].current :
  /\ call[th].at = "cancelNotify"
  /\ Goto(th, Idle)
  /\ UNCHANGED <<timer_map, contextVars, stopped, workers, calls>>

CancelNotify(th) == \E t \in call[th].current :
  /\ call[th].at = "cancelNotify"
  /\ workers' = Woken(workers, t)
  /\ Goto(th, Idle)
  /\ UNCHANGED <<timer_map, contextVars, stopped, calls>>

-------------------------------------------------------------------------------
\* CancelAll resets the contexts that exist, one critical section each.
CancelAll(th) ==
  /\ Enters(th)
  /\ StateMutexFree
  /\ Goto(th, [Idle EXCEPT !.at = "cancelAll", !.todo = timer_map])
  /\ UNCHANGED <<timer_map, contextVars, stopped, workers>>

CancelAllResets(th) == \E t \in call[th].todo :
  /\ call[th].at = "cancelAll"
  /\ Reset(t)
  /\ Goto(th, [call[th] EXCEPT !.at = "cancelAllNotify", !.current = {t}, !.todo = @ \ {t}])
  /\ UNCHANGED <<timer_map, stopped, workers, calls>>

\* Fault: CancelAll forgets notify_all.
CancelAllNotifiesFault(th) == \E t \in call[th].current :
  /\ call[th].at = "cancelAllNotify"
  /\ Goto(th, [call[th] EXCEPT !.at = "cancelAll", !.current = {}])
  /\ UNCHANGED <<timer_map, contextVars, stopped, workers, calls>>

CancelAllNotifies(th) == \E t \in call[th].current :
  /\ call[th].at = "cancelAllNotify"
  /\ workers' = Woken(workers, t)
  /\ Goto(th, [call[th] EXCEPT !.at = "cancelAll", !.current = {}])
  /\ UNCHANGED <<timer_map, contextVars, stopped, calls>>

CancelAllEnds(th) ==
  /\ call[th].at = "cancelAll"
  /\ call[th].todo = {}
  /\ Goto(th, Idle)
  /\ UNCHANGED <<timer_map, contextVars, stopped, workers, calls>>

\* Stop: the exchange of the atomic, then CancelAll.
Stop(th) ==
  /\ Enters(th)
  /\ ~stopped
  /\ stopped' = TRUE
  /\ Goto(th, At("stopCancelAll", {}))
  /\ UNCHANGED <<timer_map, contextVars, workers>>

StopCancelAll(th) ==
  /\ call[th].at = "stopCancelAll"
  /\ StateMutexFree
  /\ Goto(th, [Idle EXCEPT !.at = "cancelAll", !.todo = timer_map])
  /\ UNCHANGED <<timer_map, contextVars, stopped, workers, calls>>

-------------------------------------------------------------------------------
\* The worker thread.  It has nothing to do any more when:
Outdated(w) ==
  stopped \/ generation[w.timer] # w.generation \/ ~active[w.timer]

Replaces(w, place) == workers' = (workers \ {w}) \union {[w EXCEPT !.at = place]}

WorkerReturns(w) ==
  /\ w.at = "running"
  /\ Outdated(w)
  /\ workers' = workers \ {w}
  /\ UNCHANGED <<timer_map, contextVars, stopped, call, calls>>

WorkerWaits(w) ==
  /\ w.at = "running"
  /\ ~Outdated(w)
  /\ paused[w.timer]
  /\ Replaces(w, "sleepPaused")
  /\ UNCHANGED <<timer_map, contextVars, stopped, call, calls>>

WorkerWaitsUntil(w) ==
  /\ w.at = "running"
  /\ ~Outdated(w)
  /\ ~paused[w.timer]
  /\ remaining[w.timer] > 0 /\ left[w.timer] > 0
  /\ Replaces(w, "sleepDeadline")
  /\ UNCHANGED <<timer_map, contextVars, stopped, call, calls>>

\* Fault: the worker leaves the timer active when it commits to the expiry.
WorkerExpiresFault(w) ==
  /\ w.at = "running"
  /\ ~Outdated(w)
  /\ ~paused[w.timer]
  /\ remaining[w.timer] = 0 \/ left[w.timer] = 0
  /\ Replaces(w, "posting")
  /\ UNCHANGED <<timer_map, contextVars, stopped, call, calls>>

\* remaining is 0, or wait_until found the deadline passed.
WorkerExpires(w) ==
  /\ w.at = "running"
  /\ ~Outdated(w)
  /\ ~paused[w.timer]
  /\ remaining[w.timer] = 0 \/ left[w.timer] = 0
  /\ active' = [active EXCEPT ![w.timer] = FALSE]
  /\ Replaces(w, "posting")
  /\ UNCHANGED <<timer_map, generation, paused, remaining, left, stopped, call,
                 elapsed, pauses, calls>>

\* The event is posted although nothing was tested since the mutex was released.
WorkerPosts(w) ==
  /\ w.at = "posting"
  /\ workers' = workers \ {w}
  /\ UNCHANGED <<timer_map, contextVars, stopped, call, calls>>

\* wait_until wakes up at the deadline it went to sleep with.
WorkerTimesOut(w) ==
  /\ w.at = "sleepDeadline"
  /\ left[w.timer] = 0
  /\ Replaces(w, "running")
  /\ UNCHANGED <<timer_map, contextVars, stopped, call, calls>>

SpuriousWakeup(w) ==
  /\ w.at \in {"sleepPaused", "sleepDeadline"}
  /\ Replaces(w, "running")
  /\ UNCHANGED <<timer_map, contextVars, stopped, call, calls>>

WorkerStep(w) ==
  \/ WorkerReturns(w) \/ WorkerWaits(w) \/ WorkerWaitsUntil(w)
  \/ WorkerExpires(w) \/ WorkerPosts(w) \/ WorkerTimesOut(w)

Running(t) == active[t] /\ ~paused[t]

\* A deadline comes nearer while its timer is paused, too.  Nobody reads the
\* deadline of a timer that is not active.
Tick ==
  /\ \E t \in Timers : active[t] /\ left[t] > 0
  /\ left' = [t \in Timers |-> IF active[t] /\ left[t] > 0 THEN left[t] - 1 ELSE left[t]]
  /\ elapsed' = [t \in Timers |->
       IF Running(t) /\ elapsed[t] < Duration THEN elapsed[t] + 1 ELSE elapsed[t]]
  /\ UNCHANGED <<timer_map, generation, active, paused, remaining, stopped, call,
                 workers, pauses, calls>>

-------------------------------------------------------------------------------
Calls(th) ==
  \/ \E t \in Timers :
       StartTimer(th, t) \/ PauseTimer(th, t) \/ ResumeTimer(th, t) \/ CancelTimer(th, t)
  \/ CancelAll(th)
  \/ Stop(th)
  \/ CallIgnored(th)

\* The rest of the operation that the thread is in.
Continues(th) ==
  \/ StartLookup(th) \/ StartUpdate(th) \/ StartNotify(th) \/ StartWorker(th)
  \/ PauseUpdate(th) \/ ResumeUpdate(th) \/ UpdateIgnored(th)
  \/ CancelUpdate(th) \/ CancelNotify(th)
  \/ CancelAllResets(th) \/ CancelAllNotifies(th) \/ CancelAllEnds(th)
  \/ StopCancelAll(th)

Next ==
  \/ \E th \in Threads : Calls(th) \/ Continues(th)
  \/ \E w \in workers : WorkerStep(w) \/ SpuriousWakeup(w)
  \/ Tick

SafetySpec == Init /\ [][Next]_timerVars

\* Every thread that is in an operation, and every worker, is scheduled, and time
\* passes.  A worker is known by its timer and its generation.
Fairness ==
  /\ \A th \in Threads : WF_timerVars(Continues(th))
  /\ \A t \in Timers, g \in 1 .. MaxCalls :
       WF_timerVars(\E w \in workers : w.timer = t /\ w.generation = g /\ WorkerStep(w))
  /\ WF_timerVars(Tick)

Spec == SafetySpec /\ Fairness

-------------------------------------------------------------------------------
TimerTypeOK ==
  /\ timer_map \subseteq Timers
  /\ generation \in [Timers -> Nat]
  /\ active \in [Timers -> BOOLEAN]
  /\ paused \in [Timers -> BOOLEAN]
  /\ remaining \in [Timers -> Nat]
  /\ left \in [Timers -> Nat]
  /\ stopped \in BOOLEAN
  /\ call \in [Threads -> Call]
  /\ workers \subseteq Worker
  /\ elapsed \in [Timers -> Nat]
  /\ pauses \in [Timers -> Nat]
  /\ calls \in Nat

\* An armed timer is never orphaned: whatever restarts, cancels and expiries are
\* interleaved, a worker of the current generation watches it, or the thread in
\* StartTimer is still going to launch that worker.
ActiveHasWorker == \A t \in Timers : active[t] /\ ~stopped =>
  \/ \E w \in workers :
       w.timer = t /\ w.generation = generation[t] /\ w.at # "posting"
  \/ \E th \in Threads :
       /\ call[th].at \in {"startNotify", "startWorker"}
       /\ call[th].current = {t} /\ call[th].generation = generation[t]

\* The predicates of cv.wait and cv.wait_until.
PredicateHolds(w) ==
  \/ Outdated(w)
  \/ w.at = "sleepPaused" /\ ~paused[w.timer]
  \/ w.at = "sleepDeadline" /\ paused[w.timer]

WillNotify(th, t) ==
  \/ call[th].at \in {"startNotify", "cancelNotify", "cancelAllNotify"} /\ t \in call[th].current
  \/ call[th].at = "stopCancelAll"
  \/ call[th].at \in {"cancelAll", "cancelAllNotify"} /\ t \in call[th].todo

\* No worker sleeps through a restart, a cancel, a pause, a resume or a stop,
\* although stopped is set outside the mutex it sleeps on: some thread is still
\* going to signal its condition variable.
NoMissedNotify == \A w \in workers :
  w.at \in {"sleepPaused", "sleepDeadline"} /\ PredicateHolds(w) =>
    \E th \in Threads : WillNotify(th, w.timer)

\* A timer never expires early: when a worker commits, its timer ran for the full
\* duration since StartTimer, but for what each pause lost by rounding down to
\* milliseconds.  In particular the time spent paused does not count.
NeverEarly ==
  [][\A w \in workers : w.at # "posting" /\ [w EXCEPT !.at = "posting"] \in workers' =>
       elapsed[w.timer] + (TicksPerMs - 1) * pauses[w.timer] >= Duration]_timerVars

Posting(t) == {w \in workers : w.timer = t /\ w.at = "posting"}

\* What TimerContract says of the timers is what the contexts and workers do.
Contract == INSTANCE TimerContract WITH
  status <- [t \in Timers |-> IF stopped \/ ~active[t] THEN "idle"
                              ELSE IF paused[t] THEN "held" ELSE "running"],
  inflight <- [t \in Timers |-> Cardinality(Posting(t))],
  closed <- stopped

ImplementsContract == Contract!ContractSafetySpec

\* A timer that keeps running expires.
ArmedSettles ==
  \A t \in Timers : Running(t) ~> ~Running(t) \/ stopped

\* Stop ends all detached workers, asleep or not.
WorkersEnd == stopped ~> workers = {}
===============================================================================
