-------------------------- MODULE TimerManagerProofs --------------------------
(***************************************************************************)
(* The safety of TimerManager, for any threads, timers, duration and        *)
(* rounding, and however often the operations are called.                   *)
(*                                                                          *)
(* ActiveHasWorker, NoMissedNotify and what NeverEarly says of a step are   *)
(* not inductive.  What they need of the other variables is                 *)
(* OneWorkerPerGeneration (so that an expiry or a return is that of the     *)
(* only worker of its generation), CallsKnowTimers (so that the second half *)
(* of an operation is about the timer of the first) and TimeKept (what a    *)
(* timer still has to run).  TimerInv is their conjunction.                 *)
(***************************************************************************)
EXTENDS TimerManager, FiniteSetTheorems, TLAPS

\* A thread that is in no operation is described by a Call.
LEMMA IdleValue == Idle \in Call
BY DEF Idle, Call, CallPlaces

\* So is a thread that is at a place of an operation on the timers ts.
LEMMA AtValue ==
  ASSUME NEW place \in CallPlaces, NEW ts \in SUBSET Timers
  PROVE  /\ At(place, ts) \in Call
         /\ At(place, ts).at = place
         /\ At(place, ts).current = ts
BY IdleValue DEF At, Call

\* A thread that goes to a Call leaves all threads in Calls.
LEMMA GotoCall ==
  ASSUME call \in [Threads -> Call], NEW th \in Threads, NEW c \in Call, Goto(th, c)
  PROVE  call' \in [Threads -> Call]
BY DEF Goto

\* The manager starts with values of their types.
LEMMA TimerTypeInit == Init => TimerTypeOK
<1> SUFFICES ASSUME Init
             PROVE  TimerTypeOK
  OBVIOUS
<1>1. call \in [Threads -> Call]
  BY IdleValue DEF Init
<1> QED
  BY <1>1, TimerAssumption DEF Init, TimerTypeOK, Call

\* Every step of every operation leaves its thread in a Call.
LEMMA CallTypeStep ==
  ASSUME TimerTypeOK, NEW th \in Threads, Calls(th) \/ Continues(th)
  PROVE  call' \in [Threads -> Call]
<1>1. call \in [Threads -> Call] /\ call[th] \in Call
  BY DEF TimerTypeOK, Call
<1>2. ASSUME NEW t \in Timers,
             \/ StartTimer(th, t) \/ PauseTimer(th, t) \/ ResumeTimer(th, t)
             \/ CancelTimer(th, t)
      PROVE  call' \in [Threads -> Call]
  <2>1. PICK place \in CallPlaces : Goto(th, At(place, {t}))
    BY <1>2 DEF StartTimer, PauseTimer, ResumeTimer, CancelTimer, Begin, CallPlaces
  <2> QED
    BY <1>1, <2>1, AtValue, GotoCall
<1>3. ASSUME CancelAll(th) \/ StopCancelAll(th)
      PROVE  call' \in [Threads -> Call]
  <2>1. [Idle EXCEPT !.at = "cancelAll", !.todo = timer_map] \in Call
    BY DEF Idle, Call, CallPlaces, TimerTypeOK
  <2> QED
    BY <1>1, <1>3, <2>1, GotoCall DEF CancelAll, StopCancelAll
<1>4. ASSUME Stop(th)
      PROVE  call' \in [Threads -> Call]
  BY <1>1, <1>4, AtValue, GotoCall DEF Stop, CallPlaces
<1>5. ASSUME CallIgnored(th)
      PROVE  call' \in [Threads -> Call]
  BY <1>1, <1>5 DEF CallIgnored, timerVars
<1>6. ASSUME StartLookup(th)
      PROVE  call' \in [Threads -> Call]
  BY <1>1, <1>6, AtValue, GotoCall DEF StartLookup, CallPlaces, Call
<1>7. ASSUME StartUpdate(th)
      PROVE  call' \in [Threads -> Call]
  <2>1. PICK t \in call[th].current :
          Goto(th, [At("startNotify", {t}) EXCEPT !.generation = generation[t] + 1])
    BY <1>7 DEF StartUpdate
  <2>2. t \in Timers /\ generation[t] + 1 \in Nat
    BY <1>1 DEF Call, TimerTypeOK
  <2>3. [At("startNotify", {t}) EXCEPT !.generation = generation[t] + 1] \in Call
    BY <2>2, AtValue DEF Call, CallPlaces
  <2> QED
    BY <1>1, <2>1, <2>3, GotoCall
<1>8. ASSUME StartNotify(th)
      PROVE  call' \in [Threads -> Call]
  <2>1. [call[th] EXCEPT !.at = "startWorker"] \in Call
    BY <1>1 DEF Call, CallPlaces
  <2> QED
    BY <1>1, <1>8, <2>1, GotoCall DEF StartNotify
<1>9. ASSUME \/ StartWorker(th) \/ PauseUpdate(th) \/ ResumeUpdate(th)
             \/ UpdateIgnored(th) \/ CancelNotify(th) \/ CancelAllEnds(th)
      PROVE  call' \in [Threads -> Call]
  BY <1>1, <1>9, IdleValue, GotoCall
     DEF StartWorker, PauseUpdate, ResumeUpdate, UpdateIgnored, CancelNotify, CancelAllEnds
<1>10. ASSUME CancelUpdate(th)
       PROVE  call' \in [Threads -> Call]
  BY <1>1, <1>10, AtValue, GotoCall DEF CancelUpdate, CallPlaces, Call
<1>11. ASSUME CancelAllResets(th)
       PROVE  call' \in [Threads -> Call]
  <2>1. PICK t \in call[th].todo :
          Goto(th, [call[th] EXCEPT !.at = "cancelAllNotify", !.current = {t}, !.todo = @ \ {t}])
    BY <1>11 DEF CancelAllResets
  <2>2. [call[th] EXCEPT !.at = "cancelAllNotify", !.current = {t}, !.todo = @ \ {t}] \in Call
    BY <1>1 DEF Call, CallPlaces
  <2> QED
    BY <1>1, <2>1, <2>2, GotoCall
<1>12. ASSUME CancelAllNotifies(th)
       PROVE  call' \in [Threads -> Call]
  <2>1. [call[th] EXCEPT !.at = "cancelAll", !.current = {}] \in Call
    BY <1>1 DEF Call, CallPlaces
  <2> QED
    BY <1>1, <1>12, <2>1, GotoCall DEF CancelAllNotifies
<1> QED
  BY <1>2, <1>3, <1>4, <1>5, <1>6, <1>7, <1>8, <1>9, <1>10, <1>11, <1>12
     DEF Calls, Continues

\* Waking workers up makes no other things of them.
LEMMA WokenWorkers ==
  ASSUME NEW t \in Timers, workers \subseteq Worker
  PROVE  Woken(workers, t) \subseteq Worker
BY DEF Woken, Worker

\* No step takes a variable out of its type.
LEMMA TimerTypeStep ==
  TimerTypeOK /\ [Next]_timerVars => TimerTypeOK'
<1> SUFFICES ASSUME TimerTypeOK, [Next]_timerVars
             PROVE  TimerTypeOK'
  OBVIOUS
<1> USE TimerAssumption DEF TimerTypeOK
<1>1. ASSUME NEW th \in Threads, Calls(th)
      PROVE  TimerTypeOK'
  <2>1. call' \in [Threads -> Call]
    BY <1>1, CallTypeStep
  <2>2. ASSUME NEW t \in Timers,
               \/ StartTimer(th, t) \/ PauseTimer(th, t) \/ ResumeTimer(th, t)
               \/ CancelTimer(th, t)
        PROVE  TimerTypeOK'
    BY <2>1, <2>2 DEF StartTimer, PauseTimer, ResumeTimer, CancelTimer, Begin, Enters,
                      Lookup, contextVars
  <2>3. CASE CancelAll(th)
    BY <2>1, <2>3 DEF CancelAll, Enters, contextVars
  <2>5. CASE Stop(th)
    BY <2>1, <2>5 DEF Stop, Enters, contextVars
  <2>4. CASE CallIgnored(th)
    BY <2>4 DEF CallIgnored, timerVars, contextVars
  <2> QED
    BY <1>1, <2>2, <2>3, <2>4, <2>5 DEF Calls
<1>2. ASSUME NEW th \in Threads, Continues(th)
      PROVE  TimerTypeOK'
  <2>1. call' \in [Threads -> Call] /\ call[th].current \subseteq Timers
                                   /\ call[th].todo \subseteq Timers
    BY <1>2, CallTypeStep DEF Call
  <2>2. CASE StartLookup(th)
    BY <2>1, <2>2 DEF StartLookup, Lookup, contextVars
  <2>3. CASE StartUpdate(th)
    BY <2>1, <2>3 DEF StartUpdate
  <2>4. CASE StartNotify(th) \/ CancelNotify(th) \/ CancelAllNotifies(th)
    BY <2>1, <2>4, WokenWorkers DEF StartNotify, CancelNotify, CancelAllNotifies, contextVars
  <2>5. CASE StartWorker(th)
    <3>1. PICK t \in call[th].current :
            workers' = workers \union
              {[timer |-> t, generation |-> call[th].generation, at |-> "running"]}
      BY <2>5 DEF StartWorker
    <3>2. call[th].generation \in Nat /\ t \in Timers
      BY <2>1 DEF Call
    <3>3. workers' \subseteq Worker
      BY <3>1, <3>2 DEF Worker
    <3> QED
      BY <2>1, <2>5, <3>3 DEF StartWorker, contextVars
  <2>6. CASE PauseUpdate(th)
    <3>1. PICK t \in call[th].current :
            /\ remaining' = [remaining EXCEPT ![t] = (left[t] \div TicksPerMs) * TicksPerMs]
            /\ paused' = [paused EXCEPT ![t] = TRUE]
            /\ pauses' = [pauses EXCEPT ![t] = @ + 1]
            /\ workers' = Woken(workers, t)
      BY <2>6 DEF PauseUpdate
    <3>2. (left[t] \div TicksPerMs) * TicksPerMs \in Nat
      BY <2>1, <3>1
    <3> QED
      BY <2>1, <2>6, <3>1, <3>2, WokenWorkers DEF PauseUpdate
  <2>7. CASE ResumeUpdate(th)
    BY <2>1, <2>7, WokenWorkers DEF ResumeUpdate
  <2>8. CASE UpdateIgnored(th) \/ CancelAllEnds(th) \/ StopCancelAll(th)
    BY <2>1, <2>8 DEF UpdateIgnored, CancelAllEnds, StopCancelAll, contextVars
  <2>9. CASE CancelUpdate(th) \/ CancelAllResets(th)
    <3>1. PICK t \in Timers : Reset(t)
      BY <2>1, <2>9 DEF CancelUpdate, CancelAllResets
    <3>2. UNCHANGED <<timer_map, stopped, workers, calls>>
      BY <2>9 DEF CancelUpdate, CancelAllResets
    <3> QED
      BY <2>1, <3>1, <3>2 DEF Reset
  <2> QED
    BY <1>2, <2>2, <2>3, <2>4, <2>5, <2>6, <2>7, <2>8, <2>9 DEF Continues
<1>3. ASSUME NEW w \in workers,
              \/ WorkerReturns(w) \/ WorkerWaits(w) \/ WorkerWaitsUntil(w)
              \/ WorkerPosts(w) \/ WorkerTimesOut(w) \/ SpuriousWakeup(w)
       PROVE  TimerTypeOK'
  BY <1>3 DEF WorkerReturns, WorkerWaits, WorkerWaitsUntil, WorkerPosts, WorkerTimesOut,
               SpuriousWakeup, Replaces, Worker, contextVars
<1>4. ASSUME NEW w \in workers, WorkerExpires(w)
       PROVE  TimerTypeOK'
  BY <1>4 DEF WorkerExpires, Replaces, Worker
<1>5. ASSUME Tick
       PROVE  TimerTypeOK'
  BY <1>5 DEF Tick, Running
<1>6. ASSUME UNCHANGED timerVars
       PROVE  TimerTypeOK'
  BY <1>6 DEF timerVars, contextVars
<1> QED
  BY <1>1, <1>2, <1>3, <1>4, <1>5, <1>6 DEF Next, WorkerStep

-------------------------------------------------------------------------------
\* The places between the two halves of an operation at which its timer is one
\* timer, and those of them at which StartTimer has a worker to launch.
Signalling(th) ==
  call[th].at \in {"startNotify", "startWorker", "cancelNotify", "cancelAllNotify"}

Launching(th) == call[th].at \in {"startNotify", "startWorker"}

Sleeping == {"sleepPaused", "sleepDeadline"}

\* An operation that signals, or launches a worker, does so for one timer; that of
\* StartTimer is in the map before it is armed.
CallsKnowTimers == \A th \in Threads :
  /\ Signalling(th) => \E t \in Timers : call[th].current = {t}
  /\ Launching(th) \/ call[th].at = "startUpdate" => call[th].current \subseteq timer_map

\* A generation of a timer belongs to one worker, or to one worker to be launched.
OneWorkerPerGeneration ==
  /\ \A w \in workers : w.timer \in timer_map /\ w.generation <= generation[w.timer]
  /\ \A v, w \in workers : v.timer = w.timer /\ v.generation = w.generation => v = w
  /\ \A th \in Threads : \A t \in call[th].current : Launching(th) =>
       /\ call[th].generation <= generation[t]
       /\ \A w \in workers : w.timer = t => w.generation # call[th].generation
       /\ \A u \in Threads \ {th} :
            Launching(u) /\ t \in call[u].current => call[u].generation # call[th].generation

\* What notify_all does to the workers of t, and to no others.
LEMMA WokenEffect ==
  ASSUME NEW t \in Timers, NEW ws \in SUBSET Worker
  PROVE  /\ \A v \in Woken(ws, t) :
              \/ v \in ws /\ (v.timer = t => v.at \notin Sleeping)
              \/ v.at = "running" /\ \E w \in ws :
                   /\ w.timer = v.timer /\ w.generation = v.generation
                   /\ w.timer = t /\ w.at \in Sleeping
         /\ \A w \in ws :
              \/ w \in Woken(ws, t)
              \/ \E v \in Woken(ws, t) :
                   v.timer = w.timer /\ v.generation = w.generation /\ v.at = "running"
<1>1. ASSUME NEW w \in ws, w.timer = t, w.at \in Sleeping
      PROVE  LET v == [w EXCEPT !.at = "running"]
             IN  v \in Woken(ws, t) /\ v.timer = w.timer /\ v.generation = w.generation
                   /\ v.at = "running"
  BY <1>1 DEF Woken, Worker, Sleeping
<1>2. ASSUME NEW w \in ws, w.timer # t \/ w.at \notin Sleeping
      PROVE  w \in Woken(ws, t)
  BY <1>2 DEF Woken, Sleeping
<1>3. ASSUME NEW v \in Woken(ws, t)
      PROVE  \/ v \in ws /\ (v.timer = t => v.at \notin Sleeping)
             \/ \E w \in ws : w.timer = t /\ w.at \in Sleeping /\ v = [w EXCEPT !.at = "running"]
  BY DEF Woken, Sleeping
<1> QED
  BY <1>1, <1>2, <1>3 DEF Worker

\* A thread goes on without the others.
LEMMA GotoEffect ==
  ASSUME call \in [Threads -> Call], NEW th \in Threads, NEW c, Goto(th, c)
  PROVE  call'[th] = c /\ \A u \in Threads \ {th} : call'[u] = call[u]
BY DEF Goto

\* A thread may go to c if c knows its timer where CallsKnowTimers asks for it.
LEMMA CallsFrame ==
  ASSUME TimerTypeOK, CallsKnowTimers, timer_map \subseteq timer_map',
         NEW th \in Threads, NEW c \in Call, Goto(th, c),
         c.at \in {"startNotify", "startWorker", "cancelNotify", "cancelAllNotify"} =>
           \E t \in Timers : c.current = {t},
         c.at \in {"startUpdate", "startNotify", "startWorker"} => c.current \subseteq timer_map'
  PROVE  CallsKnowTimers'
<1>1. call'[th] = c /\ \A u \in Threads \ {th} : call'[u] = call[u]
  BY GotoEffect DEF TimerTypeOK
<1> QED
  BY <1>1 DEF CallsKnowTimers, Signalling, Launching

\* The second half of an operation is about one timer, the one it began with, which
\* GetOrCreateTimerContext has found or made.
LEMMA CallsStep ==
  TimerTypeOK /\ CallsKnowTimers /\ [Next]_timerVars => CallsKnowTimers'
<1> SUFFICES ASSUME TimerTypeOK, CallsKnowTimers, [Next]_timerVars
             PROVE  CallsKnowTimers'
  OBVIOUS
<1>1. ASSUME NEW th \in Threads, NEW t \in Timers,
             \/ StartTimer(th, t) \/ PauseTimer(th, t) \/ ResumeTimer(th, t)
             \/ CancelTimer(th, t)
      PROVE  CallsKnowTimers'
  <2>1. PICK place \in {"startLookup", "pauseUpdate", "resumeUpdate", "cancelUpdate"} :
          Goto(th, At(place, {t}))
    BY <1>1 DEF StartTimer, PauseTimer, ResumeTimer, CancelTimer, Begin
  <2>2. timer_map \subseteq timer_map'
    BY <1>1 DEF StartTimer, PauseTimer, ResumeTimer, CancelTimer, Begin, Lookup
  <2>3. At(place, {t}) \in Call /\ At(place, {t}).at = place
    BY AtValue DEF CallPlaces
  <2> QED
    BY <2>1, <2>2, <2>3, CallsFrame
<1>2. ASSUME NEW th \in Threads, CancelAll(th) \/ StopCancelAll(th)
      PROVE  CallsKnowTimers'
  <2> DEFINE c == [Idle EXCEPT !.at = "cancelAll", !.todo = timer_map]
  <2>1. c \in Call /\ c.at = "cancelAll"
    BY IdleValue DEF Idle, Call, CallPlaces, TimerTypeOK
  <2>2. Goto(th, c) /\ timer_map' = timer_map
    BY <1>2 DEF CancelAll, StopCancelAll
  <2> HIDE DEF c
  <2> QED
    BY <2>1, <2>2, CallsFrame
<1>3. ASSUME NEW th \in Threads, Stop(th)
      PROVE  CallsKnowTimers'
  <2>1. At("stopCancelAll", {}) \in Call /\ At("stopCancelAll", {}).at = "stopCancelAll"
    BY AtValue DEF CallPlaces
  <2> QED
    BY <1>3, <2>1, CallsFrame DEF Stop
<1>4. ASSUME NEW th \in Threads, StartLookup(th)
      PROVE  CallsKnowTimers'
  <2>1. PICK t \in call[th].current : Lookup(th, t) /\ Goto(th, At("startUpdate", {t}))
    BY <1>4 DEF StartLookup
  <2>2. t \in Timers
    BY <2>1 DEF TimerTypeOK, Call
  <2>3. /\ At("startUpdate", {t}) \in Call
        /\ At("startUpdate", {t}).at = "startUpdate" /\ At("startUpdate", {t}).current = {t}
    BY <2>2, AtValue DEF CallPlaces
  <2> QED
    BY <2>1, <2>3, CallsFrame DEF Lookup
<1>5. ASSUME NEW th \in Threads, StartUpdate(th)
      PROVE  CallsKnowTimers'
  <2>1. PICK t \in call[th].current :
          /\ Goto(th, [At("startNotify", {t}) EXCEPT !.generation = generation[t] + 1])
          /\ call[th].at = "startUpdate" /\ timer_map' = timer_map
    BY <1>5 DEF StartUpdate
  <2>2. t \in Timers /\ t \in timer_map /\ generation[t] + 1 \in Nat
    BY <2>1 DEF TimerTypeOK, Call, CallsKnowTimers
  <2> DEFINE c == [At("startNotify", {t}) EXCEPT !.generation = generation[t] + 1]
  <2>3. c \in Call /\ c.current = {t}
    BY <2>2, AtValue DEF CallPlaces, Call
  <2> HIDE DEF c
  <2> QED
    BY <2>1, <2>2, <2>3, CallsFrame DEF c
<1>6. ASSUME NEW th \in Threads, StartNotify(th)
      PROVE  CallsKnowTimers'
  <2> DEFINE c == [call[th] EXCEPT !.at = "startWorker"]
  <2>1. c \in Call /\ c.current = call[th].current
    BY DEF TimerTypeOK, Call, CallPlaces
  <2>2. Goto(th, c) /\ call[th].at = "startNotify" /\ timer_map' = timer_map
    BY <1>6 DEF StartNotify
  <2>3. c.current \subseteq timer_map /\ \E t \in Timers : c.current = {t}
    BY <2>1, <2>2 DEF CallsKnowTimers, Signalling, Launching
  <2> HIDE DEF c
  <2> QED
    BY <2>1, <2>2, <2>3, CallsFrame
<1>7. ASSUME NEW th \in Threads,
             \/ StartWorker(th) \/ PauseUpdate(th) \/ ResumeUpdate(th)
             \/ UpdateIgnored(th) \/ CancelNotify(th) \/ CancelAllEnds(th)
      PROVE  CallsKnowTimers'
  <2>1. Goto(th, Idle) /\ timer_map' = timer_map
    BY <1>7 DEF StartWorker, PauseUpdate, ResumeUpdate, UpdateIgnored, CancelNotify, CancelAllEnds
  <2>2. Idle \in Call /\ Idle.at = "idle"
    BY IdleValue DEF Idle
  <2> QED
    BY <2>1, <2>2, CallsFrame
<1>8. ASSUME NEW th \in Threads, CancelUpdate(th)
      PROVE  CallsKnowTimers'
  <2>1. PICK t \in call[th].current : Goto(th, At("cancelNotify", {t})) /\ timer_map' = timer_map
    BY <1>8 DEF CancelUpdate
  <2>2. t \in Timers
    BY <2>1 DEF TimerTypeOK, Call
  <2>3. /\ At("cancelNotify", {t}) \in Call
        /\ At("cancelNotify", {t}).at = "cancelNotify" /\ At("cancelNotify", {t}).current = {t}
    BY <2>2, AtValue DEF CallPlaces
  <2> QED
    BY <2>1, <2>2, <2>3, CallsFrame
<1>9. ASSUME NEW th \in Threads, CancelAllResets(th)
      PROVE  CallsKnowTimers'
  <2>1. PICK t \in call[th].todo :
          /\ Goto(th, [call[th] EXCEPT !.at = "cancelAllNotify", !.current = {t}, !.todo = @ \ {t}])
          /\ timer_map' = timer_map
    BY <1>9 DEF CancelAllResets
  <2> DEFINE c == [call[th] EXCEPT !.at = "cancelAllNotify", !.current = {t}, !.todo = @ \ {t}]
  <2>2. t \in Timers /\ c \in Call /\ c.at = "cancelAllNotify" /\ c.current = {t}
    BY DEF TimerTypeOK, Call, CallPlaces
  <2>3. Goto(th, c)
    BY <2>1
  <2> HIDE DEF c
  <2> QED
    BY <2>1, <2>2, <2>3, CallsFrame
<1>10. ASSUME NEW th \in Threads, CancelAllNotifies(th)
       PROVE  CallsKnowTimers'
  <2> DEFINE c == [call[th] EXCEPT !.at = "cancelAll", !.current = {}]
  <2>1. c \in Call /\ c.at = "cancelAll"
    BY DEF TimerTypeOK, Call, CallPlaces
  <2>2. Goto(th, c) /\ timer_map' = timer_map
    BY <1>10 DEF CancelAllNotifies
  <2> HIDE DEF c
  <2> QED
    BY <2>1, <2>2, CallsFrame
<1>11. ASSUME UNCHANGED <<timer_map, call>>
       PROVE  CallsKnowTimers'
  BY <1>11 DEF CallsKnowTimers, Signalling, Launching
<1>12. ASSUME \/ \E w \in workers : WorkerStep(w) \/ SpuriousWakeup(w)
              \/ Tick
              \/ \E th \in Threads : CallIgnored(th)
              \/ UNCHANGED timerVars
       PROVE  UNCHANGED <<timer_map, call>>
  BY <1>12 DEF WorkerStep, WorkerReturns, WorkerWaits, WorkerWaitsUntil, WorkerExpires,
               WorkerPosts, WorkerTimesOut, SpuriousWakeup, Tick, CallIgnored, timerVars
<1> QED
  BY <1>1, <1>2, <1>3, <1>4, <1>5, <1>6, <1>7, <1>8, <1>9, <1>10, <1>11, <1>12
     DEF Next, Calls, Continues

-------------------------------------------------------------------------------
\* The workers of the next state are some of those there were, each of them once.
WorkersStay ==
  /\ \A v \in workers' : \E w \in workers : w.timer = v.timer /\ w.generation = v.generation
  /\ \A v, w \in workers' : v.timer = w.timer /\ v.generation = w.generation => v = w

\* A worker is what its timer, its generation and its place are.
LEMMA WorkerEqual ==
  ASSUME NEW v \in Worker, NEW w \in Worker,
         v.timer = w.timer, v.generation = w.generation, v.at = w.at
  PROVE  v = w
BY DEF Worker

\* Waking them up keeps the workers apart.
LEMMA WokenStay ==
  ASSUME TimerTypeOK, OneWorkerPerGeneration, NEW t \in Timers, workers' = Woken(workers, t)
  PROVE  WorkersStay
<1>1. workers \in SUBSET Worker /\ workers' \subseteq Worker
  BY WokenWorkers DEF TimerTypeOK
<1>2. ASSUME NEW v \in workers', NEW w \in workers',
             v.timer = w.timer, v.generation = w.generation
      PROVE  v = w
  BY <1>1, <1>2, WokenEffect, WorkerEqual DEF OneWorkerPerGeneration
<1> QED
  BY <1>1, <1>2, WokenEffect DEF WorkersStay

\* A worker that goes to another place is the worker of its timer and generation.
LEMMA ReplacesEffect ==
  ASSUME TimerTypeOK, NEW w \in workers,
         NEW place \in {"running", "sleepPaused", "sleepDeadline", "posting"},
         Replaces(w, place)
  PROVE  LET x == [w EXCEPT !.at = place]
         IN  /\ workers' = (workers \ {w}) \union {x}
             /\ x.timer = w.timer /\ x.generation = w.generation /\ x.at = place
BY DEF Replaces, TimerTypeOK, Worker

\* A worker that goes to another place keeps the workers apart.
LEMMA ReplacesStay ==
  ASSUME TimerTypeOK, OneWorkerPerGeneration, NEW w \in workers,
         NEW place \in {"running", "sleepPaused", "sleepDeadline", "posting"},
         Replaces(w, place)
  PROVE  WorkersStay
<1> DEFINE x == [w EXCEPT !.at = place]
<1>1. /\ workers' = (workers \ {w}) \union {x}
      /\ x.timer = w.timer /\ x.generation = w.generation
  BY ReplacesEffect
<1> HIDE DEF x
<1> QED
  BY <1>1 DEF WorkersStay, OneWorkerPerGeneration

\* A step keeps generations apart if it launches nothing and counts no generation back.
LEMMA GenerationFrame ==
  ASSUME TimerTypeOK, OneWorkerPerGeneration, WorkersStay,
         timer_map \subseteq timer_map',
         \A t \in Timers : generation'[t] \in Nat /\ generation[t] <= generation'[t],
         \A th \in Threads :
           call'[th].at \in {"startNotify", "startWorker"} =>
             /\ call[th].at \in {"startNotify", "startWorker"}
             /\ call'[th].current = call[th].current
             /\ call'[th].generation = call[th].generation
  PROVE  OneWorkerPerGeneration'
<1>1. /\ \A w \in workers : w.timer \in Timers /\ w.generation \in Nat
      /\ \A th \in Threads : call[th].generation \in Nat /\ call[th].current \subseteq Timers
      /\ generation \in [Timers -> Nat]
  BY DEF TimerTypeOK, Worker, Call
<1>2. ASSUME NEW v \in workers'
      PROVE  v.timer \in timer_map' /\ v.generation <= generation'[v.timer]
  BY <1>1 DEF OneWorkerPerGeneration, WorkersStay
<1>3. ASSUME NEW th \in Threads, NEW t \in call'[th].current, Launching(th)'
      PROVE  /\ call'[th].generation <= generation'[t]
             /\ \A w \in workers' : w.timer = t => w.generation # call'[th].generation
             /\ \A u \in Threads \ {th} :
                  Launching(u)' /\ t \in call'[u].current =>
                    call'[u].generation # call'[th].generation
  <2>1. /\ Launching(th) /\ t \in call[th].current
        /\ call'[th].generation = call[th].generation
    BY <1>3 DEF Launching
  <2>2. /\ call[th].generation <= generation[t]
        /\ \A w \in workers : w.timer = t => w.generation # call[th].generation
    BY <2>1 DEF OneWorkerPerGeneration
  <2>3. ASSUME NEW u \in Threads \ {th}, Launching(u)', t \in call'[u].current
        PROVE  call'[u].generation # call'[th].generation
    <3>1. Launching(u) /\ t \in call[u].current /\ call'[u].generation = call[u].generation
      BY <2>3 DEF Launching
    <3> QED
      BY <2>1, <3>1 DEF OneWorkerPerGeneration
  <2>4. t \in Timers
    BY <1>1, <2>1
  <2> QED
    BY <1>1, <2>1, <2>2, <2>3, <2>4 DEF WorkersStay
<1> QED
  BY <1>2, <1>3 DEF OneWorkerPerGeneration, WorkersStay

\* Of the operations only StartTimer comes to the places before the launch.
LEMMA CallEffect ==
  ASSUME TimerTypeOK, NEW th \in Threads, Calls(th) \/ Continues(th)
  PROVE  /\ \A u \in Threads \ {th} : call'[u] = call[u]
         /\ call'[th].at \in {"startNotify", "startWorker"} =>
              StartUpdate(th) \/ StartNotify(th)
<1> DEFINE Done(c) == c.at \notin {"startNotify", "startWorker"}
<1>1. call \in [Threads -> Call] /\ call[th] \in Call
  BY DEF TimerTypeOK
<1>2. CASE CallIgnored(th)
  BY <1>1, <1>2 DEF CallIgnored, timerVars, Idle
<1>3. CASE \E t \in Timers :
             \/ StartTimer(th, t) \/ PauseTimer(th, t) \/ ResumeTimer(th, t)
             \/ CancelTimer(th, t)
  <2>1. PICK t \in Timers,
             place \in {"startLookup", "pauseUpdate", "resumeUpdate", "cancelUpdate"} :
          Goto(th, At(place, {t}))
    BY <1>3 DEF StartTimer, PauseTimer, ResumeTimer, CancelTimer, Begin
  <2>2. At(place, {t}).at = place
    BY AtValue DEF CallPlaces
  <2> QED
    BY <1>1, <2>1, <2>2, GotoEffect
<1>4. CASE CancelAll(th) \/ StopCancelAll(th)
  <2> DEFINE c == [Idle EXCEPT !.at = "cancelAll", !.todo = timer_map]
  <2>1. c.at = "cancelAll"
    BY DEF Idle
  <2>2. Goto(th, c)
    BY <1>4 DEF CancelAll, StopCancelAll
  <2> HIDE DEF c
  <2> QED
    BY <1>1, <2>1, <2>2, GotoEffect
<1>5. CASE Stop(th)
  <2>1. At("stopCancelAll", {}).at = "stopCancelAll"
    BY AtValue DEF CallPlaces
  <2> QED
    BY <1>1, <1>5, <2>1, GotoEffect DEF Stop
<1>6. CASE StartLookup(th)
  <2>1. PICK t \in call[th].current : Goto(th, At("startUpdate", {t}))
    BY <1>6 DEF StartLookup
  <2>2. At("startUpdate", {t}).at = "startUpdate"
    BY <1>1, AtValue DEF CallPlaces, Call
  <2> QED
    BY <1>1, <2>1, <2>2, GotoEffect
<1>7. CASE StartUpdate(th) \/ StartNotify(th)
  BY <1>1, <1>7 DEF StartUpdate, StartNotify, Goto
<1>8. CASE \/ StartWorker(th) \/ PauseUpdate(th) \/ ResumeUpdate(th)
           \/ UpdateIgnored(th) \/ CancelNotify(th) \/ CancelAllEnds(th)
  <2>1. Goto(th, Idle)
    BY <1>8 DEF StartWorker, PauseUpdate, ResumeUpdate, UpdateIgnored, CancelNotify, CancelAllEnds
  <2> QED
    BY <1>1, <2>1, GotoEffect DEF Idle
<1>9. CASE CancelUpdate(th)
  <2>1. PICK t \in call[th].current : Goto(th, At("cancelNotify", {t}))
    BY <1>9 DEF CancelUpdate
  <2>2. At("cancelNotify", {t}).at = "cancelNotify"
    BY <1>1, AtValue DEF CallPlaces, Call
  <2> QED
    BY <1>1, <2>1, <2>2, GotoEffect
<1>10. CASE CancelAllResets(th)
  <2>1. PICK t \in call[th].todo :
          Goto(th, [call[th] EXCEPT !.at = "cancelAllNotify", !.current = {t}, !.todo = @ \ {t}])
    BY <1>10 DEF CancelAllResets
  <2>2. [call[th] EXCEPT !.at = "cancelAllNotify", !.current = {t}, !.todo = @ \ {t}].at
          = "cancelAllNotify"
    BY <1>1 DEF Call
  <2> QED
    BY <1>1, <2>1, <2>2, GotoEffect
<1>11. CASE CancelAllNotifies(th)
  <2>1. Goto(th, [call[th] EXCEPT !.at = "cancelAll", !.current = {}])
    BY <1>11 DEF CancelAllNotifies
  <2>2. [call[th] EXCEPT !.at = "cancelAll", !.current = {}].at = "cancelAll"
    BY <1>1 DEF Call
  <2> QED
    BY <1>1, <2>1, <2>2, GotoEffect
<1> QED
  BY <1>2, <1>3, <1>4, <1>5, <1>6, <1>7, <1>8, <1>9, <1>10, <1>11 DEF Calls, Continues

\* StartUpdate arms its timer and takes the generation that it counted up for the worker.
LEMMA StartUpdateEffect ==
  ASSUME TimerTypeOK, NEW th \in Threads, StartUpdate(th)
  PROVE  \E t \in Timers :
           /\ call[th].at = "startUpdate" /\ t \in call[th].current
           /\ call'[th].at = "startNotify" /\ call'[th].current = {t}
           /\ call'[th].generation = generation[t] + 1
           /\ generation' = [generation EXCEPT ![t] = @ + 1]
           /\ active' = [active EXCEPT ![t] = TRUE]
           /\ paused' = [paused EXCEPT ![t] = FALSE]
           /\ UNCHANGED <<timer_map, stopped, workers>>
<1>1. PICK t \in call[th].current :
        /\ Goto(th, [At("startNotify", {t}) EXCEPT !.generation = generation[t] + 1])
        /\ call[th].at = "startUpdate"
        /\ generation' = [generation EXCEPT ![t] = @ + 1]
        /\ active' = [active EXCEPT ![t] = TRUE]
        /\ paused' = [paused EXCEPT ![t] = FALSE]
        /\ UNCHANGED <<timer_map, stopped, workers>>
  BY DEF StartUpdate
<1>2. t \in Timers /\ call \in [Threads -> Call]
  BY DEF TimerTypeOK, Call
<1> DEFINE c == [At("startNotify", {t}) EXCEPT !.generation = generation[t] + 1]
<1>3. c.at = "startNotify" /\ c.current = {t} /\ c.generation = generation[t] + 1
  BY <1>2, AtValue DEF CallPlaces, Call
<1>4. call'[th] = c
  BY <1>1, <1>2, GotoEffect
<1> HIDE DEF c
<1> QED
  BY <1>1, <1>2, <1>3, <1>4

\* StartNotify keeps the generation that the worker will be given.
LEMMA StartNotifyEffect ==
  ASSUME TimerTypeOK, NEW th \in Threads, StartNotify(th)
  PROVE  \E t \in Timers :
           /\ call[th].at = "startNotify" /\ t \in call[th].current
           /\ call'[th].at = "startWorker" /\ call'[th].current = call[th].current
           /\ call'[th].generation = call[th].generation
           /\ workers' = Woken(workers, t)
           /\ UNCHANGED <<timer_map, contextVars, stopped>>
<1>1. call \in [Threads -> Call] /\ call[th] \in Call
  BY DEF TimerTypeOK
<1> DEFINE c == [call[th] EXCEPT !.at = "startWorker"]
<1>2. /\ c.at = "startWorker" /\ c.current = call[th].current
      /\ c.generation = call[th].generation
  BY <1>1 DEF Call
<1>3. Goto(th, c)
  BY DEF StartNotify
<1>4. call'[th] = c
  BY <1>1, <1>3, GotoEffect
<1> HIDE DEF c
<1> QED
  BY <1>1, <1>2, <1>4 DEF StartNotify, Call

\* No restart, cancel or expiry gives a generation to a second worker.
LEMMA GenerationStep ==
  TimerTypeOK /\ CallsKnowTimers /\ OneWorkerPerGeneration /\ [Next]_timerVars
    => OneWorkerPerGeneration'
<1> SUFFICES ASSUME TimerTypeOK, CallsKnowTimers, OneWorkerPerGeneration, [Next]_timerVars
             PROVE  OneWorkerPerGeneration'
  OBVIOUS
<1>0. /\ generation \in [Timers -> Nat] /\ call \in [Threads -> Call]
      /\ \A w \in workers : w.timer \in Timers /\ w.generation \in Nat
      /\ workers \subseteq Worker
      /\ \A th \in Threads : call[th].current \subseteq Timers /\ call[th].generation \in Nat
  BY DEF TimerTypeOK, Call, Worker
<1>a. ASSUME UNCHANGED workers
      PROVE  WorkersStay
  BY <1>a DEF WorkersStay, OneWorkerPerGeneration
<1>1. ASSUME NEW th \in Threads,
             \/ Calls(th) \/ StartLookup(th) \/ UpdateIgnored(th) \/ CancelAllEnds(th)
             \/ StopCancelAll(th)
      PROVE  OneWorkerPerGeneration'
  <2>1. UNCHANGED <<generation, workers>> /\ timer_map \subseteq timer_map'
    BY <1>1 DEF Calls, StartTimer, PauseTimer, ResumeTimer, CancelTimer, Begin, Lookup, CancelAll,
                Stop, CallIgnored, StartLookup, UpdateIgnored, CancelAllEnds, StopCancelAll,
                timerVars, contextVars
  <2>2. /\ \A u \in Threads \ {th} : call'[u] = call[u]
        /\ call'[th].at \notin {"startNotify", "startWorker"}
    <3>1. Idle.at = "idle"
      BY DEF Idle
    <3>2. call[th].at \in {"idle", "startLookup", "pauseUpdate", "resumeUpdate", "cancelAll",
                          "stopCancelAll"}
      <4>1. CASE Calls(th)
        BY <3>1, <4>1 DEF Calls, StartTimer, PauseTimer, ResumeTimer, CancelTimer, Begin, Enters,
                          CancelAll, Stop, CallIgnored
      <4>2. CASE ~Calls(th)
        BY <1>1, <4>2 DEF StartLookup, UpdateIgnored, CancelAllEnds, StopCancelAll
      <4> QED
        BY <4>1, <4>2
    <3>3. ~StartUpdate(th) /\ ~StartNotify(th)
      BY <3>2 DEF StartUpdate, StartNotify
    <3> QED
      BY <1>1, <3>3, CallEffect DEF Continues
  <2> QED
    BY <1>0, <1>a, <2>1, <2>2, GenerationFrame
<1>2. ASSUME NEW th \in Threads, StartUpdate(th)
      PROVE  OneWorkerPerGeneration'
  <2>1. PICK t \in Timers :
          /\ call[th].at = "startUpdate" /\ t \in call[th].current
          /\ call'[th].at = "startNotify" /\ call'[th].current = {t}
          /\ call'[th].generation = generation[t] + 1
          /\ generation' = [generation EXCEPT ![t] = @ + 1]
          /\ UNCHANGED <<timer_map, workers>>
    BY <1>2, StartUpdateEffect
  <2>2. \A u \in Threads \ {th} : call'[u] = call[u]
    BY <1>2, CallEffect DEF Continues
  <2>3. \A s \in Timers : generation'[s] = IF s = t THEN generation[t] + 1 ELSE generation[s]
    BY <1>0, <2>1
  <2>4. ASSUME NEW w \in workers'
        PROVE  w.timer \in timer_map' /\ w.generation <= generation'[w.timer]
    BY <1>0, <2>1, <2>3 DEF OneWorkerPerGeneration
  <2>5. ASSUME NEW u \in Threads, NEW s \in call'[u].current, Launching(u)'
        PROVE  /\ call'[u].generation <= generation'[s]
               /\ \A w \in workers' : w.timer = s => w.generation # call'[u].generation
               /\ \A x \in Threads \ {u} :
                    Launching(x)' /\ s \in call'[x].current =>
                      call'[x].generation # call'[u].generation
    <3>1. \A x \in Threads \ {th} : Launching(x)' => Launching(x)
      BY <2>2 DEF Launching
    <3>2. CASE u = th
      BY <1>0, <2>1, <2>2, <2>3, <3>1, <3>2, <2>5 DEF OneWorkerPerGeneration
    <3>3. CASE u # th
      <4>1. Launching(u) /\ call'[u] = call[u] /\ s \in call[u].current /\ s \in Timers
        BY <1>0, <2>2, <2>5, <3>1, <3>3
      <4>2. call[u].generation <= generation[s]
        BY <4>1 DEF OneWorkerPerGeneration
      <4> QED
        BY <1>0, <2>1, <2>2, <2>3, <3>1, <4>1, <4>2 DEF OneWorkerPerGeneration
    <3> QED
      BY <3>2, <3>3
  <2> QED
    BY <2>1, <2>4, <2>5 DEF OneWorkerPerGeneration
<1>3. ASSUME NEW th \in Threads, StartNotify(th)
      PROVE  OneWorkerPerGeneration'
  <2>1. PICK t \in Timers :
          /\ call[th].at = "startNotify" /\ call'[th].current = call[th].current
          /\ call'[th].generation = call[th].generation
          /\ workers' = Woken(workers, t)
          /\ UNCHANGED <<timer_map, generation>>
    BY <1>3, StartNotifyEffect DEF contextVars
  <2>2. \A u \in Threads \ {th} : call'[u] = call[u]
    BY <1>3, CallEffect DEF Continues
  <2>3. WorkersStay
    BY <2>1, WokenStay
  <2> QED
    BY <1>0, <2>1, <2>2, <2>3, GenerationFrame
<1>4. ASSUME NEW th \in Threads, StartWorker(th)
      PROVE  OneWorkerPerGeneration'
  <2>1. PICK t \in call[th].current :
          /\ call[th].at = "startWorker"
          /\ workers' = workers \union
               {[timer |-> t, generation |-> call[th].generation, at |-> "running"]}
          /\ UNCHANGED <<timer_map, generation>>
    BY <1>4 DEF StartWorker, contextVars
  <2>2. /\ \A u \in Threads \ {th} : call'[u] = call[u]
        /\ call'[th].at = "idle"
    <3>1. Goto(th, Idle)
      BY <1>4 DEF StartWorker
    <3> QED
      BY <1>0, <3>1, GotoEffect DEF Idle
  <2>3. Launching(th) /\ t \in timer_map /\ t \in Timers
    BY <1>0, <2>1 DEF Launching, CallsKnowTimers
  <2>4. /\ call[th].generation <= generation[t]
        /\ \A w \in workers : w.timer = t => w.generation # call[th].generation
        /\ \A u \in Threads \ {th} :
             Launching(u) /\ t \in call[u].current => call[u].generation # call[th].generation
    BY <2>3 DEF OneWorkerPerGeneration
  <2> DEFINE n == [timer |-> t, generation |-> call[th].generation, at |-> "running"]
  <2>5. n.timer = t /\ n.generation = call[th].generation /\ workers' = workers \union {n}
    BY <2>1
  <2> HIDE DEF n
  <2>6. \A w \in workers' : w.timer \in timer_map' /\ w.generation <= generation'[w.timer]
    BY <2>1, <2>3, <2>4, <2>5 DEF OneWorkerPerGeneration
  <2>7. \A v, w \in workers' : v.timer = w.timer /\ v.generation = w.generation => v = w
    BY <2>4, <2>5 DEF OneWorkerPerGeneration
  <2>8. ASSUME NEW u \in Threads, NEW s \in call'[u].current, Launching(u)'
        PROVE  /\ call'[u].generation <= generation'[s]
               /\ \A w \in workers' : w.timer = s => w.generation # call'[u].generation
               /\ \A x \in Threads \ {u} :
                    Launching(x)' /\ s \in call'[x].current =>
                      call'[x].generation # call'[u].generation
    <3>1. \A x \in Threads : Launching(x)' => x # th /\ Launching(x) /\ call'[x] = call[x]
      BY <2>2 DEF Launching
    <3> QED
      BY <2>1, <2>4, <2>5, <2>8, <3>1 DEF OneWorkerPerGeneration
  <2> QED
    BY <2>6, <2>7, <2>8 DEF OneWorkerPerGeneration
<1>5. ASSUME NEW th \in Threads,
             PauseUpdate(th) \/ ResumeUpdate(th) \/ CancelNotify(th) \/ CancelAllNotifies(th)
      PROVE  OneWorkerPerGeneration'
  <2>1. PICK t \in Timers :
          workers' = Woken(workers, t) /\ UNCHANGED <<timer_map, generation>>
    BY <1>0, <1>5 DEF PauseUpdate, ResumeUpdate, CancelNotify, CancelAllNotifies, contextVars
  <2>2. /\ \A u \in Threads \ {th} : call'[u] = call[u]
        /\ call'[th].at \notin {"startNotify", "startWorker"}
    <3>1. ~StartUpdate(th) /\ ~StartNotify(th)
      BY <1>5 DEF PauseUpdate, ResumeUpdate, CancelNotify, CancelAllNotifies, StartUpdate,
                  StartNotify
    <3> QED
      BY <1>5, <3>1, CallEffect DEF Continues
  <2>3. WorkersStay
    BY <2>1, WokenStay
  <2> QED
    BY <1>0, <2>1, <2>2, <2>3, GenerationFrame
<1>6. ASSUME NEW th \in Threads, CancelUpdate(th) \/ CancelAllResets(th)
      PROVE  OneWorkerPerGeneration'
  <2>1. PICK t \in Timers : Reset(t) /\ UNCHANGED <<timer_map, workers>>
    BY <1>0, <1>6 DEF CancelUpdate, CancelAllResets, TimerTypeOK, Call
  <2>2. /\ \A u \in Threads \ {th} : call'[u] = call[u]
        /\ call'[th].at \notin {"startNotify", "startWorker"}
    <3>1. ~StartUpdate(th) /\ ~StartNotify(th)
      BY <1>6 DEF CancelUpdate, CancelAllResets, StartUpdate, StartNotify
    <3> QED
      BY <1>6, <3>1, CallEffect DEF Continues
  <2>3. \A s \in Timers : generation'[s] \in Nat /\ generation[s] <= generation'[s]
    BY <1>0, <2>1 DEF Reset
  <2> QED
    BY <1>0, <1>a, <2>1, <2>2, <2>3, GenerationFrame
<1>7. ASSUME NEW w \in workers, WorkerStep(w) \/ SpuriousWakeup(w)
      PROVE  OneWorkerPerGeneration'
  <2>1. UNCHANGED <<timer_map, generation, call>>
    BY <1>7 DEF WorkerStep, WorkerReturns, WorkerWaits, WorkerWaitsUntil, WorkerExpires,
                WorkerPosts, WorkerTimesOut, SpuriousWakeup, contextVars
  <2>2. WorkersStay
    <3>1. CASE workers' = workers \ {w}
      BY <3>1 DEF WorkersStay, OneWorkerPerGeneration
    <3>2. CASE \E place \in {"running", "sleepPaused", "sleepDeadline", "posting"} :
                 Replaces(w, place)
      BY <3>2, ReplacesStay
    <3> QED
      BY <1>7, <3>1, <3>2
         DEF WorkerStep, WorkerReturns, WorkerWaits, WorkerWaitsUntil, WorkerExpires,
             WorkerPosts, WorkerTimesOut, SpuriousWakeup
  <2> QED
    BY <1>0, <2>1, <2>2, GenerationFrame
<1>8. ASSUME Tick \/ UNCHANGED timerVars
      PROVE  OneWorkerPerGeneration'
  <2>1. UNCHANGED <<timer_map, generation, call, workers>>
    BY <1>8 DEF Tick, timerVars, contextVars
  <2> QED
    BY <1>0, <1>a, <2>1, GenerationFrame
<1> QED
  BY <1>1, <1>2, <1>3, <1>4, <1>5, <1>6, <1>7, <1>8 DEF Next, Continues

-------------------------------------------------------------------------------
\* The threads that have a worker to launch still have it.
LaunchesStay == \A u \in Threads : Launching(u) =>
  /\ call'[u].at \in {"startNotify", "startWorker"}
  /\ call'[u].current = call[u].current
  /\ call'[u].generation = call[u].generation

\* So do the workers that may still expire and are of the present generation.
WatchersStay == \A w \in workers :
  /\ w.at # "posting" /\ w.generation = generation[w.timer]
  /\ active'[w.timer] /\ ~stopped'
  => \E v \in workers' : v.timer = w.timer /\ v.generation = w.generation /\ v.at # "posting"

\* A timer that a step does not arm keeps its worker if the step takes none of the
\* workers and launches away that could be its own.
LEMMA ActiveFrame ==
  ASSUME ActiveHasWorker, LaunchesStay, WatchersStay,
         \A t \in Timers : active'[t] /\ ~stopped' =>
           active[t] /\ ~stopped /\ generation'[t] = generation[t]
  PROVE  ActiveHasWorker'
<1> SUFFICES ASSUME NEW t \in Timers, active'[t], ~stopped'
             PROVE  \/ \E w \in workers' :
                         w.timer = t /\ w.generation = generation'[t] /\ w.at # "posting"
                    \/ \E u \in Threads :
                         /\ call'[u].at \in {"startNotify", "startWorker"}
                         /\ call'[u].current = {t} /\ call'[u].generation = generation'[t]
  BY DEF ActiveHasWorker
<1>1. active[t] /\ ~stopped /\ generation'[t] = generation[t]
  OBVIOUS
<1>2. CASE \E w \in workers :
             w.timer = t /\ w.generation = generation[t] /\ w.at # "posting"
  <2>1. PICK w \in workers :
          w.timer = t /\ w.generation = generation[t] /\ w.at # "posting"
    BY <1>2
  <2>2. \E v \in workers' : v.timer = w.timer /\ v.generation = w.generation /\ v.at # "posting"
    BY <1>1, <2>1 DEF WatchersStay
  <2> QED
    BY <1>1, <2>1, <2>2
<1>3. CASE \E u \in Threads :
             /\ call[u].at \in {"startNotify", "startWorker"}
             /\ call[u].current = {t} /\ call[u].generation = generation[t]
  <2>1. PICK u \in Threads :
          /\ Launching(u)
          /\ call[u].current = {t} /\ call[u].generation = generation[t]
    BY <1>3 DEF Launching
  <2>2. /\ call'[u].at \in {"startNotify", "startWorker"}
        /\ call'[u].current = call[u].current /\ call'[u].generation = call[u].generation
    BY <2>1 DEF LaunchesStay
  <2> QED
    BY <1>1, <2>1, <2>2
<1> QED
  BY <1>1, <1>2, <1>3 DEF ActiveHasWorker

\* A worker that is woken up still watches its timer.
LEMMA WokenWatch ==
  ASSUME TimerTypeOK, NEW t \in Timers, workers' = Woken(workers, t)
  PROVE  WatchersStay
BY WokenEffect DEF TimerTypeOK, WatchersStay

\* The places from which no operation goes to a launch or comes from one.
LEMMA OtherPlaces ==
  ASSUME TimerTypeOK, NEW th \in Threads,
         Calls(th) \/ Continues(th), ~Launching(th), ~StartUpdate(th)
  PROVE  LaunchesStay
BY CallEffect DEF LaunchesStay, Launching, StartNotify

\* Operations are called by threads that are in none.
LEMMA CallsFromIdle ==
  ASSUME NEW th \in Threads, Calls(th)
  PROVE  call[th].at = "idle"
<1>1. Idle.at = "idle"
  BY DEF Idle
<1> QED
  BY <1>1 DEF Calls, StartTimer, PauseTimer, ResumeTimer, CancelTimer, Begin, Enters,
              CancelAll, Stop, CallIgnored

\* No step leaves an armed timer to workers of other generations.
LEMMA ActiveStep ==
  TimerTypeOK /\ CallsKnowTimers /\ ActiveHasWorker /\ [Next]_timerVars => ActiveHasWorker'
<1> SUFFICES ASSUME TimerTypeOK, CallsKnowTimers, ActiveHasWorker, [Next]_timerVars
             PROVE  ActiveHasWorker'
  OBVIOUS
<1>0. /\ generation \in [Timers -> Nat] /\ active \in [Timers -> BOOLEAN]
      /\ call \in [Threads -> Call] /\ workers \subseteq Worker
      /\ \A th \in Threads : call[th].current \subseteq Timers
  BY DEF TimerTypeOK, Call
<1>1. ASSUME NEW th \in Threads,
             \/ Calls(th) \/ StartLookup(th) \/ UpdateIgnored(th) \/ CancelAllEnds(th)
             \/ StopCancelAll(th)
      PROVE  ActiveHasWorker'
  <2>a. UNCHANGED <<contextVars, workers>> /\ (~stopped' => ~stopped)
    <3>1. CASE CallIgnored(th)
      <4>1. UNCHANGED <<timer_map, contextVars, stopped, call, workers, calls>>
        BY <3>1 DEF CallIgnored, timerVars
      <4> QED
        BY <4>1
    <3>2. CASE \E t \in Timers : StartTimer(th, t) \/ PauseTimer(th, t) \/ ResumeTimer(th, t)
                                 \/ CancelTimer(th, t)
      BY <3>2, SMT DEF StartTimer, PauseTimer, ResumeTimer, CancelTimer, Begin
    <3>3. CASE CancelAll(th) \/ Stop(th)
      BY <3>3, SMT DEF CancelAll, Stop
    <3>4. CASE StartLookup(th) \/ UpdateIgnored(th)
      <4>1. PICK t \in call[th].current : UNCHANGED <<contextVars, stopped, workers, calls>>
        BY <3>4 DEF StartLookup, UpdateIgnored
      <4> QED
        BY <4>1
    <3>5. CASE CancelAllEnds(th) \/ StopCancelAll(th)
      BY <3>5 DEF CancelAllEnds, StopCancelAll
    <3> QED
      BY <1>1, <3>1, <3>2, <3>3, <3>4, <3>5 DEF Calls
  <2>1. UNCHANGED <<generation, active, workers>> /\ (~stopped' => ~stopped)
    BY <2>a DEF contextVars
  <2>2. ~Launching(th) /\ ~StartUpdate(th)
    BY <1>1, CallsFromIdle DEF Launching, StartUpdate, StartLookup, UpdateIgnored, CancelAllEnds,
                               StopCancelAll
  <2>3. LaunchesStay
    BY <1>1, <2>2, OtherPlaces DEF Continues
  <2> QED
    BY <2>1, <2>3, ActiveFrame DEF WatchersStay
<1>2. ASSUME NEW th \in Threads, StartUpdate(th)
      PROVE  ActiveHasWorker'
  <2>1. PICK t \in Timers :
          /\ call[th].at = "startUpdate"
          /\ call'[th].at = "startNotify" /\ call'[th].current = {t}
          /\ call'[th].generation = generation[t] + 1
          /\ generation' = [generation EXCEPT ![t] = @ + 1]
          /\ active' = [active EXCEPT ![t] = TRUE]
          /\ UNCHANGED <<stopped, workers>>
    BY <1>2, StartUpdateEffect
  <2>2. \A u \in Threads \ {th} : call'[u] = call[u]
    BY <1>2, CallEffect DEF Continues
  <2>3. generation'[t] = call'[th].generation
    BY <1>0, <2>1
  <2>4. \A s \in Timers \ {t} : generation'[s] = generation[s] /\ active'[s] = active[s]
    BY <1>0, <2>1
  <2>5. ASSUME NEW s \in Timers \ {t}, active'[s], ~stopped'
        PROVE  \/ \E w \in workers' :
                    w.timer = s /\ w.generation = generation'[s] /\ w.at # "posting"
               \/ \E u \in Threads :
                    /\ call'[u].at \in {"startNotify", "startWorker"}
                    /\ call'[u].current = {s} /\ call'[u].generation = generation'[s]
    <3>1. active[s] /\ ~stopped /\ generation'[s] = generation[s] /\ workers' = workers
      BY <2>1, <2>4, <2>5
    <3>2. CASE \E w \in workers :
                 w.timer = s /\ w.generation = generation[s] /\ w.at # "posting"
      BY <3>1, <3>2
    <3>3. CASE \E u \in Threads :
                 /\ call[u].at \in {"startNotify", "startWorker"}
                 /\ call[u].current = {s} /\ call[u].generation = generation[s]
      <4>1. PICK u \in Threads :
              /\ call[u].at \in {"startNotify", "startWorker"}
              /\ call[u].current = {s} /\ call[u].generation = generation[s]
        BY <3>3
      <4>2. u # th
        BY <2>1, <4>1
      <4>3. call'[u] = call[u]
        BY <2>2, <4>2
      <4> QED
        BY <3>1, <4>1, <4>3
    <3> QED
      BY <3>1, <3>2, <3>3 DEF ActiveHasWorker
  <2>6. /\ call'[th].at \in {"startNotify", "startWorker"}
        /\ call'[th].current = {t} /\ call'[th].generation = generation'[t]
    BY <2>1, <2>3
  <2> QED
    BY <2>5, <2>6 DEF ActiveHasWorker
<1>3. ASSUME NEW th \in Threads, StartNotify(th)
      PROVE  ActiveHasWorker'
  <2>1. PICK t \in Timers :
          /\ call'[th].at = "startWorker" /\ call'[th].current = call[th].current
          /\ call'[th].generation = call[th].generation
          /\ workers' = Woken(workers, t)
          /\ UNCHANGED <<contextVars, stopped>>
    BY <1>3, StartNotifyEffect
  <2>2. LaunchesStay
    <3>1. \A u \in Threads \ {th} : call'[u] = call[u]
      BY <1>3, CallEffect DEF Continues
    <3> QED
      BY <2>1, <3>1 DEF LaunchesStay, Launching
  <2> QED
    BY <2>1, <2>2, WokenWatch, ActiveFrame DEF contextVars
<1>4. ASSUME NEW th \in Threads, StartWorker(th)
      PROVE  ActiveHasWorker'
  <2>1. PICK t \in call[th].current :
          /\ call[th].at = "startWorker"
          /\ workers' = workers \union
               {[timer |-> t, generation |-> call[th].generation, at |-> "running"]}
          /\ Goto(th, Idle)
          /\ UNCHANGED <<generation, active, stopped>>
    BY <1>4 DEF StartWorker, contextVars
  <2>2. \A u \in Threads \ {th} : call'[u] = call[u]
    BY <1>0, <2>1, GotoEffect
  <2>3. call[th].current = {t}
    BY <2>1 DEF CallsKnowTimers, Signalling
  <2> DEFINE n == [timer |-> t, generation |-> call[th].generation, at |-> "running"]
  <2>4. /\ n \in workers' /\ n.timer = t /\ n.generation = call[th].generation
        /\ n.at = "running" /\ workers \subseteq workers'
    BY <2>1
  <2> HIDE DEF n
  <2> QED
    BY <2>1, <2>2, <2>3, <2>4 DEF ActiveHasWorker
<1>5. ASSUME NEW th \in Threads,
             PauseUpdate(th) \/ ResumeUpdate(th) \/ CancelNotify(th) \/ CancelAllNotifies(th)
      PROVE  ActiveHasWorker'
  <2>1. PICK t \in Timers :
          workers' = Woken(workers, t) /\ UNCHANGED <<generation, active, stopped>>
    BY <1>0, <1>5 DEF PauseUpdate, ResumeUpdate, CancelNotify, CancelAllNotifies, contextVars
  <2>2. ~Launching(th) /\ ~StartUpdate(th)
    BY <1>5 DEF PauseUpdate, ResumeUpdate, CancelNotify, CancelAllNotifies, Launching, StartUpdate
  <2> QED
    BY <1>5, <2>1, <2>2, OtherPlaces, WokenWatch, ActiveFrame DEF Continues
<1>6. ASSUME NEW th \in Threads, CancelUpdate(th) \/ CancelAllResets(th)
      PROVE  ActiveHasWorker'
  <2>1. PICK t \in Timers : Reset(t) /\ UNCHANGED <<stopped, workers>>
    BY <1>0, <1>6 DEF CancelUpdate, CancelAllResets, TimerTypeOK, Call
  <2>2. ~Launching(th) /\ ~StartUpdate(th)
    BY <1>6 DEF CancelUpdate, CancelAllResets, Launching, StartUpdate
  <2>3. \A s \in Timers : active'[s] => active[s] /\ generation'[s] = generation[s]
    BY <1>0, <2>1 DEF Reset
  <2> QED
    BY <1>6, <2>1, <2>2, <2>3, OtherPlaces, ActiveFrame DEF Continues, WatchersStay
<1>7. ASSUME NEW w \in workers, WorkerStep(w) \/ SpuriousWakeup(w)
      PROVE  ActiveHasWorker'
  <2>1. UNCHANGED <<generation, call, stopped>> /\ LaunchesStay
    BY <1>7 DEF WorkerStep, WorkerReturns, WorkerWaits, WorkerWaitsUntil, WorkerExpires,
                WorkerPosts, WorkerTimesOut, SpuriousWakeup, contextVars, LaunchesStay, Launching
  <2>2. CASE WorkerReturns(w)
    BY <1>0, <2>1, <2>2, ActiveFrame
       DEF WorkerReturns, Outdated, WatchersStay, contextVars
  <2>3. CASE WorkerPosts(w)
    BY <2>1, <2>3, ActiveFrame DEF WorkerPosts, WatchersStay, contextVars
  <2>4. CASE WorkerExpires(w)
    <3>1. /\ \A s \in Timers : active'[s] => active[s] /\ s # w.timer
          /\ Replaces(w, "posting")
      BY <1>0, <2>4 DEF WorkerExpires
    <3>2. w.timer \in Timers /\ workers \ {w} \subseteq workers'
      BY <1>0, <3>1 DEF Replaces, Worker
    <3>3. WatchersStay
      BY <1>0, <3>1, <3>2 DEF WatchersStay, Worker
    <3> QED
      BY <2>1, <3>1, <3>3, ActiveFrame
  <2>5. CASE \/ WorkerWaits(w) \/ WorkerWaitsUntil(w) \/ WorkerTimesOut(w)
             \/ SpuriousWakeup(w)
    <3>1. PICK place \in {"running", "sleepPaused", "sleepDeadline"} : Replaces(w, place)
      BY <2>5 DEF WorkerWaits, WorkerWaitsUntil, WorkerTimesOut, SpuriousWakeup
    <3> DEFINE x == [w EXCEPT !.at = place]
    <3>2. /\ workers' = (workers \ {w}) \union {x}
          /\ x.timer = w.timer /\ x.generation = w.generation /\ x.at = place
      BY <3>1, ReplacesEffect
    <3> HIDE DEF x
    <3>3. WatchersStay
      BY <3>2 DEF WatchersStay
    <3>4. UNCHANGED active
      BY <2>5 DEF WorkerWaits, WorkerWaitsUntil, WorkerTimesOut, SpuriousWakeup, contextVars
    <3> QED
      BY <2>1, <3>3, <3>4, ActiveFrame
  <2> QED
    BY <1>7, <2>2, <2>3, <2>4, <2>5 DEF WorkerStep
<1>8. ASSUME Tick \/ UNCHANGED timerVars
      PROVE  ActiveHasWorker'
  <2>1. UNCHANGED <<generation, active, stopped, call, workers>>
    BY <1>8 DEF Tick, timerVars, contextVars
  <2> QED
    BY <2>1 DEF ActiveHasWorker
<1> QED
  BY <1>1, <1>2, <1>3, <1>4, <1>5, <1>6, <1>7, <1>8 DEF Next, Continues

-------------------------------------------------------------------------------
\* A step of the thread th leaves no sleeper unsignalled if each worker that sleeps
\* after it slept before it, and th still signals it if it was going to or if the
\* step is what made its predicate true.
LEMMA NotifyFrame ==
  ASSUME NoMissedNotify, NEW th \in Threads,
         \A u \in Threads \ {th} : call'[u] = call[u],
         \A v \in workers' : v.at \in Sleeping =>
           /\ v \in workers
           /\ WillNotify(th, v.timer) => WillNotify(th, v.timer)'
           /\ PredicateHolds(v)' => PredicateHolds(v) \/ WillNotify(th, v.timer)'
  PROVE  NoMissedNotify'
<1> SUFFICES ASSUME NEW v \in workers', v.at \in Sleeping, PredicateHolds(v)'
             PROVE  \E u \in Threads : WillNotify(u, v.timer)'
  BY DEF NoMissedNotify, Sleeping
<1>1. CASE WillNotify(th, v.timer)'
  BY <1>1
<1>2. CASE PredicateHolds(v)
  <2>1. PICK u \in Threads : WillNotify(u, v.timer)
    BY <1>2 DEF NoMissedNotify, Sleeping
  <2>2. CASE u = th
    BY <2>1, <2>2
  <2>3. CASE u # th
    BY <2>1, <2>3 DEF WillNotify
  <2> QED
    BY <2>2, <2>3
<1> QED
  BY <1>1, <1>2

\* What a sleeper waits for depends on the context of its timer only.
LEMMA PredicateFrame ==
  ASSUME NEW v, UNCHANGED stopped,
         generation'[v.timer] = generation[v.timer],
         active'[v.timer] = active[v.timer], paused'[v.timer] = paused[v.timer]
  PROVE  PredicateHolds(v)' <=> PredicateHolds(v)
BY DEF PredicateHolds, Outdated

\* The operations that have nobody to signal, before the step and after it.
LEMMA QuietStep ==
  ASSUME NoMissedNotify, NEW th \in Threads,
         \A u \in Threads \ {th} : call'[u] = call[u],
         \A t : ~WillNotify(th, t),
         UNCHANGED <<contextVars, stopped>>,
         \A v \in workers' : v.at \in Sleeping => v \in workers
  PROVE  NoMissedNotify'
<1>1. UNCHANGED <<generation, active, paused, stopped>>
  BY DEF contextVars
<1> QED
  BY <1>1, NotifyFrame, PredicateFrame

\* A worker that goes to a place where it does not sleep is not a sleeper.
LEMMA ReplacesAwake ==
  ASSUME TimerTypeOK, NEW w \in workers, NEW place \in {"running", "posting"},
         Replaces(w, place), NEW v \in workers', v.at \in Sleeping
  PROVE  v \in workers \ {w}
<1> DEFINE x == [w EXCEPT !.at = place]
<1>1. workers' = (workers \ {w}) \union {x} /\ x.at = place
  BY ReplacesEffect
<1> HIDE DEF x
<1> QED
  BY <1>1 DEF Sleeping

\* No step leaves a sleeper behind that nobody is going to signal: it makes a predicate
\* true only with the signal ahead, and is past the signal only with the sleepers awake.
LEMMA NotifyStep ==
  /\ TimerTypeOK /\ CallsKnowTimers /\ OneWorkerPerGeneration /\ NoMissedNotify
  /\ [Next]_timerVars
  => NoMissedNotify'
<1> SUFFICES ASSUME TimerTypeOK, CallsKnowTimers, OneWorkerPerGeneration, NoMissedNotify,
                    [Next]_timerVars
             PROVE  NoMissedNotify'
  OBVIOUS
<1>0. /\ generation \in [Timers -> Nat] /\ active \in [Timers -> BOOLEAN]
      /\ paused \in [Timers -> BOOLEAN]
      /\ call \in [Threads -> Call] /\ workers \in SUBSET Worker
      /\ \A th \in Threads : call[th].current \subseteq Timers /\ call[th].todo \subseteq Timers
      /\ \A w \in workers : w.timer \in Timers
  BY DEF TimerTypeOK, Call, Worker
<1>1. ASSUME NEW th \in Threads,
             \/ \E t \in Timers : \/ StartTimer(th, t) \/ PauseTimer(th, t)
                                  \/ ResumeTimer(th, t) \/ CancelTimer(th, t)
             \/ CancelAll(th)
      PROVE  NoMissedNotify'
  <2>1. UNCHANGED <<contextVars, stopped, workers>>
    <3>1. CASE CancelAll(th)
      BY <3>1 DEF CancelAll
    <3>2. CASE \E t \in Timers : \/ StartTimer(th, t) \/ PauseTimer(th, t)
                                 \/ ResumeTimer(th, t) \/ CancelTimer(th, t)
      BY <3>2, SMT DEF StartTimer, PauseTimer, ResumeTimer, CancelTimer, Begin
    <3> QED
      BY <1>1, <3>1, <3>2
  <2>2. call[th].at = "idle" /\ \A u \in Threads \ {th} : call'[u] = call[u]
    BY <1>1, CallsFromIdle, CallEffect DEF Calls
  <2>3. \A t : ~WillNotify(th, t)
    BY <2>2 DEF WillNotify
  <2> QED
    BY <2>1, <2>2, <2>3, QuietStep
<1>2. ASSUME NEW th \in Threads, Stop(th)
      PROVE  NoMissedNotify'
  <2>1. \A u \in Threads \ {th} : call'[u] = call[u]
    BY <1>2, CallEffect DEF Calls
  <2>2. At("stopCancelAll", {}).at = "stopCancelAll"
    BY AtValue DEF CallPlaces
  <2>3. call'[th].at = "stopCancelAll" /\ workers' = workers
    BY <1>0, <1>2, <2>2, GotoEffect DEF Stop
  <2>4. \A t : WillNotify(th, t)'
    BY <2>3 DEF WillNotify
  <2> QED
    BY <2>1, <2>3, <2>4, NotifyFrame
<1>3. ASSUME NEW th \in Threads, StartLookup(th) \/ UpdateIgnored(th) \/ CancelAllEnds(th)
      PROVE  NoMissedNotify'
  <2>1. UNCHANGED <<contextVars, stopped, workers>>
    <3>1. CASE CancelAllEnds(th)
      BY <3>1 DEF CancelAllEnds
    <3>2. CASE StartLookup(th) \/ UpdateIgnored(th)
      BY <3>2 DEF StartLookup, UpdateIgnored
    <3> QED
      BY <1>3, <3>1, <3>2
  <2>2. \A u \in Threads \ {th} : call'[u] = call[u]
    BY <1>3, CallEffect DEF Continues
  <2>3. \A t : ~WillNotify(th, t)
    BY <1>3 DEF StartLookup, UpdateIgnored, CancelAllEnds, WillNotify
  <2> QED
    BY <2>1, <2>2, <2>3, QuietStep
<1>4. ASSUME NEW th \in Threads, StopCancelAll(th)
      PROVE  NoMissedNotify'
  <2> DEFINE c == [Idle EXCEPT !.at = "cancelAll", !.todo = timer_map]
  <2>1. c.at = "cancelAll" /\ c.todo = timer_map
    BY DEF Idle
  <2>2. Goto(th, c)
    BY <1>4 DEF StopCancelAll
  <2> HIDE DEF c
  <2>3. /\ call'[th].at = "cancelAll" /\ call'[th].todo = timer_map
        /\ \A u \in Threads \ {th} : call'[u] = call[u]
    BY <1>0, <2>1, <2>2, GotoEffect
  <2>4. \A v \in workers : WillNotify(th, v.timer)'
    BY <2>3 DEF WillNotify, OneWorkerPerGeneration
  <2>5. workers' = workers
    BY <1>4 DEF StopCancelAll
  <2> QED
    BY <2>3, <2>4, <2>5, NotifyFrame
<1>5. ASSUME NEW th \in Threads, StartUpdate(th)
      PROVE  NoMissedNotify'
  <2>1. PICK t \in Timers :
          /\ call[th].at = "startUpdate"
          /\ call'[th].at = "startNotify" /\ call'[th].current = {t}
          /\ generation' = [generation EXCEPT ![t] = @ + 1]
          /\ active' = [active EXCEPT ![t] = TRUE]
          /\ paused' = [paused EXCEPT ![t] = FALSE]
          /\ UNCHANGED <<stopped, workers>>
    BY <1>5, StartUpdateEffect
  <2>2. \A u \in Threads \ {th} : call'[u] = call[u]
    BY <1>5, CallEffect DEF Continues
  <2>3. WillNotify(th, t)' /\ \A s : ~WillNotify(th, s)
    BY <2>1 DEF WillNotify
  <2>4. ASSUME NEW v \in workers, v.timer # t
        PROVE  PredicateHolds(v)' <=> PredicateHolds(v)
    BY <1>0, <2>1, <2>4, PredicateFrame
  <2> QED
    BY <2>1, <2>2, <2>3, <2>4, NotifyFrame
<1>6. ASSUME NEW th \in Threads,
             \/ StartNotify(th) \/ CancelNotify(th) \/ CancelAllNotifies(th)
             \/ PauseUpdate(th) \/ ResumeUpdate(th)
      PROVE  NoMissedNotify'
  <2>1. PICK t \in call[th].current :
          /\ workers' = Woken(workers, t)
          /\ UNCHANGED <<generation, active, stopped>>
          /\ \A s \in Timers \ {t} : paused'[s] = paused[s]
    BY <1>0, <1>6 DEF StartNotify, CancelNotify, CancelAllNotifies, PauseUpdate, ResumeUpdate,
                      contextVars
  <2>2. \A u \in Threads \ {th} : call'[u] = call[u]
    BY <1>6, CallEffect DEF Continues
  <2>3. t \in Timers
    BY <1>0, <2>1
  <2>4. ASSUME NEW s \in Timers \ {t}, WillNotify(th, s)
        PROVE  WillNotify(th, s)'
    <3>1. CASE CancelAllNotifies(th)
      <4> DEFINE c == [call[th] EXCEPT !.at = "cancelAll", !.current = {}]
      <4>1. c.at = "cancelAll" /\ c.todo = call[th].todo
        BY <1>0 DEF Call
      <4>2. Goto(th, c) /\ call[th].at = "cancelAllNotify"
        BY <3>1 DEF CancelAllNotifies
      <4> HIDE DEF c
      <4>3. call'[th].at = "cancelAll" /\ call'[th].todo = call[th].todo
        BY <1>0, <4>1, <4>2, GotoEffect
      <4>4. s \notin call[th].current
        BY <2>1, <4>2 DEF CallsKnowTimers, Signalling
      <4> QED
        BY <2>4, <4>2, <4>3, <4>4 DEF WillNotify
    <3>2. CASE StartNotify(th) \/ CancelNotify(th)
      BY <2>1, <2>4, <3>2 DEF StartNotify, CancelNotify, CallsKnowTimers, Signalling, WillNotify
    <3>3. CASE PauseUpdate(th) \/ ResumeUpdate(th)
      BY <2>4, <3>3 DEF PauseUpdate, ResumeUpdate, WillNotify
    <3> QED
      BY <1>6, <3>1, <3>2, <3>3
  <2>5. ASSUME NEW v \in workers', v.at \in Sleeping
        PROVE  v \in workers /\ v.timer \in Timers \ {t}
    BY <1>0, <2>1, <2>3, <2>5, WokenEffect DEF Sleeping
  <2>6. ASSUME NEW v \in workers', v.at \in Sleeping
        PROVE  PredicateHolds(v)' <=> PredicateHolds(v)
    BY <2>1, <2>5, <2>6, PredicateFrame
  <2> QED
    BY <2>2, <2>4, <2>5, <2>6, NotifyFrame
<1>7. ASSUME NEW th \in Threads, StartWorker(th)
      PROVE  NoMissedNotify'
  <2>1. PICK t \in call[th].current :
          /\ call[th].at = "startWorker"
          /\ workers' = workers \union
               {[timer |-> t, generation |-> call[th].generation, at |-> "running"]}
          /\ UNCHANGED <<contextVars, stopped>>
    BY <1>7 DEF StartWorker
  <2>2. \A u \in Threads \ {th} : call'[u] = call[u]
    BY <1>7, CallEffect DEF Continues
  <2>3. \A t1 : ~WillNotify(th, t1)
    BY <2>1 DEF WillNotify
  <2>4. \A v \in workers' : v.at \in Sleeping => v \in workers
    BY <2>1 DEF Sleeping
  <2> QED
    BY <2>1, <2>2, <2>3, <2>4, QuietStep
<1>8. ASSUME NEW th \in Threads, CancelUpdate(th) \/ CancelAllResets(th)
      PROVE  NoMissedNotify'
  <2>1. PICK t \in Timers :
          /\ Reset(t) /\ UNCHANGED <<stopped, workers>>
          /\ WillNotify(th, t)'
          /\ \A s : WillNotify(th, s) => WillNotify(th, s)'
    <3>1. CASE CancelUpdate(th)
      <4>1. PICK t \in call[th].current :
              /\ call[th].at = "cancelUpdate"
              /\ Reset(t) /\ Goto(th, At("cancelNotify", {t}))
              /\ UNCHANGED <<stopped, workers>>
        BY <3>1 DEF CancelUpdate
      <4>2. t \in Timers
        BY <1>0, <4>1
      <4>3. call'[th].at = "cancelNotify" /\ call'[th].current = {t}
        BY <1>0, <4>1, <4>2, AtValue, GotoEffect DEF CallPlaces
      <4> QED
        BY <4>1, <4>2, <4>3 DEF WillNotify
    <3>2. CASE CancelAllResets(th)
      <4>1. PICK t \in call[th].todo :
              /\ call[th].at = "cancelAll"
              /\ Reset(t)
              /\ Goto(th, [call[th] EXCEPT !.at = "cancelAllNotify", !.current = {t},
                                            !.todo = @ \ {t}])
              /\ UNCHANGED <<stopped, workers>>
        BY <3>2 DEF CancelAllResets
      <4> DEFINE c == [call[th] EXCEPT !.at = "cancelAllNotify", !.current = {t}, !.todo = @ \ {t}]
      <4>2. /\ t \in Timers /\ c.at = "cancelAllNotify" /\ c.current = {t}
            /\ c.todo = call[th].todo \ {t}
        BY <1>0 DEF Call
      <4>3. Goto(th, c)
        BY <4>1
      <4> HIDE DEF c
      <4>4. /\ call'[th].at = "cancelAllNotify" /\ call'[th].current = {t}
            /\ call'[th].todo = call[th].todo \ {t}
        BY <1>0, <4>2, <4>3, GotoEffect
      <4> QED
        BY <4>1, <4>2, <4>4 DEF WillNotify
    <3> QED
      BY <1>8, <3>1, <3>2
  <2>2. \A u \in Threads \ {th} : call'[u] = call[u]
    BY <1>8, CallEffect DEF Continues
  <2>3. ASSUME NEW v \in workers, v.timer # t
        PROVE  PredicateHolds(v)' <=> PredicateHolds(v)
    BY <1>0, <2>1, <2>3, PredicateFrame DEF Reset
  <2> QED
    BY <2>1, <2>2, <2>3, NotifyFrame
<1>9. ASSUME NEW w \in workers, WorkerStep(w) \/ SpuriousWakeup(w)
      PROVE  NoMissedNotify'
  <2>0. UNCHANGED <<generation, paused, stopped, call>>
    BY <1>9 DEF WorkerStep, WorkerReturns, WorkerWaits, WorkerWaitsUntil, WorkerExpires,
                WorkerPosts, WorkerTimesOut, SpuriousWakeup, contextVars
  <2>1. ASSUME NEW v \in workers', v.at \in Sleeping, PredicateHolds(v)'
        PROVE  v \in workers /\ PredicateHolds(v)
    <3>1. CASE WorkerReturns(w) \/ WorkerPosts(w)
      <4>1. v \in workers /\ UNCHANGED active
        BY <3>1, <2>1 DEF WorkerReturns, WorkerPosts, contextVars
      <4> QED
        BY <2>0, <2>1, <4>1, PredicateFrame
    <3>2. CASE WorkerWaits(w) \/ WorkerWaitsUntil(w)
      <4>1. PICK place \in Sleeping :
              /\ Replaces(w, place) /\ UNCHANGED active /\ ~Outdated(w)
              /\ place = "sleepPaused" <=> paused[w.timer]
        BY <3>2 DEF WorkerWaits, WorkerWaitsUntil, Sleeping, contextVars
      <4> DEFINE x == [w EXCEPT !.at = place]
      <4>2. /\ workers' = (workers \ {w}) \union {x}
            /\ x.timer = w.timer /\ x.generation = w.generation /\ x.at = place
        BY <4>1, ReplacesEffect DEF Sleeping
      <4> HIDE DEF x
      <4>3. ~PredicateHolds(x)
        BY <4>1, <4>2 DEF PredicateHolds, Outdated, Sleeping
      <4>4. PredicateHolds(v)
        BY <2>0, <2>1, <4>1, PredicateFrame
      <4> QED
        BY <2>1, <4>2, <4>3, <4>4
    <3>3. CASE WorkerTimesOut(w) \/ SpuriousWakeup(w)
      <4>1. Replaces(w, "running") /\ UNCHANGED active
        BY <3>3 DEF WorkerTimesOut, SpuriousWakeup, contextVars
      <4>2. v \in workers
        BY <2>1, <4>1, ReplacesAwake
      <4> QED
        BY <2>0, <2>1, <4>1, <4>2, PredicateFrame
    <3>4. CASE WorkerExpires(w)
      <4>1. /\ Replaces(w, "posting") /\ ~Outdated(w)
            /\ active' = [active EXCEPT ![w.timer] = FALSE]
        BY <3>4 DEF WorkerExpires
      <4>2. v \in workers \ {w}
        BY <2>1, <4>1, ReplacesAwake
      <4>3. CASE v.timer = w.timer
        BY <4>1, <4>2, <4>3 DEF OneWorkerPerGeneration, PredicateHolds, Outdated
      <4>4. CASE v.timer # w.timer
        BY <1>0, <2>0, <2>1, <4>1, <4>2, <4>4, PredicateFrame
      <4> QED
        BY <4>2, <4>3, <4>4
    <3> QED
      BY <1>9, <3>1, <3>2, <3>3, <3>4 DEF WorkerStep
  <2> QED
    BY <2>0, <2>1 DEF NoMissedNotify, Sleeping, WillNotify
<1>10. ASSUME Tick \/ UNCHANGED timerVars \/ \E th \in Threads : CallIgnored(th)
       PROVE  NoMissedNotify'
  <2>1. UNCHANGED <<generation, active, paused, stopped, call, workers>>
    BY <1>10 DEF Tick, CallIgnored, timerVars, contextVars
  <2> QED
    BY <2>1 DEF NoMissedNotify, PredicateHolds, Outdated, WillNotify
<1> QED
  BY <1>1, <1>2, <1>3, <1>4, <1>5, <1>6, <1>7, <1>8, <1>9, <1>10 DEF Next, Calls, Continues

-------------------------------------------------------------------------------
\* Rounding down to milliseconds loses less than one millisecond.
LEMMA RoundedDown ==
  ASSUME NEW n \in Nat
  PROVE  LET m == (n \div TicksPerMs) * TicksPerMs
         IN  m \in Nat /\ n <= m + (TicksPerMs - 1)
<1>1. TicksPerMs \in Int /\ TicksPerMs > 0 /\ n \in Int
  BY TimerAssumption
<1>2. n \div TicksPerMs \in Nat
  BY <1>1
<1>3. n < TicksPerMs * (n \div TicksPerMs) + TicksPerMs
  BY <1>1
<1> QED
  BY <1>1, <1>2, <1>3

\* What the pauses of a timer may have lost.
Lost(t) == (TicksPerMs - 1) * pauses[t]

\* A timer that was armed for Duration still has to run what it did not run yet, but
\* for what its pauses lost.  The deadline of a timer that runs is never later than
\* remaining tells, so an expiry on either of the two is an expiry on the deadline.
TimeKept == \A t \in Timers : active[t] =>
  /\ paused[t] => elapsed[t] + remaining[t] + Lost(t) >= Duration
  /\ ~paused[t] => left[t] <= remaining[t] /\ elapsed[t] + left[t] + Lost(t) >= Duration

\* What pauses lose is a number of ticks.
LEMMA LostIsNat ==
  ASSUME TimerTypeOK, NEW t \in Timers
  PROVE  Lost(t) \in Nat
<1>1. TicksPerMs - 1 \in Nat /\ pauses[t] \in Nat
  BY TimerAssumption DEF TimerTypeOK
<1> QED
  BY <1>1 DEF Lost

\* A step that does not touch the timers that are active after it keeps their time.
LEMMA TimeKeptFrame ==
  ASSUME TimeKept,
         \A t \in Timers : active'[t] =>
           /\ active[t] /\ paused'[t] = paused[t] /\ remaining'[t] = remaining[t]
           /\ left'[t] = left[t] /\ elapsed'[t] = elapsed[t] /\ pauses'[t] = pauses[t]
  PROVE  TimeKept'
BY DEF TimeKept, Lost

\* Starting, pausing, resuming and the passing of time keep the account of the time.
LEMMA TimeKeptStep ==
  TimerTypeOK /\ TimeKept /\ [Next]_timerVars => TimeKept'
<1> SUFFICES ASSUME TimerTypeOK, TimeKept, [Next]_timerVars
             PROVE  TimeKept'
  OBVIOUS
<1>0. /\ active \in [Timers -> BOOLEAN] /\ paused \in [Timers -> BOOLEAN]
      /\ remaining \in [Timers -> Nat] /\ left \in [Timers -> Nat]
      /\ elapsed \in [Timers -> Nat] /\ pauses \in [Timers -> Nat]
      /\ Duration \in Nat /\ TicksPerMs \in Nat \ {0}
      /\ \A th \in Threads : call[th].current \subseteq Timers /\ call[th].todo \subseteq Timers
  BY TimerAssumption DEF TimerTypeOK, Call
<1>1. ASSUME UNCHANGED contextVars
      PROVE  TimeKept'
  BY <1>1, TimeKeptFrame DEF contextVars
<1>2. ASSUME NEW th \in Threads, StartUpdate(th)
      PROVE  TimeKept'
  <2>1. PICK t \in Timers :
          /\ paused' = [paused EXCEPT ![t] = FALSE]
          /\ active' = [active EXCEPT ![t] = TRUE]
          /\ remaining' = [remaining EXCEPT ![t] = Duration]
          /\ left' = [left EXCEPT ![t] = Duration]
          /\ elapsed' = [elapsed EXCEPT ![t] = 0]
          /\ pauses' = [pauses EXCEPT ![t] = 0]
    BY <1>0, <1>2 DEF StartUpdate
  <2>2. Lost(t)' \in Nat
    BY <1>0, <2>1 DEF Lost
  <2>3. ASSUME NEW s \in Timers \ {t}
        PROVE  /\ paused'[s] = paused[s] /\ active'[s] = active[s]
               /\ remaining'[s] = remaining[s] /\ left'[s] = left[s]
               /\ elapsed'[s] = elapsed[s] /\ Lost(s)' = Lost(s)
    BY <1>0, <2>1 DEF Lost
  <2>4. ~paused'[t] /\ left'[t] = Duration /\ remaining'[t] = Duration /\ elapsed'[t] = 0
    BY <1>0, <2>1
  <2> QED
    BY <1>0, <2>2, <2>3, <2>4 DEF TimeKept
<1>3. ASSUME NEW th \in Threads, PauseUpdate(th)
      PROVE  TimeKept'
  <2> DEFINE rounded(t) == (left[t] \div TicksPerMs) * TicksPerMs
  <2>1. PICK t \in Timers :
          /\ active[t] /\ ~paused[t]
          /\ remaining' = [remaining EXCEPT ![t] = rounded(t)]
          /\ paused' = [paused EXCEPT ![t] = TRUE]
          /\ pauses' = [pauses EXCEPT ![t] = @ + 1]
          /\ UNCHANGED <<active, left, elapsed>>
    BY <1>0, <1>3 DEF PauseUpdate
  <2>2. rounded(t) \in Nat /\ left[t] <= rounded(t) + (TicksPerMs - 1)
    BY <1>0, RoundedDown
  <2>3. Lost(t)' = Lost(t) + (TicksPerMs - 1)
    <3>1. pauses'[t] = pauses[t] + 1
      BY <1>0, <2>1
    <3>2. ASSUME NEW a \in Nat, NEW b \in Nat
          PROVE  a * (b + 1) = a * b + a
      OBVIOUS
    <3>3. TicksPerMs - 1 \in Nat /\ pauses[t] \in Nat
      BY <1>0
    <3> QED
      BY <3>1, <3>2, <3>3 DEF Lost
  <2>4. /\ remaining'[t] = rounded(t) /\ paused'[t]
        /\ active'[t] = active[t] /\ elapsed'[t] = elapsed[t]
    BY <1>0, <2>1
  <2>5. elapsed[t] + left[t] + Lost(t) >= Duration
    BY <2>1 DEF TimeKept
  <2>6. Lost(t) \in Nat
    BY LostIsNat
  <2> HIDE DEF rounded
  <2>7. elapsed'[t] + remaining'[t] + Lost(t)' >= Duration
    BY <1>0, <2>2, <2>3, <2>4, <2>5, <2>6
  <2>8. ASSUME NEW s \in Timers \ {t}
        PROVE  /\ paused'[s] = paused[s] /\ active'[s] = active[s]
               /\ remaining'[s] = remaining[s] /\ left'[s] = left[s]
               /\ elapsed'[s] = elapsed[s] /\ Lost(s)' = Lost(s)
    BY <1>0, <2>1 DEF Lost
  <2> QED
    BY <2>4, <2>7, <2>8 DEF TimeKept
<1>4. ASSUME NEW th \in Threads, ResumeUpdate(th)
      PROVE  TimeKept'
  <2>1. PICK t \in Timers :
          /\ active[t] /\ paused[t]
          /\ paused' = [paused EXCEPT ![t] = FALSE]
          /\ left' = [left EXCEPT ![t] = remaining[t]]
          /\ UNCHANGED <<active, remaining, elapsed, pauses>>
    BY <1>0, <1>4 DEF ResumeUpdate
  <2>2. \A s \in Timers : Lost(s)' = Lost(s)
    BY <2>1 DEF Lost
  <2>3. /\ ~paused'[t] /\ left'[t] = remaining[t]
        /\ \A s \in Timers \ {t} : paused'[s] = paused[s] /\ left'[s] = left[s]
    BY <1>0, <2>1
  <2> QED
    BY <1>0, <2>1, <2>2, <2>3 DEF TimeKept
<1>5. ASSUME NEW th \in Threads, CancelUpdate(th) \/ CancelAllResets(th)
      PROVE  TimeKept'
  <2>1. PICK t \in Timers : Reset(t)
    BY <1>0, <1>5 DEF CancelUpdate, CancelAllResets
  <2> QED
    BY <1>0, <2>1, TimeKeptFrame DEF Reset
<1>6. ASSUME NEW w \in workers, WorkerExpires(w)
      PROVE  TimeKept'
  BY <1>0, <1>6, TimeKeptFrame DEF WorkerExpires
<1>7. ASSUME Tick
      PROVE  TimeKept'
  <2>1. UNCHANGED <<active, paused, remaining, pauses>>
    BY <1>7 DEF Tick
  <2>2. ASSUME NEW t \in Timers, active'[t]
        PROVE  /\ paused'[t] => elapsed'[t] + remaining'[t] + Lost(t)' >= Duration
               /\ ~paused'[t] => /\ left'[t] <= remaining'[t]
                                 /\ elapsed'[t] + left'[t] + Lost(t)' >= Duration
    <3>1. Lost(t)' = Lost(t) /\ Lost(t) \in Nat
      BY <2>1, LostIsNat DEF Lost
    <3>2. /\ left'[t] = IF left[t] > 0 THEN left[t] - 1 ELSE left[t]
          /\ elapsed'[t] = IF ~paused[t] /\ elapsed[t] < Duration
                            THEN elapsed[t] + 1 ELSE elapsed[t]
      BY <1>7, <2>1, <2>2 DEF Tick, Running
    <3> QED
      BY <1>0, <2>1, <2>2, <3>1, <3>2 DEF TimeKept
  <2> QED
    BY <2>2 DEF TimeKept
<1> QED
  <2>1. ASSUME NEW th \in Threads,
               \/ CancelAll(th) \/ Stop(th) \/ CallIgnored(th)
               \/ \E t \in Timers : \/ StartTimer(th, t) \/ PauseTimer(th, t)
                                    \/ ResumeTimer(th, t) \/ CancelTimer(th, t)
        PROVE  UNCHANGED contextVars
    <3>1. CASE CancelAll(th) \/ Stop(th) \/ CallIgnored(th)
      BY <3>1 DEF CancelAll, Stop, CallIgnored, timerVars
    <3>2. CASE \E t \in Timers : \/ StartTimer(th, t) \/ PauseTimer(th, t)
                                 \/ ResumeTimer(th, t) \/ CancelTimer(th, t)
      BY <3>2, SMT DEF StartTimer, PauseTimer, ResumeTimer, CancelTimer, Begin
    <3> QED
      BY <2>1, <3>1, <3>2
  <2>2. ASSUME NEW th \in Threads,
               \/ StartLookup(th) \/ StartNotify(th) \/ StartWorker(th) \/ UpdateIgnored(th)
               \/ CancelNotify(th) \/ CancelAllNotifies(th) \/ CancelAllEnds(th)
               \/ StopCancelAll(th)
        PROVE  UNCHANGED contextVars
    BY <2>2 DEF StartLookup, StartNotify, StartWorker, UpdateIgnored, CancelNotify,
                CancelAllNotifies, CancelAllEnds, StopCancelAll
  <2>3. ASSUME NEW w \in workers,
               \/ WorkerReturns(w) \/ WorkerWaits(w) \/ WorkerWaitsUntil(w) \/ WorkerPosts(w)
               \/ WorkerTimesOut(w) \/ SpuriousWakeup(w)
        PROVE  UNCHANGED contextVars
    BY <2>3 DEF WorkerReturns, WorkerWaits, WorkerWaitsUntil, WorkerPosts, WorkerTimesOut,
                SpuriousWakeup
  <2>4. UNCHANGED timerVars => UNCHANGED contextVars
    BY DEF timerVars
  <2> QED
    BY <1>1, <1>2, <1>3, <1>4, <1>5, <1>6, <1>7, <2>1, <2>2, <2>3, <2>4
       DEF Next, Calls, Continues, WorkerStep

-------------------------------------------------------------------------------
\* Only an expiry commits a worker to post.
LEMMA CommitIsExpiry ==
  ASSUME TimerTypeOK, [Next]_timerVars, NEW x \in workers', x.at = "posting", x \notin workers
  PROVE  \E w \in workers : WorkerExpires(w) /\ x.timer = w.timer
<1>0. /\ workers \in SUBSET Worker
      /\ \A th \in Threads : call[th].current \subseteq Timers
  BY DEF TimerTypeOK, Call
<1>1. ASSUME NEW th \in Threads,
             \/ StartNotify(th) \/ CancelNotify(th) \/ CancelAllNotifies(th)
             \/ PauseUpdate(th) \/ ResumeUpdate(th)
      PROVE  FALSE
  <2>1. PICK t \in Timers : workers' = Woken(workers, t)
    BY <1>0, <1>1 DEF StartNotify, CancelNotify, CancelAllNotifies, PauseUpdate, ResumeUpdate
  <2> QED
    BY <1>0, <2>1, WokenEffect
<1>2. ASSUME NEW th \in Threads, StartWorker(th)
      PROVE  FALSE
  BY <1>2 DEF StartWorker
<1>3. ASSUME UNCHANGED workers
      PROVE  FALSE
  BY <1>3
<1>4. ASSUME NEW th \in Threads, Calls(th)
      PROVE  UNCHANGED workers
  BY <1>4 DEF Calls, StartTimer, PauseTimer, ResumeTimer, CancelTimer, Begin, CancelAll, Stop,
              CallIgnored, timerVars
<1>5. ASSUME NEW th \in Threads,
             \/ StartLookup(th) \/ StartUpdate(th) \/ UpdateIgnored(th) \/ CancelUpdate(th)
             \/ CancelAllResets(th) \/ CancelAllEnds(th) \/ StopCancelAll(th)
      PROVE  UNCHANGED workers
  BY <1>5 DEF StartLookup, StartUpdate, UpdateIgnored, CancelUpdate, CancelAllResets,
              CancelAllEnds, StopCancelAll
<1>6. ASSUME NEW w \in workers,
             \/ WorkerReturns(w) \/ WorkerWaits(w) \/ WorkerWaitsUntil(w) \/ WorkerPosts(w)
             \/ WorkerTimesOut(w) \/ SpuriousWakeup(w)
      PROVE  FALSE
  <2>1. CASE workers' = workers \ {w}
    BY <2>1
  <2>2. CASE \E place \in {"running", "sleepPaused", "sleepDeadline"} : Replaces(w, place)
    <3>1. PICK place \in {"running", "sleepPaused", "sleepDeadline"} : Replaces(w, place)
      BY <2>2
    <3> DEFINE y == [w EXCEPT !.at = place]
    <3>2. workers' = (workers \ {w}) \union {y} /\ y.at = place
      BY <3>1, ReplacesEffect
    <3> HIDE DEF y
    <3> QED
      BY <3>2
  <2> QED
    BY <1>6, <2>1, <2>2 DEF WorkerReturns, WorkerWaits, WorkerWaitsUntil, WorkerPosts,
                            WorkerTimesOut, SpuriousWakeup
<1>7. ASSUME NEW w \in workers, WorkerExpires(w)
      PROVE  x.timer = w.timer
  BY <1>7, ReplacesEffect DEF WorkerExpires
<1>8. Tick \/ UNCHANGED timerVars => UNCHANGED workers
  BY DEF Tick, timerVars
<1> QED
  BY <1>1, <1>2, <1>3, <1>4, <1>5, <1>6, <1>7, <1>8 DEF Next, Continues, WorkerStep

\* A worker that commits in a step had let its timer run for the time it was started with.
LEMMA NeverEarlyStep ==
  ASSUME TimerTypeOK, OneWorkerPerGeneration, TimeKept, [Next]_timerVars,
         NEW v \in workers, v.at # "posting", [v EXCEPT !.at = "posting"] \in workers'
  PROVE  elapsed[v.timer] + (TicksPerMs - 1) * pauses[v.timer] >= Duration
<1> DEFINE x == [v EXCEPT !.at = "posting"]
<1>1. x.timer = v.timer /\ x.generation = v.generation /\ x.at = "posting" /\ v.timer \in Timers
  BY DEF TimerTypeOK, Worker
<1>2. x \in workers'
  OBVIOUS
<1> HIDE DEF x
<1>3. x \notin workers
  BY <1>1 DEF OneWorkerPerGeneration
<1>4. PICK w \in workers : WorkerExpires(w) /\ w.timer = v.timer
  BY <1>1, <1>2, <1>3, CommitIsExpiry
<1>5. /\ active[v.timer] /\ ~paused[v.timer]
      /\ remaining[v.timer] = 0 \/ left[v.timer] = 0
  BY <1>4 DEF WorkerExpires, Outdated
<1>6. /\ left[v.timer] <= remaining[v.timer]
      /\ elapsed[v.timer] + left[v.timer] + Lost(v.timer) >= Duration
  BY <1>1, <1>5 DEF TimeKept
<1>7. /\ left[v.timer] \in Nat /\ remaining[v.timer] \in Nat /\ elapsed[v.timer] \in Nat
      /\ Lost(v.timer) \in Nat
  BY <1>1, LostIsNat DEF TimerTypeOK
<1>8. left[v.timer] = 0
  BY <1>5, <1>6, <1>7
<1> QED
  BY <1>6, <1>7, <1>8 DEF Lost

-------------------------------------------------------------------------------
\* The inductive invariant.
TimerInv ==
  /\ TimerTypeOK /\ CallsKnowTimers /\ OneWorkerPerGeneration
  /\ ActiveHasWorker /\ NoMissedNotify /\ TimeKept

\* Nothing is armed, called or launched at first.
LEMMA TimerInvInit == Init => TimerInv
<1> SUFFICES ASSUME Init
             PROVE  TimerInv
  OBVIOUS
<1>1. \A th \in Threads : call[th] = Idle
  BY DEF Init
<1>2. Idle.at = "idle"
  BY DEF Idle
<1>3. CallsKnowTimers
  BY <1>1, <1>2 DEF CallsKnowTimers, Signalling, Launching
<1>4. OneWorkerPerGeneration
  BY <1>1, <1>2 DEF OneWorkerPerGeneration, Launching, Init
<1> QED
  BY <1>3, <1>4, TimerTypeInit DEF TimerInv, ActiveHasWorker, NoMissedNotify, TimeKept, Init

\* Every conjunct of the invariant is kept by every step.
LEMMA TimerInvStep == TimerInv /\ [Next]_timerVars => TimerInv'
BY TimerTypeStep, CallsStep, GenerationStep, ActiveStep, NotifyStep, TimeKeptStep DEF TimerInv

\* The invariant is inductive: whatever threads call the operations on whatever
\* timers, and however often they are restarted.
THEOREM TimerInvariance == SafetySpec => []TimerInv
<1>1. Init => TimerInv
  BY TimerInvInit
<1>2. TimerInv /\ [Next]_timerVars => TimerInv'
  BY TimerInvStep
<1> QED
  BY <1>1, <1>2, PTL DEF SafetySpec

\* The state of the timers, of the threads in an operation and of the workers keeps
\* its type; in particular no remaining time and no deadline is ever negative.
THEOREM TimerTypeCorrect == SafetySpec => []TimerTypeOK
<1>1. TimerInv => TimerTypeOK
  BY DEF TimerInv
<1> QED
  BY <1>1, TimerInvariance, PTL

\* An armed timer of a manager that is not stopped has a worker of its generation, or
\* StartTimer is about to launch it.
THEOREM ActiveIsWatched == SafetySpec => []ActiveHasWorker
<1>1. TimerInv => ActiveHasWorker
  BY DEF TimerInv
<1> QED
  BY <1>1, TimerInvariance, PTL

\* A worker sleeps with its predicate true only while a thread is still to signal it.
THEOREM NotifyIsNotMissed == SafetySpec => []NoMissedNotify
<1>1. TimerInv => NoMissedNotify
  BY DEF TimerInv
<1> QED
  BY <1>1, TimerInvariance, PTL

\* A worker commits to an expiry only after its timer ran for Duration, but for less
\* than a millisecond for each time it was paused.
THEOREM ExpiresInTime == SafetySpec => NeverEarly
<1>1. TimerInv /\ [Next]_timerVars =>
        [\A w \in workers : w.at # "posting" /\ [w EXCEPT !.at = "posting"] \in workers' =>
           elapsed[w.timer] + (TicksPerMs - 1) * pauses[w.timer] >= Duration]_timerVars
  BY NeverEarlyStep DEF TimerInv
<1> QED
  BY <1>1, TimerInvariance, PTL DEF SafetySpec, NeverEarly

-------------------------------------------------------------------------------
\* Only the post takes a worker that is committed to it away.
LEMMA DepartureIsPost ==
  ASSUME TimerTypeOK, [Next]_timerVars, NEW x \in workers, x.at = "posting", x \notin workers'
  PROVE  WorkerPosts(x)
<1>0. /\ workers \in SUBSET Worker
      /\ \A th \in Threads : call[th].current \subseteq Timers
  BY DEF TimerTypeOK, Call
<1>1. ASSUME NEW th \in Threads,
             \/ StartNotify(th) \/ CancelNotify(th) \/ CancelAllNotifies(th)
             \/ PauseUpdate(th) \/ ResumeUpdate(th)
      PROVE  FALSE
  <2>1. PICK t \in Timers : workers' = Woken(workers, t)
    BY <1>0, <1>1 DEF StartNotify, CancelNotify, CancelAllNotifies, PauseUpdate, ResumeUpdate
  <2> QED
    BY <2>1 DEF Woken
<1>2. ASSUME NEW th \in Threads, StartWorker(th)
      PROVE  FALSE
  BY <1>2 DEF StartWorker
<1>3. ASSUME NEW th \in Threads, Calls(th)
      PROVE  UNCHANGED workers
  BY <1>3 DEF Calls, StartTimer, PauseTimer, ResumeTimer, CancelTimer, Begin, CancelAll, Stop,
              CallIgnored, timerVars
<1>4. ASSUME NEW th \in Threads,
             \/ StartLookup(th) \/ StartUpdate(th) \/ UpdateIgnored(th) \/ CancelUpdate(th)
             \/ CancelAllResets(th) \/ CancelAllEnds(th) \/ StopCancelAll(th)
      PROVE  UNCHANGED workers
  BY <1>4 DEF StartLookup, StartUpdate, UpdateIgnored, CancelUpdate, CancelAllResets,
              CancelAllEnds, StopCancelAll
<1>5. ASSUME NEW w \in workers, WorkerStep(w) \/ SpuriousWakeup(w)
      PROVE  x = w
  BY <1>5 DEF WorkerStep, WorkerReturns, WorkerWaits, WorkerWaitsUntil, WorkerExpires,
              WorkerPosts, WorkerTimesOut, SpuriousWakeup, Replaces
<1>6. ASSUME WorkerStep(x) \/ SpuriousWakeup(x)
      PROVE  WorkerPosts(x)
  BY <1>6 DEF WorkerStep, WorkerReturns, WorkerWaits, WorkerWaitsUntil, WorkerExpires,
              WorkerTimesOut, SpuriousWakeup
<1>7. Tick \/ UNCHANGED timerVars => UNCHANGED workers
  BY DEF Tick, timerVars
<1> QED
  BY <1>1, <1>2, <1>3, <1>4, <1>5, <1>6, <1>7 DEF Next, Continues

\* The expiries that are under way, per timer, are finitely many.
FinitePosting == \A t \in Timers : IsFiniteSet(Posting(t))

\* A step without an expiry and without a post leaves the commitments as they are.
LEMMA PostingSame ==
  ASSUME TimerTypeOK, [Next]_timerVars,
         \A w \in workers : ~WorkerExpires(w) /\ ~WorkerPosts(w), NEW t \in Timers
  PROVE  Posting(t)' = Posting(t)
BY CommitIsExpiry, DepartureIsPost DEF Posting

\* An expiry adds one commitment to its timer.
LEMMA PostingGrows ==
  ASSUME TimerTypeOK, OneWorkerPerGeneration, NEW w \in workers, WorkerExpires(w)
  PROVE  /\ \A t \in Timers \ {w.timer} : Posting(t)' = Posting(t)
         /\ \E x : x \notin Posting(w.timer) /\ Posting(w.timer)' = Posting(w.timer) \union {x}
<1> DEFINE x == [w EXCEPT !.at = "posting"]
<1>1. /\ workers' = (workers \ {w}) \union {x} /\ w.at = "running"
      /\ x.timer = w.timer /\ x.generation = w.generation /\ x.at = "posting"
  BY ReplacesEffect DEF WorkerExpires
<1> HIDE DEF x
<1>2. x \notin workers
  BY <1>1 DEF OneWorkerPerGeneration
<1> QED
  BY <1>1, <1>2 DEF Posting

\* A post takes one commitment from its timer.
LEMMA PostingShrinks ==
  ASSUME NEW w \in workers, WorkerPosts(w)
  PROVE  /\ \A t \in Timers \ {w.timer} : Posting(t)' = Posting(t)
         /\ w \in Posting(w.timer) /\ Posting(w.timer)' = Posting(w.timer) \ {w}
BY DEF WorkerPosts, Posting

\* There are never infinitely many commitments.
LEMMA FinitePostingStep ==
  TimerTypeOK /\ OneWorkerPerGeneration /\ FinitePosting /\ [Next]_timerVars => FinitePosting'
<1> SUFFICES ASSUME TimerTypeOK, OneWorkerPerGeneration, FinitePosting, [Next]_timerVars,
                    NEW t \in Timers
             PROVE  IsFiniteSet(Posting(t)')
  BY DEF FinitePosting
<1>0. IsFiniteSet(Posting(t))
  BY DEF FinitePosting
<1>1. ASSUME NEW w \in workers, WorkerExpires(w)
      PROVE  IsFiniteSet(Posting(t)')
  <2>1. CASE t = w.timer
    <3>1. PICK x : Posting(t)' = Posting(t) \union {x}
      BY <1>1, <2>1, PostingGrows
    <3>2. IsFiniteSet(Posting(t) \union {x})
      BY <1>0, FS_AddElement
    <3> QED
      BY <3>1, <3>2
  <2>2. CASE t # w.timer
    BY <1>0, <1>1, <2>2, PostingGrows
  <2> QED
    BY <2>1, <2>2
<1>2. ASSUME NEW w \in workers, WorkerPosts(w)
      PROVE  IsFiniteSet(Posting(t)')
  <2>1. CASE t = w.timer
    <3>1. Posting(t)' = Posting(t) \ {w}
      BY <1>2, <2>1, PostingShrinks
    <3>2. IsFiniteSet(Posting(t) \ {w})
      BY <1>0, FS_RemoveElement
    <3> QED
      BY <3>1, <3>2
  <2>2. CASE t # w.timer
    BY <1>0, <1>2, <2>2, PostingShrinks
  <2> QED
    BY <2>1, <2>2
<1> QED
  BY <1>0, <1>1, <1>2, PostingSame

-------------------------------------------------------------------------------
\* The two functions of the refinement mapping.
Status == [t \in Timers |-> IF stopped \/ ~active[t] THEN "idle"
                            ELSE IF paused[t] THEN "held" ELSE "running"]

Inflight == [t \in Timers |-> Cardinality(Posting(t))]

\* A step that neither expires a timer nor posts an event.
LEMMA ContractFrame ==
  ASSUME TimerTypeOK, [Next]_timerVars,
         \A w \in workers : ~WorkerExpires(w) /\ ~WorkerPosts(w)
  PROVE  UNCHANGED Inflight
BY PostingSame DEF Inflight

\* Every step is a step of TimerContract, or leaves its variables alone.
LEMMA ContractStep ==
  TimerInv /\ FinitePosting /\ [Next]_timerVars
    => [Contract!ContractNext]_(Contract!contractVars)
<1> SUFFICES ASSUME TimerInv, FinitePosting, [Next]_timerVars
             PROVE  [Contract!ContractNext]_(Contract!contractVars)
  OBVIOUS
<1> USE DEF TimerInv
<1>0. /\ active \in [Timers -> BOOLEAN] /\ paused \in [Timers -> BOOLEAN] /\ stopped \in BOOLEAN
      /\ \A th \in Threads : call[th].current \subseteq Timers /\ call[th].todo \subseteq Timers
      /\ \A w \in workers : w.timer \in Timers
  BY DEF TimerTypeOK, Call, Worker
<1>s. UNCHANGED <<Status, Inflight, stopped>> => UNCHANGED Contract!contractVars
  BY DEF Contract!contractVars, Status, Inflight
<1>1. ASSUME NEW w \in workers, WorkerExpires(w)
      PROVE  Contract!Expire(w.timer)
  <2>1. PICK x : /\ x \notin Posting(w.timer)
                 /\ Posting(w.timer)' = Posting(w.timer) \union {x}
    BY <1>1, PostingGrows
  <2>2. Cardinality(Posting(w.timer)') = Cardinality(Posting(w.timer)) + 1
    BY <1>0, <2>1, FS_AddElement DEF FinitePosting
  <2>3. Inflight' = [Inflight EXCEPT ![w.timer] = @ + 1]
    BY <1>0, <1>1, <2>2, PostingGrows DEF Inflight
  <2>4. /\ active[w.timer] /\ ~paused[w.timer] /\ ~stopped
        /\ active' = [active EXCEPT ![w.timer] = FALSE] /\ UNCHANGED <<paused, stopped>>
    BY <1>1 DEF WorkerExpires, Outdated
  <2>5. Status[w.timer] = "running" /\ Status' = [Status EXCEPT ![w.timer] = "idle"]
    BY <1>0, <2>4 DEF Status
  <2> QED
    BY <2>3, <2>4, <2>5 DEF Contract!Expire, Status, Inflight
<1>2. ASSUME NEW w \in workers, WorkerPosts(w)
      PROVE  Contract!Deliver(w.timer)
  <2>1. w \in Posting(w.timer) /\ Posting(w.timer)' = Posting(w.timer) \ {w}
    BY <1>2, PostingShrinks
  <2>2. /\ Cardinality(Posting(w.timer)') = Cardinality(Posting(w.timer)) - 1
        /\ Cardinality(Posting(w.timer)) \in Nat
    BY <1>0, <2>1, FS_RemoveElement, FS_CardinalityType DEF FinitePosting
  <2>3. Cardinality(Posting(w.timer)) > 0
    BY <1>0, <2>1, <2>2, FS_EmptySet DEF FinitePosting
  <2>4. Inflight' = [Inflight EXCEPT ![w.timer] = @ - 1] /\ Inflight[w.timer] > 0
    BY <1>0, <1>2, <2>2, <2>3, PostingShrinks DEF Inflight
  <2>5. UNCHANGED <<Status, stopped>>
    BY <1>2 DEF WorkerPosts, contextVars, Status
  <2> QED
    BY <2>4, <2>5 DEF Contract!Deliver, Status, Inflight
<1>3. ASSUME \A w \in workers : ~WorkerExpires(w) /\ ~WorkerPosts(w)
      PROVE  [Contract!ContractNext]_(Contract!contractVars)
  <2>0. UNCHANGED Inflight
    BY <1>3, ContractFrame
  <2>1. ASSUME NEW th \in Threads, StartUpdate(th)
        PROVE  [Contract!ContractNext]_(Contract!contractVars)
    <3>1. PICK t \in Timers :
            /\ active' = [active EXCEPT ![t] = TRUE]
            /\ paused' = [paused EXCEPT ![t] = FALSE]
            /\ UNCHANGED stopped
      BY <1>0, <2>1 DEF StartUpdate
    <3>2. CASE stopped
      <4>1. UNCHANGED Status
        BY <3>1, <3>2 DEF Status
      <4> QED
        BY <1>s, <2>0, <3>1, <4>1
    <3>3. CASE ~stopped
      <4>1. Status' = [Status EXCEPT ![t] = "running"]
        BY <1>0, <3>1, <3>3 DEF Status
      <4>2. Contract!Arm(t)
        BY <2>0, <3>1, <3>3, <4>1 DEF Contract!Arm, Status, Inflight
      <4> QED
        BY <4>2 DEF Contract!ContractNext
    <3> QED
      BY <3>2, <3>3
  <2>2. ASSUME NEW th \in Threads, PauseUpdate(th)
        PROVE  [Contract!ContractNext]_(Contract!contractVars)
    <3>1. PICK t \in Timers :
            /\ active[t] /\ ~paused[t]
            /\ paused' = [paused EXCEPT ![t] = TRUE] /\ UNCHANGED <<active, stopped>>
      BY <1>0, <2>2 DEF PauseUpdate
    <3>2. CASE stopped
      <4>1. UNCHANGED Status
        BY <3>1, <3>2 DEF Status
      <4> QED
        BY <1>s, <2>0, <3>1, <4>1
    <3>3. CASE ~stopped
      <4>1. Status[t] = "running" /\ Status' = [Status EXCEPT ![t] = "held"]
        BY <1>0, <3>1, <3>3 DEF Status
      <4>2. Contract!Hold(t)
        BY <2>0, <3>1, <4>1 DEF Contract!Hold, Status, Inflight
      <4> QED
        BY <4>2 DEF Contract!ContractNext
    <3> QED
      BY <3>2, <3>3
  <2>3. ASSUME NEW th \in Threads, ResumeUpdate(th)
        PROVE  [Contract!ContractNext]_(Contract!contractVars)
    <3>1. PICK t \in Timers :
            /\ active[t] /\ paused[t]
            /\ paused' = [paused EXCEPT ![t] = FALSE] /\ UNCHANGED <<active, stopped>>
      BY <1>0, <2>3 DEF ResumeUpdate
    <3>2. CASE stopped
      <4>1. UNCHANGED Status
        BY <3>1, <3>2 DEF Status
      <4> QED
        BY <1>s, <2>0, <3>1, <4>1
    <3>3. CASE ~stopped
      <4>1. Status[t] = "held" /\ Status' = [Status EXCEPT ![t] = "running"]
        BY <1>0, <3>1, <3>3 DEF Status
      <4>2. Contract!Release(t)
        BY <2>0, <3>1, <4>1 DEF Contract!Release, Status, Inflight
      <4> QED
        BY <4>2 DEF Contract!ContractNext
    <3> QED
      BY <3>2, <3>3
  <2>4. ASSUME NEW th \in Threads, CancelUpdate(th) \/ CancelAllResets(th)
        PROVE  [Contract!ContractNext]_(Contract!contractVars)
    <3>1. PICK t \in Timers : Reset(t) /\ UNCHANGED stopped
      BY <1>0, <2>4 DEF CancelUpdate, CancelAllResets
    <3>2. Status' = [Status EXCEPT ![t] = "idle"]
      BY <1>0, <3>1 DEF Status, Reset
    <3>3. Contract!Disarm(t)
      BY <2>0, <3>1, <3>2 DEF Contract!Disarm, Status, Inflight
    <3> QED
      BY <3>3 DEF Contract!ContractNext
  <2>5. ASSUME NEW th \in Threads, Stop(th)
        PROVE  [Contract!ContractNext]_(Contract!contractVars)
    <3>1. ~stopped /\ stopped' = TRUE
      BY <2>5 DEF Stop
    <3>2. Status' = [t \in Timers |-> "idle"]
      BY <3>1 DEF Status
    <3>3. Contract!Close
      BY <2>0, <3>1, <3>2 DEF Contract!Close, Status, Inflight
    <3> QED
      BY <3>3 DEF Contract!ContractNext
  <2>6. ASSUME UNCHANGED <<active, paused, stopped>>
        PROVE  [Contract!ContractNext]_(Contract!contractVars)
    <3>1. UNCHANGED Status
      BY <2>6 DEF Status
    <3> QED
      BY <1>s, <2>0, <2>6, <3>1
  <2>7. ASSUME NEW th \in Threads,
               \/ CancelAll(th) \/ CallIgnored(th)
               \/ \E t \in Timers : \/ StartTimer(th, t) \/ PauseTimer(th, t)
                                    \/ ResumeTimer(th, t) \/ CancelTimer(th, t)
        PROVE  UNCHANGED <<active, paused, stopped>>
    <3>1. CASE CancelAll(th)
      BY <3>1 DEF CancelAll, contextVars
    <3>2. CASE CallIgnored(th)
      BY <3>2 DEF CallIgnored, timerVars, contextVars
    <3>3. CASE \E t \in Timers : \/ StartTimer(th, t) \/ PauseTimer(th, t)
                                 \/ ResumeTimer(th, t) \/ CancelTimer(th, t)
      <4>1. UNCHANGED <<contextVars, stopped>>
        BY <3>3, SMT DEF StartTimer, PauseTimer, ResumeTimer, CancelTimer, Begin
      <4> QED
        BY <4>1 DEF contextVars
    <3> QED
      BY <2>7, <3>1, <3>2, <3>3
  <2>8. ASSUME NEW th \in Threads,
               \/ StartLookup(th) \/ StartNotify(th) \/ StartWorker(th) \/ UpdateIgnored(th)
               \/ CancelNotify(th) \/ CancelAllNotifies(th) \/ CancelAllEnds(th)
               \/ StopCancelAll(th)
        PROVE  UNCHANGED <<active, paused, stopped>>
    <3>1. UNCHANGED <<contextVars, stopped>>
      BY <2>8 DEF StartLookup, StartNotify, StartWorker, UpdateIgnored, CancelNotify,
                  CancelAllNotifies, CancelAllEnds, StopCancelAll
    <3> QED
      BY <3>1 DEF contextVars
  <2>9. ASSUME NEW w \in workers, WorkerStep(w) \/ SpuriousWakeup(w)
        PROVE  UNCHANGED <<active, paused, stopped>>
    BY <1>3, <2>9 DEF WorkerStep, WorkerReturns, WorkerWaits, WorkerWaitsUntil, WorkerTimesOut,
                      SpuriousWakeup, contextVars
  <2>10. Tick \/ UNCHANGED timerVars => UNCHANGED <<active, paused, stopped>>
    BY DEF Tick, timerVars, contextVars
  <2> QED
    BY <2>1, <2>2, <2>3, <2>4, <2>5, <2>6, <2>7, <2>8, <2>9, <2>10 DEF Next, Calls, Continues
<1> QED
  BY <1>0, <1>1, <1>2, <1>3 DEF Contract!ContractNext

\* All timers are idle in the contract at first.
LEMMA ContractInitially == Init => Contract!ContractInit /\ FinitePosting
<1> SUFFICES ASSUME Init
             PROVE  Contract!ContractInit /\ FinitePosting
  OBVIOUS
<1>1. \A t \in Timers : Posting(t) = {}
  BY DEF Init, Posting
<1>2. Cardinality({}) = 0 /\ IsFiniteSet({})
  BY FS_EmptySet
<1> QED
  BY <1>1, <1>2 DEF Init, Contract!ContractInit, FinitePosting

\* The timers, with all their threads, do what TimerContract says and nothing else.
THEOREM ContractImplemented == SafetySpec => ImplementsContract
<1>1. Init => TimerInv /\ FinitePosting /\ Contract!ContractInit
  BY TimerInvInit, ContractInitially
<1>2. TimerInv /\ FinitePosting /\ [Next]_timerVars => TimerInv' /\ FinitePosting'
  BY TimerInvStep, FinitePostingStep DEF TimerInv
<1>3. TimerInv /\ FinitePosting /\ [Next]_timerVars
        => [Contract!ContractNext]_(Contract!contractVars)
  BY ContractStep
<1> QED
  BY <1>1, <1>2, <1>3, PTL DEF SafetySpec, ImplementsContract, Contract!ContractSafetySpec
===============================================================================
