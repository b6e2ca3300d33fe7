------------------------------ MODULE Application ------------------------------
(***************************************************************************)
(* The lifecycle of the Application process: the main thread connects the   *)
(* wrappers, starts the application thread and waits for a signal, then     *)
(* stops the timers, the queue and the wrappers, joins and destroys.  The   *)
(* listener threads, the application thread and the detached timer workers  *)
(* run all the while.                                                       *)
(*                                                                          *)
(* One processor is enough here: a RegionChanged names its region, or none. *)
(* The Shutdown event is left out, as no code posts it; so RequestStop is   *)
(* called once.  The queue and the timers are known by what MessageQueue    *)
(* and TimerContract promise.                                               *)
(***************************************************************************)
EXTENDS Naturals, Processors

CONSTANTS
  Services,      \* the services in use, "Audio" among them
  MayExit,       \* the services whose process may end while the application runs
  Capacity,      \* m_queue_size
  MaxLines,      \* bounds the model: lines the listeners read over a behaviour
  MaxInflight    \* bounds the model: timeouts of one timer not yet posted

ASSUME LifecycleAssumption ==
  /\ "Audio" \in Services
  /\ Services \subseteq {"Audio", "Hmi", "Region", "Power"}
  /\ MayExit \subseteq Services
  /\ {Capacity, MaxLines, MaxInflight} \subseteq Nat

\* The orders in which ConnectServices and StopInternal go through the wrappers.
InUse(s) == IF s \in Services THEN <<s>> ELSE <<>>
ConnectOrder == InUse("Audio") \o InUse("Hmi") \o InUse("Region") \o InUse("Power")
StopOrder == InUse("Audio") \o InUse("Hmi") \o InUse("Power") \o InUse("Region")

\* The events that the parse functions of the wrappers know and the table handles.
EventsOf(s) ==
  CASE s = "Audio" -> {"AudioPlayCompleted"}
    [] s = "Hmi" -> {"ApplicationStartRequest", "ApplicationRecovery",
                          "ApplicationStopRequest"}
    [] s = "Region" -> {"RegionChanged"}
    [] s = "Power" -> {"PowerIgnitionOn", "PowerIgnitionOff"}

VARIABLES
  process,         \* "running", "exited", or "killed" by SIGPIPE
  g_stop_requested,
  main,            \* where the main thread is, and the services its loop has left
  m_running,
  m_queue, m_stopped,
  app_thread,      \* where the application thread is, and its message
  m_current_state,
  status, inflight, closed,   \* the timers, see TimerContract
  m_socket,        \* per wrapper: m_socket_fd is "none", "open", or "shut" down
  peer_gone,       \* per service: its end of the socket is closed
  listening,       \* per wrapper: m_running
  listener,        \* per wrapper: where the listener thread is, and its message
  lines,           \* lines read so far
  late             \* history: messages handled after RequestStop cleared m_running

timers == <<status, inflight, closed>>
queue == <<m_queue, m_stopped>>
wrappers == <<m_socket, peer_gone, listening, listener, lines>>
appVars == <<process, g_stop_requested, main, m_running, queue, app_thread,
             m_current_state, timers, wrappers, late>>

Timer == INSTANCE TimerContract WITH Timers <- UsedTimers

Messages ==
  (UNION {EventsOf(s) : s \in Services}) \union {TimeoutEvent(t) : t \in UsedTimers}

NoMessage == "none"
Thread(place) == [at |-> place, message |-> NoMessage]

AppInit ==
  /\ process = "running"
  /\ g_stop_requested = FALSE
  /\ main = [at |-> "connect", todo |-> ConnectOrder]
  /\ m_running = FALSE
  /\ m_queue = <<>>
  /\ m_stopped = FALSE
  /\ app_thread = Thread("none")
  /\ m_current_state = "Idle"
  /\ Timer!ContractInit
  /\ m_socket = [s \in Services |-> "none"]
  /\ peer_gone = [s \in Services |-> FALSE]
  /\ listening = [s \in Services |-> FALSE]
  /\ listener = [s \in Services |-> Thread("none")]
  /\ lines = 0
  /\ late = 0

-------------------------------------------------------------------------------
\* No thread moves any more once the process has ended.
Alive == process = "running"

\* The main thread.
MainGoes(place, todo) == Alive /\ main' = [at |-> place, todo |-> todo]

\* Connect, then StartListening.  A service that is not there is left out.
ConnectServices ==
  /\ main.at = "connect"
  /\ main.todo # <<>>
  /\ MainGoes("connect", Tail(main.todo))
  /\ LET s == Head(main.todo)
     IN  \/ /\ m_socket' = [m_socket EXCEPT ![s] = "open"]
            /\ listening' = [listening EXCEPT ![s] = TRUE]
            /\ listener' = [listener EXCEPT ![s] = Thread("loop")]
         \/ UNCHANGED <<m_socket, listening, listener>>
  /\ UNCHANGED <<process, g_stop_requested, m_running, queue, app_thread,
                 m_current_state, timers, peer_gone, lines, late>>

Start ==
  /\ main.at = "connect"
  /\ main.todo = <<>>
  /\ m_running' = TRUE
  /\ app_thread' = Thread("loop")
  /\ MainGoes("poll", <<>>)
  /\ UNCHANGED <<process, g_stop_requested, queue, m_current_state, timers, wrappers, late>>

SignalHandler ==
  /\ Alive
  /\ ~g_stop_requested
  /\ g_stop_requested' = TRUE
  /\ UNCHANGED <<process, main, m_running, queue, app_thread, m_current_state,
                 timers, wrappers, late>>

RequestStop ==
  /\ main.at = "poll"
  /\ g_stop_requested
  /\ m_running' = FALSE
  /\ MainGoes("timerStop", <<>>)
  /\ UNCHANGED <<process, g_stop_requested, queue, app_thread, m_current_state,
                 timers, wrappers, late>>

TimerStop ==
  /\ main.at = "timerStop"
  /\ Timer!Close
  /\ MainGoes("queueStop", <<>>)
  /\ UNCHANGED <<process, g_stop_requested, m_running, queue, app_thread,
                 m_current_state, wrappers, late>>

QueueStop ==
  /\ main.at = "queueStop"
  /\ m_stopped' = TRUE
  /\ MainGoes("shutdown", StopOrder)
  /\ UNCHANGED <<process, g_stop_requested, m_running, m_queue, app_thread,
                 m_current_state, timers, wrappers, late>>

\* Fault: Stop does not shut the socket down before it joins.
WrapperShutdownFault ==
  /\ main.at = "shutdown"
  /\ main.todo # <<>>
  /\ listening' = [listening EXCEPT ![Head(main.todo)] = FALSE]
  /\ MainGoes("join", main.todo)
  /\ UNCHANGED <<process, g_stop_requested, m_running, queue, app_thread,
                 m_current_state, timers, m_socket, peer_gone, listener, lines, late>>

\* Stop of one wrapper: shutdown if the listener still runs, join it, close.
WrapperShutdown ==
  /\ main.at = "shutdown"
  /\ main.todo # <<>>
  /\ LET s == Head(main.todo)
     IN  /\ listening' = [listening EXCEPT ![s] = FALSE]
         /\ m_socket' = [m_socket EXCEPT ![s] =
              IF listening[s] /\ @ # "none" THEN "shut" ELSE @]
  /\ MainGoes("join", main.todo)
  /\ UNCHANGED <<process, g_stop_requested, m_running, queue, app_thread,
                 m_current_state, timers, peer_gone, listener, lines, late>>

\* Fault: Stop closes the socket without joining the listener.
WrapperJoinFault ==
  /\ main.at = "join"
  /\ MainGoes("close", main.todo)
  /\ UNCHANGED <<process, g_stop_requested, m_running, queue, app_thread,
                 m_current_state, timers, wrappers, late>>

WrapperJoin ==
  /\ main.at = "join"
  /\ listener[Head(main.todo)].at \in {"none", "ended"}
  /\ listener' = [listener EXCEPT ![Head(main.todo)] = Thread("none")]
  /\ MainGoes("close", main.todo)
  /\ UNCHANGED <<process, g_stop_requested, m_running, queue, app_thread,
                 m_current_state, timers, m_socket, peer_gone, listening, lines, late>>

WrapperClose ==
  /\ main.at = "close"
  /\ m_socket' = [m_socket EXCEPT ![Head(main.todo)] = "none"]
  /\ MainGoes("shutdown", Tail(main.todo))
  /\ UNCHANGED <<process, g_stop_requested, m_running, queue, app_thread,
                 m_current_state, timers, peer_gone, listening, listener, lines, late>>

\* Fault: StopInternal does not join the application thread.
JoinAppThreadFault ==
  /\ main.at = "shutdown"
  /\ main.todo = <<>>
  /\ MainGoes("joined", <<>>)
  /\ UNCHANGED <<process, g_stop_requested, m_running, queue, app_thread,
                 m_current_state, timers, wrappers, late>>

\* The end of StopInternal.  Wait has nothing left to join.
JoinAppThread ==
  /\ main.at = "shutdown"
  /\ main.todo = <<>>
  /\ app_thread.at = "ended"
  /\ app_thread' = Thread("none")
  /\ MainGoes("joined", <<>>)
  /\ UNCHANGED <<process, g_stop_requested, m_running, queue, m_current_state,
                 timers, wrappers, late>>

\* ~Application, where StopInternal finds everything stopped, and its members go.
Destroy ==
  /\ main.at = "joined"
  /\ MainGoes("destroyed", <<>>)
  /\ UNCHANGED <<process, g_stop_requested, m_running, queue, app_thread,
                 m_current_state, timers, wrappers, late>>

Exit ==
  /\ Alive
  /\ main.at = "destroyed"
  /\ process' = "exited"
  /\ UNCHANGED <<g_stop_requested, main, m_running, queue, app_thread,
                 m_current_state, timers, wrappers, late>>

-------------------------------------------------------------------------------
\* The listener threads, ListenLoop.
ListenerGoes(s, place, m) ==
  Alive /\ listener' = [listener EXCEPT ![s] = [at |-> place, message |-> m]]

OnlyListener ==
  UNCHANGED <<process, g_stop_requested, main, m_running, app_thread, m_current_state,
              timers, m_socket, peer_gone, late>>

ListenerTests(s) ==
  /\ listener[s].at = "loop"
  /\ ListenerGoes(s, IF listening[s] THEN "reading" ELSE "ending", NoMessage)
  /\ OnlyListener /\ UNCHANGED <<queue, listening, lines>>

ListenerReads(s) == \E m \in EventsOf(s) :
  /\ listener[s].at = "reading"
  /\ lines < MaxLines
  /\ lines' = lines + 1
  /\ ListenerGoes(s, "posting", m)
  /\ OnlyListener /\ UNCHANGED <<queue, listening>>

\* read returns 0 once either end is shut down or closed.
ListenerSeesEnd(s) ==
  /\ listener[s].at = "reading"
  /\ m_socket[s] = "shut" \/ peer_gone[s]
  /\ ListenerGoes(s, "ending", NoMessage)
  /\ OnlyListener /\ UNCHANGED <<queue, listening, lines>>

\* Fault: the test for a full queue is off by one.
PostEventFault(m) ==
  /\ m_queue' = IF ~m_stopped /\ Len(m_queue) <= Capacity THEN Append(m_queue, m) ELSE m_queue
  /\ UNCHANGED m_stopped

\* PostEvent: nothing enters a queue that is stopped or full.
PostEvent(m) ==
  /\ m_queue' = IF ~m_stopped /\ Len(m_queue) < Capacity THEN Append(m_queue, m) ELSE m_queue
  /\ UNCHANGED m_stopped

\* The callback.  The buffer may hold a further line, which is taken without
\* testing m_running.
ListenerPosts(s) ==
  /\ listener[s].at = "posting"
  /\ PostEvent(listener[s].message)
  /\ \/ ListenerGoes(s, "loop", NoMessage) /\ UNCHANGED lines
     \/ /\ lines < MaxLines
        /\ lines' = lines + 1
        /\ \E m \in EventsOf(s) : ListenerGoes(s, "posting", m)
  /\ OnlyListener /\ UNCHANGED listening

ListenerEnds(s) ==
  /\ listener[s].at = "ending"
  /\ listening' = [listening EXCEPT ![s] = FALSE]
  /\ ListenerGoes(s, "ended", NoMessage)
  /\ OnlyListener /\ UNCHANGED <<queue, lines>>

ServiceExits(s) ==
  /\ Alive
  /\ s \in MayExit
  /\ m_socket[s] # "none"
  /\ ~peer_gone[s]
  /\ peer_gone' = [peer_gone EXCEPT ![s] = TRUE]
  /\ UNCHANGED <<process, g_stop_requested, main, m_running, queue, app_thread,
                 m_current_state, timers, m_socket, listening, listener, lines, late>>

-------------------------------------------------------------------------------
\* The application thread, AppThreadLoop.
AppGoes(place, m) == Alive /\ app_thread' = [at |-> place, message |-> m]

OnlyAppThread == UNCHANGED <<g_stop_requested, main, m_running, m_stopped, wrappers>>

\* Fault: the loop of the application thread does not test m_running.
AppTestsFault ==
  /\ app_thread.at = "loop"
  /\ AppGoes("waiting", NoMessage)
  /\ OnlyAppThread /\ UNCHANGED <<process, m_queue, m_current_state, timers, late>>

AppTests ==
  /\ app_thread.at = "loop"
  /\ AppGoes(IF m_running THEN "waiting" ELSE "ended", NoMessage)
  /\ OnlyAppThread /\ UNCHANGED <<process, m_queue, m_current_state, timers, late>>

AppPops ==
  /\ app_thread.at = "waiting"
  /\ m_queue # <<>>
  /\ m_queue' = Tail(m_queue)
  /\ AppGoes("processing", Head(m_queue))
  /\ OnlyAppThread /\ UNCHANGED <<process, m_current_state, timers, late>>

AppFindsStopped ==
  /\ app_thread.at = "waiting"
  /\ m_stopped /\ m_queue = <<>>
  /\ AppGoes("ended", NoMessage)
  /\ OnlyAppThread /\ UNCHANGED <<process, m_queue, m_current_state, timers, late>>

Row == HandleEvent(DestThreeTable, m_current_state, app_thread.message)

\* A stopped TimerManager ignores StartTimer.
StartTimer(t) == IF closed THEN UNCHANGED timers ELSE Timer!Arm(t)

Handled ==
  /\ m_current_state' = Row.next
  /\ late' = IF m_running THEN late ELSE late + 1
  /\ AppGoes("loop", NoMessage)

\* The first line of RequestPlayStopCompletedSound tests the socket.
AsksForSound == Row.action = "requestSound" /\ m_socket["Audio"] # "none"

ProcessMessage ==
  /\ app_thread.at = "processing"
  /\ ~AsksForSound
  /\ CASE Row.action = "startStopTimer" -> StartTimer(StopTimer)
       [] Row.action = "startRecoveryTimer" -> StartTimer(RecoveryTimer)
       [] Row.action = "cancelAllTimers" ->
            /\ status' = [t \in UsedTimers |-> "idle"]
            /\ UNCHANGED <<inflight, closed>>
       [] OTHER -> UNCHANGED timers
  /\ Handled
  /\ OnlyAppThread /\ UNCHANGED <<process, m_queue>>

RequestPlayStopCompletedSound ==
  /\ app_thread.at = "processing"
  /\ AsksForSound
  /\ AppGoes("writing", app_thread.message)
  /\ OnlyAppThread /\ UNCHANGED <<process, m_queue, m_current_state, timers, late>>

\* The write itself.  It fails if the socket was closed meanwhile; if only its
\* connection is gone, SIGPIPE, which nobody handles, ends the process.
WriteKills == m_socket["Audio"] = "shut" \/ (m_socket["Audio"] = "open" /\ peer_gone["Audio"])

AppWrites ==
  /\ app_thread.at = "writing"
  /\ ~WriteKills
  /\ Handled
  /\ OnlyAppThread /\ UNCHANGED <<process, m_queue, timers>>

AppIsKilled ==
  /\ Alive
  /\ app_thread.at = "writing"
  /\ WriteKills
  /\ process' = "killed"
  /\ OnlyAppThread /\ UNCHANGED <<m_queue, app_thread, m_current_state, timers, late>>

-------------------------------------------------------------------------------
\* The detached workers of the TimerManager.
TimerExpires(t) ==
  /\ Alive
  /\ inflight[t] < MaxInflight
  /\ Timer!Expire(t)
  /\ UNCHANGED <<process, g_stop_requested, main, m_running, queue, app_thread,
                 m_current_state, wrappers, late>>

WorkerPosts(t) ==
  /\ Alive
  /\ Timer!Deliver(t)
  /\ PostEvent(TimeoutEvent(t))
  /\ UNCHANGED <<process, g_stop_requested, main, m_running, app_thread,
                 m_current_state, wrappers, late>>

MainThread ==
  \/ ConnectServices \/ Start \/ RequestStop \/ TimerStop \/ QueueStop
  \/ WrapperShutdown \/ WrapperJoin \/ WrapperClose
  \/ JoinAppThread \/ Destroy \/ Exit

\* What a listener does by itself: it gets out of a blocked read only by an answer
\* of the service or by the end of the connection.
ListenerThread(s) ==
  ListenerTests(s) \/ ListenerSeesEnd(s) \/ ListenerPosts(s) \/ ListenerEnds(s)

AppThread ==
  \/ AppTests \/ AppPops \/ AppFindsStopped \/ ProcessMessage
  \/ RequestPlayStopCompletedSound \/ AppWrites \/ AppIsKilled

AppNext ==
  \/ MainThread \/ SignalHandler \/ AppThread
  \/ \E s \in Services : ListenerThread(s) \/ ListenerReads(s) \/ ServiceExits(s)
  \/ \E t \in UsedTimers : TimerExpires(t) \/ WorkerPosts(t)

\* The threads of a running process are scheduled; that services send, or exit,
\* that timers expire or that a signal arrives is not assumed.
AppFairness ==
  /\ WF_appVars(MainThread)
  /\ WF_appVars(AppThread)
  /\ \A s \in Services : WF_appVars(ListenerThread(s))

AppSafetySpec == AppInit /\ [][AppNext]_appVars

AppSpec == AppSafetySpec /\ AppFairness

-------------------------------------------------------------------------------
AppTypeOK ==
  /\ process \in {"running", "exited", "killed"}
  /\ g_stop_requested \in BOOLEAN
  /\ main.at \in {"connect", "poll", "timerStop", "queueStop", "shutdown", "join",
                  "close", "joined", "destroyed"}
  /\ main.todo \in Seq(Services)
  /\ m_running \in BOOLEAN
  /\ m_queue \in Seq(Messages) /\ Len(m_queue) <= Capacity
  /\ m_stopped \in BOOLEAN
  /\ app_thread \in [at : {"none", "loop", "waiting", "processing", "writing", "ended"},
                     message : Messages \union {NoMessage}]
  /\ m_current_state \in States
  /\ status \in [UsedTimers -> {"idle", "running"}]
  /\ inflight \in [UsedTimers -> 0 .. MaxInflight]
  /\ closed \in BOOLEAN
  /\ m_socket \in [Services -> {"none", "open", "shut"}]
  /\ peer_gone \in [Services -> BOOLEAN]
  /\ listening \in [Services -> BOOLEAN]
  /\ listener \in [Services -> [at : {"none", "loop", "reading", "posting", "ending", "ended"},
                                message : Messages \union {NoMessage}]]
  /\ lines \in 0 .. MaxLines
  /\ late \in Nat

\* No listener is ever inside read, or on its way there, on a descriptor that
\* Stop has closed: Stop wakes the listener and joins it first.
ListenerHasSocket == \A s \in Services :
  listener[s].at \in {"loop", "reading", "posting"} => m_socket[s] # "none"

\* When the Application is destroyed no thread that it or a wrapper can join
\* is left, and no descriptor is open.  (The detached workers are another matter,
\* see NoPostAfterDestruction.)
NothingLeftBehind == main.at = "destroyed" =>
  /\ app_thread.at = "none"
  /\ \A s \in Services : listener[s].at = "none" /\ m_socket[s] = "none"
  /\ m_stopped /\ closed

\* RequestStop is prompt: once it has cleared m_running the application thread
\* handles at most the message it has, whatever the queue still holds.
AtMostOneLateMessage == late <= 1

\* A signal ends the process, wherever each thread is when it comes.
SignalEndsProcess == g_stop_requested ~> process # "running"

\* Shutdown is graceful: stopping does not kill the process.
GracefulShutdown == process # "killed"

\* No timer worker calls into an Application that is gone.
NoPostAfterDestruction ==
  [][main.at = "destroyed" => \A t \in UsedTimers : inflight'[t] >= inflight[t]]_appVars
===============================================================================
