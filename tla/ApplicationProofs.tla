-------------------------- MODULE ApplicationProofs --------------------------
(***************************************************************************)
(* The safety of the lifecycle, for any of the wrappers, any capacity and  *)
(* any number of lines: whatever the threads do when the signal comes, no  *)
(* listener uses a descriptor that is closed, and nothing is left behind.  *)
(***************************************************************************)
EXTENDS Application, ProcessorsProofs

\* Where the main thread is, tells how far the stop has come.
AfterQueueStop == {"shutdown", "join", "close", "joined", "destroyed"}

Phases ==
  /\ main.at = "connect" => app_thread.at = "none"
  /\ main.at = "poll" <=> m_running
  /\ main.at \in AfterQueueStop \union {"queueStop"} => closed
  /\ main.at \in AfterQueueStop => m_stopped
  /\ main.at \in {"joined", "destroyed"} => app_thread.at = "none"

\* StopInternal has gone past the wrapper.
Done(s) ==
  \/ main.at \in {"joined", "destroyed"}
  \/ /\ main.at \in {"shutdown", "join", "close"}
     /\ \A i \in DOMAIN main.todo : main.todo[i] # s

WrappersDone == \A s \in Services :
  Done(s) => listener[s].at = "none" /\ m_socket[s] = "none"

\* The wrapper that is closed has been joined.
JoinedFirst ==
  /\ main.at \in {"join", "close"} => main.todo # <<>>
  /\ main.at = "close" => listener[Head(main.todo)].at = "none"

\* A listener posts what it read, and never anything else.
PostsWhatItRead == \A s \in Services :
  listener[s].at = "posting" => listener[s].message \in Messages

\* The one late message was the last: the application thread is on its way out.
LateIsLast ==
  \/ late = 0
  \/ /\ late = 1
     /\ main.at \notin {"connect", "poll"}
     /\ app_thread.at \in {"none", "loop", "ended"}

AppInv ==
  /\ AppTypeOK /\ Phases /\ WrappersDone /\ JoinedFirst
  /\ PostsWhatItRead /\ ListenerHasSocket /\ LateIsLast

-------------------------------------------------------------------------------
LEMMA OrdersAreComplete ==
  /\ ConnectOrder \in Seq(Services) /\ StopOrder \in Seq(Services)
  /\ \A s \in Services : \E i \in DOMAIN StopOrder : StopOrder[i] = s
<1>1. ASSUME NEW s
      PROVE  /\ InUse(s) \in Seq(Services)
             /\ Len(InUse(s)) \in Nat /\ DOMAIN InUse(s) = 1 .. Len(InUse(s))
             /\ s \in Services => Len(InUse(s)) = 1 /\ InUse(s)[1] = s
  BY DEF InUse
<1>2. ASSUME NEW a \in Seq(Services), NEW b \in Seq(Services)
      PROVE  /\ a \o b \in Seq(Services) /\ DOMAIN (a \o b) = 1 .. Len(a) + Len(b)
             /\ Len(a) \in Nat /\ Len(b) \in Nat
             /\ \A i \in 1 .. Len(a) : (a \o b)[i] = a[i]
             /\ \A i \in 1 .. Len(b) : (a \o b)[Len(a) + i] = b[i]
  <2>1. Len(a) \in Nat /\ Len(b) \in Nat
    BY LenProperties
  <2>2. /\ a \o b \in Seq(Services)
        /\ Len(a \o b) = Len(a) + Len(b)
        /\ \A i \in 1 .. Len(a) + Len(b) :
             (a \o b)[i] = IF i <= Len(a) THEN a[i] ELSE b[i - Len(a)]
    BY ConcatProperties, Zenon
  <2>3. DOMAIN (a \o b) = 1 .. Len(a) + Len(b)
    BY <2>2, LenProperties
  <2> QED
    BY <2>1, <2>2, <2>3
<1> DEFINE In(seq, s) == \E i \in DOMAIN seq : seq[i] = s
<1>3. ASSUME NEW a \in Seq(Services), NEW b \in Seq(Services), NEW s, In(a, s) \/ In(b, s)
      PROVE  In(a \o b, s)
  <2>1. DOMAIN a = 1 .. Len(a) /\ DOMAIN b = 1 .. Len(b)
    BY LenProperties
  <2>2. CASE In(a, s)
    <3>1. PICK i \in 1 .. Len(a) : a[i] = s
      BY <2>1, <2>2
    <3> QED
      BY <1>2, <3>1
  <2>3. CASE In(b, s)
    <3>1. PICK i \in 1 .. Len(b) : b[i] = s
      BY <2>1, <2>3
    <3>2. Len(a) + i \in 1 .. Len(a) + Len(b)
      BY <1>2, <3>1
    <3>3. Len(a) + i \in DOMAIN (a \o b) /\ (a \o b)[Len(a) + i] = b[i]
      BY <1>2, <3>1, <3>2
    <3> QED
      BY <3>1, <3>3, Zenon
  <2> QED
    BY <1>3, <2>2, <2>3
<1>4. \A s \in Services : In(InUse(s), s)
  BY <1>1
<1> HIDE DEF In
<1>5. ConnectOrder \in Seq(Services)
  BY <1>1, <1>2 DEF ConnectOrder
<1>6. StopOrder \in Seq(Services)
  BY <1>1, <1>2 DEF StopOrder
<1>7. ASSUME NEW s \in Services
      PROVE  In(StopOrder, s)
  <2> DEFINE one == InUse("Audio") \o InUse("Hmi")
             two == one \o InUse("Power")
  <2>1. one \in Seq(Services) /\ two \in Seq(Services)
    BY <1>1, <1>2
  <2>2. In(one, s) \/ s = "Power" \/ s = "Region"
    BY <1>1, <1>3, <1>4, LifecycleAssumption
  <2>3. In(two, s) \/ s = "Region"
    <3> HIDE DEF one
    <3> QED
      BY <1>1, <1>3, <1>4, <2>1, <2>2
  <2>4. StopOrder = two \o InUse("Region")
    BY DEF StopOrder
  <2> HIDE DEF two
  <2> QED
    BY <1>1, <1>3, <1>4, <2>1, <2>3, <2>4
<1> QED
  BY <1>5, <1>6, <1>7 DEF In
-------------------------------------------------------------------------------
LEMMA MessagesKnown ==
  /\ \A s \in Services : EventsOf(s) \subseteq Messages
  /\ \A t \in UsedTimers : TimeoutEvent(t) \in Messages
<1>1. ASSUME NEW s \in Services
      PROVE  EventsOf(s) \subseteq Messages
  <2> HIDE DEF EventsOf, TimeoutEvent, UsedTimers
  <2> QED
    BY Zenon DEF Messages
<1>2. ASSUME NEW t \in UsedTimers
      PROVE  TimeoutEvent(t) \in Messages
  <2> HIDE DEF TimeoutEvent, UsedTimers, EventsOf
  <2> QED
    BY Zenon DEF Messages
<1> QED
  BY <1>1, <1>2

LEMMA PostedIsTyped ==
  ASSUME AppTypeOK, NEW m \in Messages, PostEvent(m)
  PROVE  m_queue' \in Seq(Messages) /\ Len(m_queue') <= Capacity /\ m_stopped' = m_stopped
<1>1. m_queue \in Seq(Messages) /\ Len(m_queue) <= Capacity /\ Capacity \in Nat
  BY LifecycleAssumption DEF AppTypeOK
<1>2. Append(m_queue, m) \in Seq(Messages) /\ Len(Append(m_queue, m)) = Len(m_queue) + 1
  BY <1>1, AppendProperties
<1>3. Len(m_queue) \in Nat
  BY <1>1, LenProperties
<1> QED
  BY <1>1, <1>2, <1>3 DEF PostEvent

\* The steps of the main thread.
LEMMA MainThreadTyped == AppTypeOK /\ JoinedFirst /\ MainThread => AppTypeOK'
<1> SUFFICES ASSUME AppTypeOK, JoinedFirst, MainThread
             PROVE  AppTypeOK'
  OBVIOUS
<1> USE DEF AppTypeOK, MainGoes, Thread, timers, queue, wrappers
<1>0. main.todo # <<>> => Head(main.todo) \in Services /\ Tail(main.todo) \in Seq(Services)
  BY HeadTailProperties
<1>1. <<>> \in Seq(Services)
  BY EmptySeq
<1>2. CASE ConnectServices
  <2>1. Head(main.todo) \in Services /\ main' = [at |-> "connect", todo |-> Tail(main.todo)]
    BY <1>0, <1>2 DEF ConnectServices
  <2>2. m_socket' \in [Services -> {"none", "open", "shut"}]
    BY <1>2, <2>1 DEF ConnectServices
  <2>3. listening' \in [Services -> BOOLEAN]
    BY <1>2, <2>1 DEF ConnectServices
  <2>4. listener' \in
          [Services -> [at : {"none", "loop", "reading", "posting", "ending", "ended"},
                        message : Messages \union {NoMessage}]]
    <3> DEFINE L == [at : {"none", "loop", "reading", "posting", "ending", "ended"},
                     message : Messages \union {NoMessage}]
    <3>1. listener \in [Services -> L] /\ Thread("loop") \in L
      OBVIOUS
    <3>2. listener' = [listener EXCEPT ![Head(main.todo)] = Thread("loop")]
          \/ listener' = listener
      BY <1>2 DEF ConnectServices
    <3> HIDE DEF L, Thread
    <3>3. listener' \in [Services -> L]
      BY <3>1, <3>2
    <3> QED
      BY <3>3 DEF L
  <2> QED
    BY <1>0, <1>2, <2>1, <2>2, <2>3, <2>4 DEF ConnectServices
<1>3. CASE Start
  BY <1>1, <1>3 DEF Start
<1>4. CASE RequestStop
  BY <1>1, <1>4 DEF RequestStop
<1>5. CASE TimerStop
  BY <1>1, <1>5 DEF TimerStop, Timer!Close
<1>6. CASE QueueStop
  BY <1>6, OrdersAreComplete DEF QueueStop
<1>7. CASE WrapperShutdown
  BY <1>0, <1>7 DEF WrapperShutdown
<1>8. CASE WrapperJoin
  BY <1>0, <1>8 DEF WrapperJoin
<1>9. CASE WrapperClose
  BY <1>0, <1>9 DEF WrapperClose, JoinedFirst
<1>10. CASE JoinAppThread
  BY <1>1, <1>10 DEF JoinAppThread
<1>11. CASE Destroy
  BY <1>1, <1>11 DEF Destroy
<1>12. CASE Exit
  BY <1>12 DEF Exit
<1> QED
  BY <1>2, <1>3, <1>4, <1>5, <1>6, <1>7, <1>8, <1>9, <1>10, <1>11, <1>12 DEF MainThread

\* The steps of a listener.
ListenerPlaces == {"none", "loop", "reading", "posting", "ending", "ended"}
ListenerRecords == [at : ListenerPlaces, message : Messages \union {NoMessage}]

LEMMA ListenerIsTyped ==
  ASSUME AppTypeOK, NEW s \in Services, NEW place \in ListenerPlaces,
         NEW m \in Messages \union {NoMessage}, ListenerGoes(s, place, m)
  PROVE  listener' \in [Services -> ListenerRecords]
<1>1. listener \in [Services -> ListenerRecords]
  BY DEF AppTypeOK, ListenerRecords, ListenerPlaces
<1>2. [at |-> place, message |-> m] \in ListenerRecords
  BY DEF ListenerRecords
<1> HIDE DEF ListenerRecords
<1> QED
  BY <1>1, <1>2 DEF ListenerGoes

LEMMA ListenersTyped ==
  ASSUME AppTypeOK, PostsWhatItRead, NEW s \in Services,
         ListenerThread(s) \/ ListenerReads(s) \/ ServiceExits(s)
  PROVE  AppTypeOK'
<1> USE LifecycleAssumption
<1>0. listener \in [Services -> ListenerRecords]
  BY DEF AppTypeOK, ListenerRecords, ListenerPlaces
<1>1. NoMessage \in Messages \union {NoMessage} /\ EventsOf(s) \subseteq Messages
  BY MessagesKnown
<1> SUFFICES ASSUME TRUE
             PROVE  /\ listener' \in [Services -> ListenerRecords]
                    /\ m_queue' \in Seq(Messages) /\ Len(m_queue') <= Capacity
                    /\ listening' \in [Services -> BOOLEAN]
                    /\ peer_gone' \in [Services -> BOOLEAN]
                    /\ lines' \in 0 .. MaxLines
                    /\ UNCHANGED <<process, g_stop_requested, main, m_running, m_stopped,
                                  app_thread, m_current_state, timers, m_socket, late>>
  BY DEF AppTypeOK, timers, ListenerRecords, ListenerPlaces
<1> USE DEF OnlyListener, queue
<1>2. CASE ListenerTests(s)
  <2>1. listener' \in [Services -> ListenerRecords]
    BY <1>1, <1>2, ListenerIsTyped DEF ListenerTests, ListenerPlaces
  <2> QED
    BY <1>2, <2>1 DEF ListenerTests, AppTypeOK
<1>3. CASE ListenerReads(s)
  <2>1. PICK m \in EventsOf(s) : ListenerGoes(s, "posting", m) /\ lines < MaxLines
                                /\ lines' = lines + 1
    BY <1>3 DEF ListenerReads
  <2>2. listener' \in [Services -> ListenerRecords]
    BY <1>1, <2>1, ListenerIsTyped DEF ListenerPlaces
  <2> QED
    BY <1>3, <2>1, <2>2 DEF ListenerReads, AppTypeOK
<1>4. CASE ListenerSeesEnd(s)
  <2>1. listener' \in [Services -> ListenerRecords]
    BY <1>1, <1>4, ListenerIsTyped DEF ListenerSeesEnd, ListenerPlaces
  <2> QED
    BY <1>4, <2>1 DEF ListenerSeesEnd, AppTypeOK
<1>5. CASE ListenerPosts(s)
  <2>1. /\ m_queue' \in Seq(Messages) /\ Len(m_queue') <= Capacity
        /\ m_stopped' = m_stopped
    BY <1>5, PostedIsTyped DEF ListenerPosts, PostsWhatItRead
  <2>2. CASE ListenerGoes(s, "loop", NoMessage) /\ UNCHANGED lines
    <3>1. listener' \in [Services -> ListenerRecords]
      BY <1>1, <2>2, ListenerIsTyped DEF ListenerPlaces
    <3> QED
      BY <1>5, <2>1, <2>2, <3>1 DEF ListenerPosts, AppTypeOK
  <2>3. CASE /\ lines < MaxLines /\ lines' = lines + 1
             /\ \E m \in EventsOf(s) : ListenerGoes(s, "posting", m)
    <3>1. listener' \in [Services -> ListenerRecords]
      BY <1>1, <2>3, ListenerIsTyped DEF ListenerPlaces
    <3> QED
      BY <1>5, <2>1, <2>3, <3>1 DEF ListenerPosts, AppTypeOK
  <2> QED
    BY <1>5, <2>2, <2>3 DEF ListenerPosts
<1>6. CASE ListenerEnds(s)
  <2>1. listener' \in [Services -> ListenerRecords]
    BY <1>1, <1>6, ListenerIsTyped DEF ListenerEnds, ListenerPlaces
  <2> QED
    BY <1>6, <2>1 DEF ListenerEnds, AppTypeOK
<1>7. CASE ServiceExits(s)
  BY <1>0, <1>7 DEF ServiceExits, AppTypeOK
<1> QED
  BY <1>2, <1>3, <1>4, <1>5, <1>6, <1>7 DEF ListenerThread

\* The steps of the application thread.
AppPlaces == {"none", "loop", "waiting", "processing", "writing", "ended"}

LEMMA AppThreadTyped == AppTypeOK /\ AppThread => AppTypeOK'
<1> SUFFICES ASSUME AppTypeOK, AppThread
             PROVE  AppTypeOK'
  OBVIOUS
<1>0. Row.next \in States
  <2>1. HandleEvent(TableOf("RegionThree"), m_current_state, app_thread.message).next \in States
    BY ProcessorsKeepStates DEF AppTypeOK
  <2> QED
    BY <2>1 DEF Row, TableOf
<1> DEFINE AppRecords == [at : AppPlaces, message : Messages \union {NoMessage}]
<1>1. app_thread \in AppRecords /\ NoMessage \in Messages \union {NoMessage}
  BY DEF AppTypeOK, AppPlaces
<1>2. ASSUME NEW place \in AppPlaces, NEW m \in Messages \union {NoMessage}, AppGoes(place, m)
      PROVE  app_thread' \in AppRecords /\ process' \in {"running"} \union {process'}
  BY <1>2 DEF AppGoes
<1> SUFFICES /\ process' \in {"running", "exited", "killed"}
             /\ app_thread' \in AppRecords
             /\ m_queue' \in Seq(Messages) /\ Len(m_queue') <= Capacity
             /\ m_current_state' \in States
             /\ status' \in [UsedTimers -> {"idle", "running"}]
             /\ inflight' = inflight /\ closed' = closed
             /\ late' \in Nat
             /\ UNCHANGED <<g_stop_requested, main, m_running, m_stopped, wrappers>>
  BY DEF AppTypeOK, wrappers, AppPlaces
<1> USE DEF OnlyAppThread, timers
<1>3. CASE AppTests
  <2>1. app_thread' \in AppRecords
    BY <1>1, <1>2, <1>3 DEF AppTests, AppPlaces
  <2> QED
    BY <1>3, <2>1 DEF AppTests, AppTypeOK
<1>4. CASE AppPops
  <2>1. Head(m_queue) \in Messages /\ m_queue' \in Seq(Messages) /\ Len(m_queue') <= Capacity
    <3>1. m_queue \in Seq(Messages) /\ m_queue # <<>> /\ Len(m_queue) <= Capacity
          /\ m_queue' = Tail(m_queue) /\ Capacity \in Nat
      BY <1>4, LifecycleAssumption DEF AppPops, AppTypeOK
    <3>2. Len(Tail(m_queue)) = Len(m_queue) - 1 /\ Len(m_queue) \in Nat
      BY <3>1, HeadTailProperties, LenProperties
    <3> QED
      BY <3>1, <3>2, HeadTailProperties
  <2>2. app_thread' \in AppRecords
    BY <1>1, <1>2, <1>4, <2>1 DEF AppPops, AppPlaces
  <2> QED
    BY <1>4, <2>1, <2>2 DEF AppPops, AppTypeOK
<1>5. CASE AppFindsStopped
  <2>1. app_thread' \in AppRecords
    BY <1>1, <1>2, <1>5 DEF AppFindsStopped, AppPlaces
  <2> QED
    BY <1>5, <2>1 DEF AppFindsStopped, AppTypeOK
<1>6. ASSUME Handled
      PROVE  app_thread' \in AppRecords /\ m_current_state' \in States /\ late' \in Nat
  BY <1>0, <1>1, <1>2, <1>6 DEF Handled, AppTypeOK, AppPlaces
<1>7. CASE ProcessMessage
  <2>1. ASSUME NEW t \in UsedTimers, StartTimer(t)
        PROVE  /\ status' \in [UsedTimers -> {"idle", "running"}]
               /\ inflight' = inflight /\ closed' = closed
    BY <2>1 DEF StartTimer, Timer!Arm, AppTypeOK
  <2>2. /\ status' \in [UsedTimers -> {"idle", "running"}]
        /\ inflight' = inflight /\ closed' = closed
    <3>1. StopTimer \in UsedTimers /\ RecoveryTimer \in UsedTimers
      BY DEF UsedTimers
    <3>2. \/ StartTimer(StopTimer) \/ StartTimer(RecoveryTimer)
          \/ status' = [t \in UsedTimers |-> "idle"] /\ UNCHANGED <<inflight, closed>>
          \/ UNCHANGED timers
      <4> HIDE DEF timers
      <4> QED
        BY <1>7 DEF ProcessMessage
    <3>3. CASE status' = [t \in UsedTimers |-> "idle"] /\ UNCHANGED <<inflight, closed>>
      BY <3>3
    <3>4. CASE UNCHANGED timers
      BY <3>4 DEF AppTypeOK
    <3> QED
      BY <2>1, <3>1, <3>2, <3>3, <3>4
  <2> QED
    BY <1>6, <1>7, <2>2 DEF ProcessMessage, AppTypeOK
<1>8. CASE RequestPlayStopCompletedSound
  <2>1. app_thread' \in AppRecords
    BY <1>1, <1>2, <1>8 DEF RequestPlayStopCompletedSound, AppPlaces
  <2> QED
    BY <1>8, <2>1 DEF RequestPlayStopCompletedSound, AppTypeOK
<1>9. CASE AppWrites
  BY <1>6, <1>9 DEF AppWrites, AppTypeOK
<1>10. CASE AppIsKilled
  BY <1>1, <1>10 DEF AppIsKilled, AppTypeOK
<1> QED
  BY <1>3, <1>4, <1>5, <1>7, <1>8, <1>9, <1>10 DEF AppThread

LEMMA TimersTyped ==
  ASSUME AppTypeOK, NEW t \in UsedTimers, TimerExpires(t) \/ WorkerPosts(t)
  PROVE  AppTypeOK'
<1> USE LifecycleAssumption
<1>1. CASE TimerExpires(t)
  <2>1. inflight' \in [UsedTimers -> 0 .. MaxInflight]
        /\ status' \in [UsedTimers -> {"idle", "running"}] /\ closed' = closed
    BY <1>1 DEF TimerExpires, Timer!Expire, AppTypeOK
  <2> QED
    BY <1>1, <2>1 DEF TimerExpires, AppTypeOK, queue, wrappers
<1>2. CASE WorkerPosts(t)
  <2>1. inflight' \in [UsedTimers -> 0 .. MaxInflight] /\ status' = status /\ closed' = closed
    BY <1>2 DEF WorkerPosts, Timer!Deliver, AppTypeOK
  <2>2. m_queue' \in Seq(Messages) /\ Len(m_queue') <= Capacity /\ m_stopped' = m_stopped
    BY <1>2, MessagesKnown, PostedIsTyped DEF WorkerPosts
  <2> QED
    BY <1>2, <2>1, <2>2 DEF WorkerPosts, AppTypeOK, wrappers
<1> QED
  BY <1>1, <1>2

LEMMA AppInitTyped == AppInit => AppTypeOK
<1> SUFFICES ASSUME AppInit
             PROVE  AppTypeOK
  OBVIOUS
<1>1. Capacity \in Nat /\ 0 \in 0 .. MaxLines /\ 0 \in 0 .. MaxInflight
  BY LifecycleAssumption
<1>2. main.at = "connect" /\ main.todo \in Seq(Services)
  BY OrdersAreComplete DEF AppInit
<1>3. m_queue \in Seq(Messages) /\ Len(m_queue) <= Capacity
  <2>1. m_queue = <<>>
    BY DEF AppInit
  <2> QED
    BY <1>1, <2>1, EmptySeq
<1>4. /\ status \in [UsedTimers -> {"idle", "running"}]
      /\ inflight \in [UsedTimers -> 0 .. MaxInflight] /\ closed = FALSE
  BY <1>1 DEF AppInit, Timer!ContractInit
<1>5. /\ app_thread = [at |-> "none", message |-> NoMessage]
      /\ listener = [s \in Services |-> [at |-> "none", message |-> NoMessage]]
      /\ m_socket = [s \in Services |-> "none"] /\ m_current_state = "Idle"
  BY DEF AppInit, Thread
<1>6. /\ process = "running" /\ g_stop_requested = FALSE /\ m_running = FALSE
      /\ m_stopped = FALSE /\ peer_gone = [s \in Services |-> FALSE]
      /\ listening = [s \in Services |-> FALSE] /\ lines = 0 /\ late = 0
  BY DEF AppInit
<1> QED
  BY <1>1, <1>2, <1>3, <1>4, <1>5, <1>6 DEF AppTypeOK, States

LEMMA AppStepTyped == AppInv /\ [AppNext]_appVars => AppTypeOK'
<1> SUFFICES ASSUME AppInv, [AppNext]_appVars
             PROVE  AppTypeOK'
  OBVIOUS
<1>0. AppTypeOK /\ PostsWhatItRead /\ JoinedFirst
  BY DEF AppInv
<1>1. CASE MainThread
  BY <1>0, <1>1, MainThreadTyped
<1>2. CASE SignalHandler
  BY <1>0, <1>2 DEF SignalHandler, AppTypeOK, queue, timers, wrappers
<1>3. CASE AppThread
  BY <1>0, <1>3, AppThreadTyped
<1>4. CASE \E s \in Services : ListenerThread(s) \/ ListenerReads(s) \/ ServiceExits(s)
  BY <1>0, <1>4, ListenersTyped
<1>5. CASE \E t \in UsedTimers : TimerExpires(t) \/ WorkerPosts(t)
  BY <1>0, <1>5, TimersTyped
<1>6. CASE UNCHANGED appVars
  BY <1>0, <1>6 DEF AppTypeOK, appVars, queue, timers, wrappers
<1> QED
  BY <1>1, <1>2, <1>3, <1>4, <1>5, <1>6 DEF AppNext

-------------------------------------------------------------------------------
\* The steps of the main thread take the stop from phase to phase.
LEMMA MainThreadPhases == AppInv /\ MainThread => Phases' /\ JoinedFirst' /\ LateIsLast'
<1> SUFFICES ASSUME AppInv, MainThread
             PROVE  Phases' /\ JoinedFirst' /\ LateIsLast'
  OBVIOUS
<1>0. AppTypeOK /\ Phases /\ JoinedFirst /\ LateIsLast
  BY DEF AppInv
<1> USE DEF Phases, JoinedFirst, LateIsLast, AfterQueueStop, MainGoes, queue, timers, wrappers
<1>1. CASE ConnectServices
  BY <1>0, <1>1 DEF ConnectServices
<1>2. CASE Start
  BY <1>0, <1>2 DEF Start
<1>3. CASE RequestStop
  BY <1>0, <1>3 DEF RequestStop
<1>4. CASE TimerStop
  BY <1>0, <1>4 DEF TimerStop, Timer!Close
<1>5. CASE QueueStop
  BY <1>0, <1>5 DEF QueueStop
<1>6. CASE WrapperShutdown
  BY <1>0, <1>6 DEF WrapperShutdown
<1>7. CASE WrapperJoin
  <2>1. Head(main.todo) \in Services
    BY <1>0, <1>7, HeadTailProperties DEF WrapperJoin, AppTypeOK
  <2>2. listener'[Head(main.todo)] = Thread("none")
    BY <1>0, <1>7, <2>1 DEF WrapperJoin, AppTypeOK
  <2>3. main' = [at |-> "close", todo |-> main.todo]
    BY <1>7 DEF WrapperJoin
  <2> QED
    BY <1>0, <1>7, <2>2, <2>3 DEF WrapperJoin, Thread
<1>8. CASE WrapperClose
  BY <1>0, <1>8 DEF WrapperClose
<1>9. CASE JoinAppThread
  BY <1>0, <1>9 DEF JoinAppThread, Thread
<1>10. CASE Destroy
  BY <1>0, <1>10 DEF Destroy
<1>11. CASE Exit
  BY <1>0, <1>11 DEF Exit
<1> QED
  BY <1>1, <1>2, <1>3, <1>4, <1>5, <1>6, <1>7, <1>8, <1>9, <1>10, <1>11 DEF MainThread

\* They leave a wrapper behind only once it is joined and closed.
LEMMA MainThreadWrappers ==
  AppInv /\ MainThread => WrappersDone' /\ ListenerHasSocket' /\ PostsWhatItRead'
<1> SUFFICES ASSUME AppInv, MainThread, NEW s \in Services
             PROVE  /\ Done(s)' => listener'[s].at = "none" /\ m_socket'[s] = "none"
                    /\ listener'[s].at \in {"loop", "reading", "posting"} => m_socket'[s] # "none"
                    /\ listener'[s].at = "posting" => listener'[s].message \in Messages
  BY DEF WrappersDone, ListenerHasSocket, PostsWhatItRead
<1>0. /\ AppTypeOK /\ JoinedFirst
      /\ Done(s) => listener[s].at = "none" /\ m_socket[s] = "none"
      /\ listener[s].at \in {"loop", "reading", "posting"} => m_socket[s] # "none"
      /\ listener[s].at = "posting" => listener[s].message \in Messages
  BY DEF AppInv, WrappersDone, ListenerHasSocket, PostsWhatItRead
<1> DEFINE first == Head(main.todo)
<1>1. ASSUME main.todo # <<>>
      PROVE  /\ first \in Services /\ \E i \in DOMAIN main.todo : main.todo[i] = first
             /\ \A i \in DOMAIN main.todo :
                  main.todo[i] = first \/ \E j \in DOMAIN Tail(main.todo) :
                                            Tail(main.todo)[j] = main.todo[i]
  <2>1. main.todo \in Seq(Services) /\ main.todo # <<>>
    BY <1>0, <1>1 DEF AppTypeOK
  <2>2. /\ DOMAIN main.todo = 1 .. Len(main.todo) /\ Len(main.todo) \in Nat
        /\ Len(main.todo) > 0 /\ first = main.todo[1]
    BY <2>1, LenProperties, EmptySeq
  <2>3. /\ DOMAIN Tail(main.todo) = 1 .. Len(main.todo) - 1
        /\ \A j \in 1 .. Len(main.todo) - 1 : Tail(main.todo)[j] = main.todo[j + 1]
    BY <2>1, <2>2, HeadTailProperties, LenProperties
  <2>4. ASSUME NEW i \in DOMAIN main.todo, i # 1
        PROVE  i - 1 \in DOMAIN Tail(main.todo) /\ Tail(main.todo)[i - 1] = main.todo[i]
    BY <2>2, <2>3, <2>4
  <2> QED
    BY <2>1, <2>2, <2>4, HeadTailProperties
<1> USE DEF MainGoes, queue, timers, wrappers
<1>2. CASE ConnectServices
  <2>1. main'.at = "connect" /\ main.todo # <<>>
    BY <1>2 DEF ConnectServices
  <2>2. CASE /\ m_socket' = [m_socket EXCEPT ![first] = "open"]
             /\ listener' = [listener EXCEPT ![first] = Thread("loop")]
    BY <1>0, <1>1, <2>1, <2>2 DEF AppTypeOK, Thread, Done
  <2>3. CASE UNCHANGED <<m_socket, listening, listener>>
    BY <1>0, <2>1, <2>3 DEF Done
  <2> QED
    BY <1>2, <2>2, <2>3 DEF ConnectServices
<1>3. CASE Start \/ RequestStop \/ TimerStop
  <2>1. main'.at \in {"poll", "timerStop", "queueStop"}
        /\ m_socket' = m_socket /\ listener' = listener
    BY <1>3 DEF Start, RequestStop, TimerStop
  <2> QED
    BY <1>0, <2>1 DEF Done
<1>4. CASE QueueStop
  <2>1. main' = [at |-> "shutdown", todo |-> StopOrder]
        /\ m_socket' = m_socket /\ listener' = listener
    BY <1>4 DEF QueueStop
  <2>2. ~Done(s)'
    BY <2>1, OrdersAreComplete DEF Done
  <2> QED
    BY <1>0, <2>1, <2>2
<1>5. CASE WrapperShutdown
  <2>1. main' = [at |-> "join", todo |-> main.todo] /\ listener' = listener
        /\ main.at = "shutdown" /\ main.todo # <<>>
        /\ m_socket' = [m_socket EXCEPT ![first] =
                          IF listening[first] /\ @ # "none" THEN "shut" ELSE @]
    BY <1>5 DEF WrapperShutdown
  <2>2. Done(s)' <=> Done(s)
    BY <2>1 DEF Done
  <2>3. m_socket'[s] = "none" <=> m_socket[s] = "none"
    BY <1>0, <1>1, <2>1 DEF AppTypeOK
  <2> QED
    BY <1>0, <2>1, <2>2, <2>3
<1>6. CASE WrapperJoin
  <2>1. main' = [at |-> "close", todo |-> main.todo] /\ m_socket' = m_socket
        /\ main.at = "join" /\ listener' = [listener EXCEPT ![first] = Thread("none")]
    BY <1>6 DEF WrapperJoin
  <2>2. Done(s)' <=> Done(s)
    BY <2>1 DEF Done
  <2>3. listener'[s] = listener[s] \/ listener'[s].at = "none"
    BY <1>0, <2>1 DEF AppTypeOK, Thread
  <2> QED
    BY <1>0, <2>1, <2>2, <2>3
<1>7. CASE WrapperClose
  <2>1. main' = [at |-> "shutdown", todo |-> Tail(main.todo)] /\ listener' = listener
        /\ main.at = "close" /\ m_socket' = [m_socket EXCEPT ![first] = "none"]
        /\ main.todo # <<>> /\ listener[first].at = "none"
    BY <1>0, <1>7 DEF WrapperClose, JoinedFirst
  <2>2. CASE s = first
    <3>1. m_socket'[s] = "none"
      BY <1>0, <2>1, <2>2 DEF AppTypeOK
    <3> QED
      BY <2>1, <2>2, <3>1
  <2>3. CASE s # first
    <3>1. m_socket'[s] = m_socket[s]
      BY <1>0, <2>1, <2>3 DEF AppTypeOK
    <3>2. Done(s)' => Done(s)
      BY <1>1, <2>1, <2>3 DEF Done
    <3> QED
      BY <1>0, <2>1, <3>1, <3>2
  <2> QED
    BY <2>2, <2>3
<1>8. CASE JoinAppThread \/ Destroy \/ Exit
  <2>1. m_socket' = m_socket /\ listener' = listener
    BY <1>8 DEF JoinAppThread, Destroy, Exit
  <2>2. Done(s)
    BY <1>8 DEF JoinAppThread, Destroy, Exit, Done
  <2> QED
    BY <1>0, <2>1, <2>2
<1> QED
  BY <1>2, <1>3, <1>4, <1>5, <1>6, <1>7, <1>8 DEF MainThread

-------------------------------------------------------------------------------
\* A listener that is gone does not come back, and one that goes on keeps its socket.
LEMMA ListenersKeep ==
  ASSUME AppInv, NEW s \in Services,
         ListenerThread(s) \/ ListenerReads(s) \/ ServiceExits(s)
  PROVE  /\ Phases' /\ WrappersDone' /\ JoinedFirst' /\ LateIsLast'
         /\ PostsWhatItRead' /\ ListenerHasSocket'
<1>0. /\ AppTypeOK /\ Phases /\ WrappersDone /\ JoinedFirst /\ LateIsLast
      /\ PostsWhatItRead /\ ListenerHasSocket
  BY DEF AppInv
<1>1. /\ main' = main /\ m_running' = m_running /\ m_stopped' = m_stopped
      /\ app_thread' = app_thread /\ closed' = closed /\ late' = late
      /\ m_socket' = m_socket
  BY DEF ListenerThread, ListenerTests, ListenerReads, ListenerSeesEnd, ListenerPosts,
         ListenerEnds, ServiceExits, OnlyListener, PostEvent, queue, timers
<1>2. \/ listener' = listener
      \/ \E r \in ListenerRecords :
           /\ listener' = [listener EXCEPT ![s] = r]
           /\ r.at # "none" /\ listener[s].at # "none"
           /\ r.at = "posting" => r.message \in Messages
           /\ r.at \in {"loop", "reading", "posting"} =>
                listener[s].at \in {"loop", "reading", "posting"}
  <2> DEFINE Goes(r) ==
        /\ r \in ListenerRecords /\ listener' = [listener EXCEPT ![s] = r]
        /\ r.at # "none" /\ listener[s].at # "none"
        /\ r.at = "posting" => r.message \in Messages
        /\ r.at \in {"loop", "reading", "posting"} =>
             listener[s].at \in {"loop", "reading", "posting"}
  <2>1. ASSUME NEW place \in ListenerPlaces \ {"none"}, NEW m \in Messages \union {NoMessage},
               ListenerGoes(s, place, m), listener[s].at # "none",
               place = "posting" => m \in Messages,
               place \in {"loop", "reading", "posting"} =>
                 listener[s].at \in {"loop", "reading", "posting"}
        PROVE  \E r \in ListenerRecords : Goes(r)
    <3>1. [at |-> place, message |-> m] \in ListenerRecords
      BY DEF ListenerRecords
    <3>2. Goes([at |-> place, message |-> m])
      BY <2>1, <3>1 DEF ListenerGoes
    <3> QED
      BY <3>1, <3>2
  <2>2. ASSUME NEW m \in EventsOf(s), ListenerGoes(s, "posting", m),
               listener[s].at \in {"reading", "posting"}
        PROVE  \E r \in ListenerRecords : Goes(r)
    <3>1. m \in Messages
      BY MessagesKnown
    <3> HIDE DEF Goes
    <3> QED
      BY <2>1, <2>2, <3>1 DEF ListenerPlaces
  <2>3. ASSUME NEW place \in {"loop", "reading", "ending", "ended"},
               ListenerGoes(s, place, NoMessage), listener[s].at # "none",
               place \in {"loop", "reading"} =>
                 listener[s].at \in {"loop", "reading", "posting"}
        PROVE  \E r \in ListenerRecords : Goes(r)
    <3> HIDE DEF Goes
    <3> QED
      BY <2>1, <2>3 DEF ListenerPlaces
  <2> SUFFICES ASSUME listener' # listener
               PROVE  \E r \in ListenerRecords : Goes(r)
    OBVIOUS
  <2> HIDE DEF Goes
  <2>4. CASE ListenerTests(s)
    BY <2>3, <2>4 DEF ListenerTests
  <2>5. CASE ListenerReads(s)
    BY <2>2, <2>5 DEF ListenerReads
  <2>6. CASE ListenerSeesEnd(s)
    BY <2>3, <2>6 DEF ListenerSeesEnd
  <2>7. CASE ListenerPosts(s)
    BY <2>2, <2>3, <2>7 DEF ListenerPosts
  <2>8. CASE ListenerEnds(s)
    BY <2>3, <2>8 DEF ListenerEnds
  <2>9. CASE ServiceExits(s)
    BY <2>9 DEF ServiceExits
  <2> QED
    BY <2>4, <2>5, <2>6, <2>7, <2>8, <2>9 DEF ListenerThread
<1>3. Phases' /\ LateIsLast'
  BY <1>0, <1>1 DEF Phases, LateIsLast
<1>4. ASSUME NEW x \in Services
      PROVE  /\ listener[x].at = "none" => listener'[x].at = "none"
             /\ listener'[x].at \in {"loop", "reading", "posting"} =>
                  listener[x].at \in {"loop", "reading", "posting"}
             /\ listener'[x].at = "posting" => listener'[x].message \in Messages
  BY <1>0, <1>2 DEF AppTypeOK, PostsWhatItRead
<1>5. JoinedFirst'
  <2>1. main.todo # <<>> => Head(main.todo) \in Services
    BY <1>0, HeadTailProperties DEF AppTypeOK
  <2> QED
    BY <1>0, <1>1, <1>4, <2>1 DEF JoinedFirst
<1>6. WrappersDone'
  BY <1>0, <1>1, <1>4 DEF WrappersDone, Done
<1>7. PostsWhatItRead' /\ ListenerHasSocket'
  BY <1>0, <1>1, <1>4 DEF PostsWhatItRead, ListenerHasSocket
<1> QED
  BY <1>3, <1>5, <1>6, <1>7

\* The application thread handles one message, at most, once m_running is false.
LEMMA AppThreadKeeps ==
  AppInv /\ AppThread => /\ Phases' /\ WrappersDone' /\ JoinedFirst' /\ LateIsLast'
                         /\ PostsWhatItRead' /\ ListenerHasSocket'
<1> SUFFICES ASSUME AppInv, AppThread
             PROVE  /\ Phases' /\ WrappersDone' /\ JoinedFirst' /\ LateIsLast'
                    /\ PostsWhatItRead' /\ ListenerHasSocket'
  OBVIOUS
<1>0. /\ AppTypeOK /\ Phases /\ WrappersDone /\ JoinedFirst /\ LateIsLast
      /\ PostsWhatItRead /\ ListenerHasSocket
  BY DEF AppInv
<1>1. /\ main' = main /\ m_running' = m_running /\ m_stopped' = m_stopped
      /\ listener' = listener /\ m_socket' = m_socket
  BY DEF AppThread, AppTests, AppPops, AppFindsStopped, ProcessMessage,
         RequestPlayStopCompletedSound, AppWrites, AppIsKilled, OnlyAppThread, wrappers
<1>2. closed' = closed
  BY DEF AppThread, AppTests, AppPops, AppFindsStopped, ProcessMessage, StartTimer,
         Timer!Arm, RequestPlayStopCompletedSound, AppWrites, AppIsKilled, timers
<1>3. app_thread.at # "none" /\ (app_thread'.at # "none" \/ app_thread' = app_thread)
  BY DEF AppThread, AppTests, AppPops, AppFindsStopped, ProcessMessage, AppGoes, Handled,
         RequestPlayStopCompletedSound, AppWrites, AppIsKilled, timers
<1>4. WrappersDone' /\ JoinedFirst' /\ PostsWhatItRead' /\ ListenerHasSocket'
  BY <1>0, <1>1 DEF WrappersDone, Done, JoinedFirst, PostsWhatItRead, ListenerHasSocket
<1>5. Phases'
  BY <1>0, <1>1, <1>2, <1>3 DEF Phases
<1>6. LateIsLast'
  <2>1. CASE AppTests
    BY <1>0, <1>1, <2>1 DEF AppTests, AppGoes, LateIsLast, Phases
  <2>2. CASE AppPops \/ AppFindsStopped
    BY <1>0, <2>2 DEF AppPops, AppFindsStopped, LateIsLast
  <2>3. CASE ProcessMessage \/ AppWrites
    <3>1. late = 0 /\ Handled /\ app_thread.at \notin {"none", "loop", "ended"}
      BY <1>0, <2>3 DEF ProcessMessage, AppWrites, LateIsLast
    <3>2. main.at \notin {"connect", "poll"} \/ late' = 0
      BY <1>0, <3>1 DEF Handled, Phases
    <3> QED
      BY <1>0, <1>1, <3>1, <3>2 DEF Handled, AppGoes, LateIsLast
  <2>4. CASE RequestPlayStopCompletedSound \/ AppIsKilled
    BY <1>0, <2>4 DEF RequestPlayStopCompletedSound, AppIsKilled, LateIsLast
  <2> QED
    BY <2>1, <2>2, <2>3, <2>4 DEF AppThread
<1> QED
  BY <1>4, <1>5, <1>6

\* AppInv is inductive: StopInternal goes forward only, and a wrapper it has gone
\* past stays as it was left.
THEOREM AppInvariance == AppSafetySpec => []AppInv
<1>1. AppInit => AppInv
  <2> SUFFICES ASSUME AppInit
               PROVE  AppInv
    OBVIOUS
  <2>1. main.at = "connect" /\ ~m_running /\ late = 0 /\ app_thread.at = "none"
        /\ \A s \in Services : listener[s].at = "none"
    BY DEF AppInit, Thread
  <2> QED
    BY <2>1, AppInitTyped DEF AppInv, Phases, AfterQueueStop, WrappersDone, Done, JoinedFirst,
                              PostsWhatItRead, ListenerHasSocket, LateIsLast
<1>2. AppInv /\ [AppNext]_appVars => AppInv'
  <2> SUFFICES ASSUME AppInv, [AppNext]_appVars
               PROVE  AppInv'
    OBVIOUS
  <2>0. AppTypeOK'
    BY AppStepTyped
  <2>1. CASE MainThread
    BY <2>0, <2>1, MainThreadPhases, MainThreadWrappers DEF AppInv
  <2>2. CASE AppThread
    BY <2>0, <2>2, AppThreadKeeps DEF AppInv
  <2>3. CASE \E s \in Services : ListenerThread(s) \/ ListenerReads(s) \/ ServiceExits(s)
    BY <2>0, <2>3, ListenersKeep DEF AppInv
  <2>4. ASSUME UNCHANGED <<main, m_running, m_stopped, app_thread, closed, late,
                           m_socket, listener>>
        PROVE  AppInv'
    BY <2>0, <2>4 DEF AppInv, Phases, WrappersDone, Done, JoinedFirst, PostsWhatItRead,
                      ListenerHasSocket, LateIsLast
  <2>5. CASE SignalHandler
    BY <2>4, <2>5 DEF SignalHandler, queue, timers, wrappers
  <2>6. CASE \E t \in UsedTimers : TimerExpires(t) \/ WorkerPosts(t)
    BY <2>4, <2>6 DEF TimerExpires, WorkerPosts, Timer!Expire, Timer!Deliver, PostEvent,
                      queue, wrappers
  <2>7. CASE UNCHANGED appVars
    BY <2>4, <2>7 DEF appVars, queue, timers, wrappers
  <2> QED
    BY <2>1, <2>2, <2>3, <2>5, <2>6, <2>7 DEF AppNext
<1> QED
  BY <1>1, <1>2, PTL DEF AppSafetySpec

-------------------------------------------------------------------------------
\* Every variable keeps its type; the queue never holds more than Capacity messages,
\* and its messages are events the table knows (Application).
THEOREM AppTypeCorrect == AppSafetySpec => []AppTypeOK
<1>1. AppInv => AppTypeOK
  BY DEF AppInv
<1> QED
  BY <1>1, AppInvariance, PTL

\* A listener thread inside read has a descriptor that Stop has not closed
\* (StopListening and Stop of the wrappers).
THEOREM ListenersHaveSockets == AppSafetySpec => []ListenerHasSocket
<1>1. AppInv => ListenerHasSocket
  BY DEF AppInv
<1> QED
  BY <1>1, AppInvariance, PTL

\* StopInternal leaves no thread to join, no open descriptor, no running timer and no
\* open queue behind, wherever each thread was when the signal came.
THEOREM NothingIsLeftBehind == AppSafetySpec => []NothingLeftBehind
<1>1. AppInv => NothingLeftBehind
  BY DEF AppInv, Phases, AfterQueueStop, WrappersDone, Done, NothingLeftBehind
<1> QED
  BY <1>1, AppInvariance, PTL

\* After RequestStop the application thread handles at most one message, although the
\* queue may be full (AppThreadLoop tests m_running before each wait).
THEOREM OneLateMessage == AppSafetySpec => []AtMostOneLateMessage
<1>1. AppInv => AtMostOneLateMessage
  BY DEF AppInv, LateIsLast, AtMostOneLateMessage
<1> QED
  BY <1>1, AppInvariance, PTL

==============================================================================
