----------------------------- MODULE MessageQueue -----------------------------
(***************************************************************************)
(* MessageQueue<T> of Application/utils: a bounded queue under one mutex   *)
(* and one condition variable.  Any number of producers call Push, one     *)
(* thread (the application thread) calls WaitAndPop in a loop that tests   *)
(* m_running of the Application before each call, and Stop is called, any  *)
(* number of times, by the thread that has cleared m_running.              *)
(*                                                                         *)
(* What happens under m_mutex is one step.  Push and Stop signal m_cv only *)
(* after the lock scope closed, so the signal is a step of its own, and    *)
(* everything may happen between the two.                                  *)
(***************************************************************************)
EXTENDS Naturals, Sequences

CONSTANTS
  Producers,    \* threads that call Push: the listeners and the timer workers
  Items,        \* the messages
  Capacity,     \* m_queue_size
  MaxAccepted   \* bounds the model: messages accepted over a behaviour

ASSUME QueueAssumption == Capacity \in Nat /\ MaxAccepted \in Nat

VARIABLES
  m_queue,
  m_stopped,
  m_running,  \* of the Application: the loop around WaitAndPop goes on
  producer,   \* "out", or "notify": left the lock scope of Push, not yet signalled
  stopper,    \* the same for the thread in Stop
  consumer,   \* where the application thread is
  accepted,   \* history: every message Push stored, in order
  delivered   \* history: every message WaitAndPop returned, in order

queueVars == <<m_queue, m_stopped, m_running, producer, stopper, consumer, accepted,
               delivered>>

\* "loop"    at the test of m_running
\* "calling" at the first line of WaitAndPop
\* "asleep"  in the wait set of m_cv
\* "awake"   signalled, and waiting for the mutex to test the predicate again
\* "ended"   out of the loop, as WaitAndPop returned false
\* "left"    out of the loop, as m_running was cleared
ConsumerPlaces == {"loop", "calling", "asleep", "awake", "ended", "left"}

QueueInit ==
  /\ m_queue = <<>>
  /\ m_stopped = FALSE
  /\ m_running = TRUE
  /\ producer = [p \in Producers |-> "out"]
  /\ stopper = "out"
  /\ consumer = "loop"
  /\ accepted = <<>>
  /\ delivered = <<>>

-------------------------------------------------------------------------------
\* Fault: the predicate forgets the stop.
ReadyFault == m_queue # <<>>

\* The predicate of m_cv.wait.
Ready == m_stopped \/ m_queue # <<>>

\* Fault: the test for a full queue is off by one.
HasRoomFault == Len(m_queue) <= Capacity

HasRoom == Len(m_queue) < Capacity

PushStores(p, item) ==
  /\ producer[p] = "out"
  /\ ~m_stopped
  /\ HasRoom
  /\ Len(accepted) < MaxAccepted
  /\ m_queue' = Append(m_queue, item)
  /\ accepted' = Append(accepted, item)
  /\ producer' = [producer EXCEPT ![p] = "notify"]
  /\ UNCHANGED <<m_stopped, m_running, stopper, consumer, delivered>>

\* The two early returns of Push: the caller is not told and no one is signalled.
PushReturns(p) ==
  /\ producer[p] = "out"
  /\ m_stopped \/ ~HasRoom
  /\ UNCHANGED queueVars

\* notify_one and notify_all: one thread at most ever sleeps on m_cv.
SignalConsumer ==
  consumer' = IF consumer = "asleep" THEN "awake" ELSE consumer

\* Fault: Push forgets notify_one.
PushNotifiesFault(p) ==
  /\ producer[p] = "notify"
  /\ producer' = [producer EXCEPT ![p] = "out"]
  /\ UNCHANGED <<m_queue, m_stopped, m_running, stopper, consumer, accepted, delivered>>

PushNotifies(p) ==
  /\ producer[p] = "notify"
  /\ producer' = [producer EXCEPT ![p] = "out"]
  /\ SignalConsumer
  /\ UNCHANGED <<m_queue, m_stopped, m_running, stopper, accepted, delivered>>

\* RequestStop clears m_running before it calls Stop.
RequestStopClears ==
  /\ m_running
  /\ m_running' = FALSE
  /\ UNCHANGED <<m_queue, m_stopped, producer, stopper, consumer, accepted, delivered>>

\* Fault: Stop throws away what is queued.
StopSetsFault ==
  /\ ~m_running
  /\ stopper = "out"
  /\ m_stopped' = TRUE
  /\ m_queue' = <<>>
  /\ stopper' = "notify"
  /\ UNCHANGED <<m_running, producer, consumer, accepted, delivered>>

StopSets ==
  /\ ~m_running
  /\ stopper = "out"
  /\ m_stopped' = TRUE
  /\ stopper' = "notify"
  /\ UNCHANGED <<m_queue, m_running, producer, consumer, accepted, delivered>>

\* Fault: Stop forgets notify_all.
StopNotifiesFault ==
  /\ stopper = "notify"
  /\ stopper' = "out"
  /\ UNCHANGED <<m_queue, m_stopped, m_running, producer, consumer, accepted, delivered>>

StopNotifies ==
  /\ stopper = "notify"
  /\ stopper' = "out"
  /\ SignalConsumer
  /\ UNCHANGED <<m_queue, m_stopped, m_running, producer, accepted, delivered>>

-------------------------------------------------------------------------------
\* AppThreadLoop: what is queued when m_running has been cleared stays there.
LoopTests ==
  /\ consumer = "loop"
  /\ consumer' = IF m_running THEN "calling" ELSE "left"
  /\ UNCHANGED <<m_queue, m_stopped, m_running, producer, stopper, accepted, delivered>>

\* WaitAndPop holds the mutex, on entry or after a wake-up, and tests Ready.
HoldsMutex == consumer \in {"calling", "awake"}

WaitSleeps ==
  /\ HoldsMutex
  /\ ~Ready
  /\ consumer' = "asleep"
  /\ UNCHANGED <<m_queue, m_stopped, m_running, producer, stopper, accepted, delivered>>

\* Fault: WaitAndPop gives up on a stopped queue before it is drained.
WaitReturnsFalseFault ==
  /\ HoldsMutex
  /\ m_stopped
  /\ consumer' = "ended"
  /\ UNCHANGED <<m_queue, m_stopped, m_running, producer, stopper, accepted, delivered>>

\* A stopped queue is drained first: false is returned only once it is empty.
WaitReturnsFalse ==
  /\ HoldsMutex
  /\ m_stopped /\ m_queue = <<>>
  /\ consumer' = "ended"
  /\ UNCHANGED <<m_queue, m_stopped, m_running, producer, stopper, accepted, delivered>>

WaitPops ==
  /\ HoldsMutex
  /\ m_queue # <<>>
  /\ m_queue' = Tail(m_queue)
  /\ delivered' = Append(delivered, Head(m_queue))
  /\ consumer' = "loop"
  /\ UNCHANGED <<m_stopped, m_running, producer, stopper, accepted>>

WaitAndPop == WaitSleeps \/ WaitReturnsFalse \/ WaitPops

\* A condition variable may wake a thread that nobody signalled.
SpuriousWakeup ==
  /\ consumer = "asleep"
  /\ consumer' = "awake"
  /\ UNCHANGED <<m_queue, m_stopped, m_running, producer, stopper, accepted, delivered>>

QueueNext ==
  \/ \E p \in Producers :
       \/ \E item \in Items : PushStores(p, item)
       \/ PushReturns(p)
       \/ PushNotifies(p)
  \/ RequestStopClears
  \/ StopSets
  \/ StopNotifies
  \/ LoopTests
  \/ WaitAndPop
  \/ SpuriousWakeup

\* A thread that is inside a call finishes it, and the application thread runs its
\* loop.  Nobody has to push, and nobody has to stop the queue.
QueueFairness ==
  /\ \A p \in Producers : WF_queueVars(PushNotifies(p))
  /\ WF_queueVars(StopNotifies)
  /\ WF_queueVars(LoopTests)
  /\ WF_queueVars(WaitAndPop)

QueueSafetySpec == QueueInit /\ [][QueueNext]_queueVars

QueueSpec == QueueSafetySpec /\ QueueFairness

-------------------------------------------------------------------------------
QueueTypeOK ==
  /\ m_queue \in Seq(Items)
  /\ Len(m_queue) <= Capacity
  /\ m_stopped \in BOOLEAN
  /\ m_running \in BOOLEAN
  /\ producer \in [Producers -> {"out", "notify"}]
  /\ stopper \in {"out", "notify"}
  /\ consumer \in ConsumerPlaces
  /\ accepted \in Seq(Items)
  /\ delivered \in Seq(Items)

\* Nothing accepted is lost, duplicated or overtaken on the way to the
\* application thread, whatever the producers interleave: what was delivered
\* followed by what is stored is exactly what was accepted.
FifoDelivery == accepted = delivered \o m_queue

\* The application thread never sleeps through a message or a stop: whenever it
\* is in the wait set although its predicate holds, some thread that has left
\* the lock scope of Push or Stop is still going to signal.
NoLostWakeup ==
  consumer = "asleep" /\ Ready =>
    \/ \E p \in Producers : producer[p] = "notify"
    \/ stopper = "notify"

\* WaitAndPop returning false is final: everything ever accepted was delivered,
\* and no Push that races with Stop gets a message in afterwards.
DrainedBeforeFalse == consumer = "ended" => m_stopped /\ delivered = accepted

\* While the application runs, every message that Push stored reaches the
\* application thread.  A stop may leave what is still queued undelivered, as the
\* loop tests m_running first.
AcceptedIsDelivered ==
  \A n \in 1 .. MaxAccepted : Len(accepted) >= n ~> Len(delivered) >= n \/ ~m_running

\* Stop makes the loop around WaitAndPop end, also when the application thread
\* is asleep on an empty queue at that moment.
StopEndsConsumer == m_stopped ~> consumer \in {"ended", "left"}
===============================================================================
