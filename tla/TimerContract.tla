----------------------------- MODULE TimerContract -----------------------------
(***************************************************************************)
(* What TimerManager promises to the processors and to the application.    *)
(* A timer is idle, running or held (paused).  A running timer may expire; *)
(* the expiry is then posted, as a timeout event, by a thread of its own.  *)
(* Arming, disarming or closing does not take back an expiry that is       *)
(* already under way: its event still arrives.                             *)
(***************************************************************************)
EXTENDS Naturals

CONSTANT Timers

VARIABLES
  status,     \* per timer: "idle", "running" or "held"
  inflight,   \* per timer: expiries whose event is not posted yet
  closed      \* the manager was stopped

contractVars == <<status, inflight, closed>>

ContractInit ==
  /\ status = [t \in Timers |-> "idle"]
  /\ inflight = [t \in Timers |-> 0]
  /\ closed = FALSE

\* StartTimer: also restarts a timer that is running or held.
Arm(t) ==
  /\ ~closed
  /\ status' = [status EXCEPT ![t] = "running"]
  /\ UNCHANGED <<inflight, closed>>

Disarm(t) ==
  /\ status' = [status EXCEPT ![t] = "idle"]
  /\ UNCHANGED <<inflight, closed>>

Hold(t) ==
  /\ status[t] = "running"
  /\ status' = [status EXCEPT ![t] = "held"]
  /\ UNCHANGED <<inflight, closed>>

Release(t) ==
  /\ status[t] = "held"
  /\ status' = [status EXCEPT ![t] = "running"]
  /\ UNCHANGED <<inflight, closed>>

\* One arming expires once at most, and never while it is held or idle.
Expire(t) ==
  /\ status[t] = "running"
  /\ status' = [status EXCEPT ![t] = "idle"]
  /\ inflight' = [inflight EXCEPT ![t] = @ + 1]
  /\ UNCHANGED closed

Deliver(t) ==
  /\ inflight[t] > 0
  /\ inflight' = [inflight EXCEPT ![t] = @ - 1]
  /\ UNCHANGED <<status, closed>>

\* Nothing runs, and nothing can be armed, once the manager is closed.
Close ==
  /\ ~closed
  /\ closed' = TRUE
  /\ status' = [t \in Timers |-> "idle"]
  /\ UNCHANGED inflight

ContractNext ==
  \/ \E t \in Timers :
       Arm(t) \/ Disarm(t) \/ Hold(t) \/ Release(t) \/ Expire(t) \/ Deliver(t)
  \/ Close

ContractFairness ==
  \A t \in Timers : WF_contractVars(Expire(t)) /\ WF_contractVars(Deliver(t))

ContractSafetySpec == ContractInit /\ [][ContractNext]_contractVars

ContractSpec == ContractSafetySpec /\ ContractFairness
===============================================================================
