------------------------------ MODULE Processors ------------------------------
(***************************************************************************)
(* The region processors: the tables they give to their state machine, and *)
(* what the actions of those tables do to the timers and the audio service.*)
(* DestOneProcessor and DestTwoProcessor inherit WesternProcessor's table. *)
(***************************************************************************)
EXTENDS StateMachine

States == {"Idle", "IgnitionOn", "Running", "Recovery", "Stopping", "WaitingAudioComplete"}

\* Fault: OnStopRequest starts no timer when it is called in Recovery.
StopSequenceFault ==
  << Transition("Idle", "PowerIgnitionOn", "IgnitionOn", "none"),
     Transition("IgnitionOn", "ApplicationStartRequest", "Running", "none"),
     Transition("IgnitionOn", "ApplicationRecovery", "Recovery", "startRecoveryTimer"),
     Transition("Running", "ApplicationStopRequest", "Stopping", "startStopTimer"),
     Transition("Recovery", "ApplicationStopRequest", "Stopping", "none"),
     Transition("Stopping", "ApplicationStopRequestTimeout", "WaitingAudioComplete",
                "requestSound"),
     Transition("WaitingAudioComplete", "AudioPlayCompleted", "Idle", "none") >>

\* Of the rows both InitializeStateMachine functions add, the exact ones.
StopSequence ==
  << Transition("Idle", "PowerIgnitionOn", "IgnitionOn", "none"),
     Transition("IgnitionOn", "ApplicationStartRequest", "Running", "none"),
     Transition("IgnitionOn", "ApplicationRecovery", "Recovery", "startRecoveryTimer"),
     Transition("Running", "ApplicationStopRequest", "Stopping", "startStopTimer"),
     Transition("Recovery", "ApplicationStopRequest", "Stopping", "startStopTimer"),
     Transition("Stopping", "ApplicationStopRequestTimeout", "WaitingAudioComplete",
                "requestSound"),
     Transition("WaitingAudioComplete", "AudioPlayCompleted", "Idle", "none") >>

IgnitionOff == <<Transition(AnyState, "PowerIgnitionOff", "Idle", "cancelAllTimers")>>

DestThreeTable == StopSequence \o IgnitionOff

WesternTable ==
  StopSequence
    \o <<Transition("Running", "ApplicatiOnTimeoutEvent", "Recovery", "none")>>
    \o IgnitionOff

Regions == {"RegionOne", "RegionTwo", "RegionThree"}

\* The processors ProcessorManager creates.
TableOf(region) == IF region = "RegionThree" THEN DestThreeTable ELSE WesternTable

\* The timers that some action starts, and the event that each of them posts.
StopTimer == "ApplicationStopRequestTimer"
RecoveryTimer == "ApplicationRecoveryTimer"
UsedTimers == {StopTimer, RecoveryTimer}

TimeoutEvent(t) ==
  IF t = StopTimer THEN "ApplicationStopRequestTimeout" ELSE "ApplicationRecoveryTimeout"
===============================================================================
