-------------------------------- MODULE System --------------------------------
(***************************************************************************)
(* The whole demo: a user runs slld commands one after the other, each is  *)
(* taken by the service it names, whose channel ends at a listener thread  *)
(* of its own; the listeners feed the queue of ArchDemo.  slld returns as  *)
(* soon as the command is written, and waits for no answer.                *)
(*                                                                         *)
(* The services are known by what CommandChannel promises of each.         *)
(***************************************************************************)
EXTENDS ArchDemo, Selections

CONSTANTS MaxCommands   \* bounds the model: commands the user gives

ASSUME SystemAssumption == MaxCommands \in Nat

VARIABLES
  given,         \* the commands, in the order in which the user gave them
  paced,         \* whether each was given when those before it had been handled
  hmi_sent, hmi_delivered,
  power_sent, power_delivered,
  region_sent, region_delivered,
  handled        \* history: the commands that the application thread handled

hmiChannel == <<hmi_sent, hmi_delivered>>
powerChannel == <<power_sent, power_delivered>>
regionChannel == <<region_sent, region_delivered>>
userVars == <<given, paced>>
systemVars == <<flowVars, userVars, hmiChannel, powerChannel, regionChannel, handled>>

\* The events of each service that UserEvents names, and the regions.
HmiCommands ==
  UserEvents \intersect
    {"ApplicationStartRequest", "ApplicationRecovery", "ApplicationStopRequest"}
PowerCommands == UserEvents \intersect {"PowerIgnitionOn", "PowerIgnitionOff"}
RegionCommands == UserRegions
Commands == HmiCommands \union PowerCommands \union RegionCommands

HmiService ==
  INSTANCE CommandChannel WITH
    Commands <- HmiCommands, sent <- hmi_sent, delivered <- hmi_delivered

PowerService ==
  INSTANCE CommandChannel WITH
    Commands <- PowerCommands, sent <- power_sent, delivered <- power_delivered

RegionService ==
  INSTANCE CommandChannel WITH
    Commands <- RegionCommands, sent <- region_sent, delivered <- region_delivered

SystemInit ==
  /\ FlowInit
  /\ given = <<>>
  /\ paced = TRUE
  /\ HmiService!ChannelInit /\ PowerService!ChannelInit /\ RegionService!ChannelInit
  /\ handled = <<>>

-------------------------------------------------------------------------------
\* slld finds the socket of the service that its first argument names.
HandleCommand(c) ==
  \/ /\ c \in HmiCommands
     /\ HmiService!Send(c)
     /\ UNCHANGED <<powerChannel, regionChannel>>
  \/ /\ c \in PowerCommands
     /\ PowerService!Send(c)
     /\ UNCHANGED <<hmiChannel, regionChannel>>
  \/ /\ c \in RegionCommands
     /\ RegionService!Send(c)
     /\ UNCHANGED <<hmiChannel, powerChannel>>

\* Fault: slld waits for an answer that no service sends, and sends again.
slldRunsFault(c) ==
  /\ Len(given) < MaxCommands
  /\ given' = given
  /\ paced' = (paced /\ handled = given)
  /\ HandleCommand(c)
  /\ UNCHANGED <<flowVars, handled>>

slldRuns(c) ==
  /\ Len(given) < MaxCommands
  /\ given' = Append(given, c)
  /\ paced' = (paced /\ handled = given)
  /\ HandleCommand(c)
  /\ UNCHANGED <<flowVars, handled>>

\* Each wrapper's listener thread posts the event that its service's line names.
HmiListener ==
  /\ HmiService!Deliver
  /\ ListenerPosts(HmiService!NextCommand)
  /\ UNCHANGED <<userVars, powerChannel, regionChannel, handled>>

\* Fault: ParsePowerEvent does not know the spelling that the user chose.
PowerListenerFault ==
  /\ PowerService!Deliver
  /\ UNCHANGED <<flowVars, userVars, hmiChannel, regionChannel, handled>>

PowerListener ==
  /\ PowerService!Deliver
  /\ ListenerPosts(PowerService!NextCommand)
  /\ UNCHANGED <<userVars, hmiChannel, regionChannel, handled>>

RegionListener ==
  /\ RegionService!Deliver
  /\ ListenerPosts(RegionService!NextCommand)
  /\ UNCHANGED <<userVars, hmiChannel, powerChannel, handled>>

\* The application thread.
AppThreadLoop ==
  /\ ProcessMessage
  /\ \E m \in Messages :
       PopsFront(m) /\ handled' = IF m \in Commands THEN Append(handled, m) ELSE handled
  /\ UNCHANGED <<userVars, hmiChannel, powerChannel, regionChannel>>

TimerStep(t) ==
  /\ TimerExpires(t) \/ WorkerPosts(t)
  /\ UNCHANGED <<userVars, hmiChannel, powerChannel, regionChannel, handled>>

AudioListener ==
  /\ SoundCompletes
  /\ UNCHANGED <<userVars, hmiChannel, powerChannel, regionChannel, handled>>

AudioEnds ==
  /\ AudioServiceEnds
  /\ UNCHANGED <<userVars, hmiChannel, powerChannel, regionChannel, handled>>

SystemNext ==
  \/ \E c \in Commands : slldRuns(c)
  \/ HmiListener \/ PowerListener \/ RegionListener \/ AudioListener \/ AudioEnds
  \/ \E t \in UsedTimers : TimerStep(t)
  \/ AppThreadLoop

\* As in ArchDemo and in Service: threads and services run; the user may stop.
SystemFairness ==
  /\ WF_systemVars(HmiListener) /\ WF_systemVars(PowerListener)
  /\ WF_systemVars(RegionListener) /\ WF_systemVars(AudioListener)
  /\ \A t \in UsedTimers : WF_systemVars(TimerStep(t))
  /\ WF_systemVars(AppThreadLoop)

SystemSafetySpec == SystemInit /\ [][SystemNext]_systemVars

SystemSpec == SystemSafetySpec /\ SystemFairness

-------------------------------------------------------------------------------
SystemTypeOK ==
  /\ given \in Seq(Commands) /\ Len(given) <= MaxCommands
  /\ paced \in BOOLEAN
  /\ handled \in Seq(Commands)
  /\ Follows(given, HmiCommands, hmi_sent) /\ Count(given, HmiCommands) = Len(hmi_sent)
  /\ Follows(given, PowerCommands, power_sent)
  /\ Count(given, PowerCommands) = Len(power_sent)
  /\ Follows(given, RegionCommands, region_sent)
  /\ Count(given, RegionCommands) = Len(region_sent)

\* Commands to different services may overtake each other, on the way to the
\* queue; those to one service are handled in the order in which they were given,
\* and none is handled twice or left out, if the queue has room for them all.
ServiceOrderKept ==
  /\ Follows(handled, HmiCommands, hmi_sent)
  /\ Follows(handled, PowerCommands, power_sent)
  /\ Follows(handled, RegionCommands, region_sent)

\* Every command given is handled at last, unless a request to an AudioService
\* that has ended killed the application.
CommandsAreHandled == \A n \in 1 .. MaxCommands :
  Len(given) >= n ~> Len(handled) >= n \/ (process = "killed" /\ audio = "gone")

\* The demo of the README: ignition on, start, stop.
Demo == <<"PowerIgnitionOn", "ApplicationStartRequest", "ApplicationStopRequest">>

\* START went through HmiService faster than IG_ON through PowerService.
StartOvertakes == handled # <<>> /\ Head(handled) = "ApplicationStartRequest"

\* All of the demo was handled, and left the current processor in this state.
Settled(state) ==
  Len(handled) = Len(Demo) /\ m_current_state[m_current_region] = state

\* The demo takes the current region's processor through the timer and the sound to
\* Idle again, if AudioService stays.  What can spoil it is START overtaking IG_ON,
\* and that alone: START and STOP are then ignored, and the processor is left in
\* IgnitionOn.  It does not happen to a user who waits for each command's effect.
DemoSettles ==
  given = Demo /\ audio = "up" ~>
    \/ given # Demo \/ audio = "gone"
    \/ Settled("Idle")
    \/ ~paced /\ StartOvertakes /\ Settled("IgnitionOn")
===============================================================================
