\* One region, every event that some table reacts to, a queue of two places.
CONSTANTS
  UserEvents = {"PowerIgnitionOn", "ApplicationStartRequest", "ApplicationRecovery",
                "ApplicationStopRequest", "PowerIgnitionOff", "AudioPlayCompleted"}
  UserRegions = {"RegionThree"}
  AudioMayEnd = TRUE
  Capacity = 2
  MaxInflight = 1
  MaxSounds = 2
SPECIFICATION FlowSpec
INVARIANTS FlowTypeOK StoppingIsWatched WaitingIsWatched
PROPERTIES StopEnds SoundEnds
CHECK_DEADLOCK FALSE
