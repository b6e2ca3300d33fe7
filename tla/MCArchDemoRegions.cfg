\* Two regions whose processors share the timers.
CONSTANTS
  UserEvents = {"PowerIgnitionOn", "ApplicationStartRequest", "ApplicationStopRequest",
                "PowerIgnitionOff"}
  UserRegions = {"RegionOne", "RegionThree"}
  AudioMayEnd = FALSE
  Capacity = 2
  MaxInflight = 1
  MaxSounds = 1
SPECIFICATION FlowSafetySpec
INVARIANTS StoppingIsWatched
