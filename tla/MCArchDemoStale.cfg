\* A timeout that is under way while IG_OFF and a whole new start are processed.
CONSTANTS
  UserEvents = {"PowerIgnitionOn", "ApplicationStartRequest", "ApplicationStopRequest",
                "PowerIgnitionOff"}
  UserRegions = {"RegionThree"}
  AudioMayEnd = FALSE
  Capacity = 2
  MaxInflight = 1
  MaxSounds = 1
SPECIFICATION FlowSpec
PROPERTIES StopCompletesAfterTimer
