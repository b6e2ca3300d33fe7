\* A sound that still plays while IG_OFF and a whole new stop are processed.
CONSTANTS
  UserEvents = {"PowerIgnitionOn", "ApplicationStartRequest", "ApplicationStopRequest",
                "PowerIgnitionOff"}
  UserRegions = {"RegionThree"}
  AudioMayEnd = FALSE
  Capacity = 2
  MaxInflight = 1
  MaxSounds = 2
SPECIFICATION FlowSpec
PROPERTIES SoundEndsItsOwnStop
