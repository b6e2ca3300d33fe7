\* Any four commands through three services, to a queue that is never full, with an
\* AudioService that may end.
CONSTANTS
  UserEvents = {"PowerIgnitionOn", "ApplicationStartRequest", "ApplicationStopRequest"}
  UserRegions = {"RegionOne"}
  AudioMayEnd = TRUE
  Capacity = 12
  MaxInflight = 1
  MaxSounds = 2
  MaxCommands = 4
SPECIFICATION SystemSpec
INVARIANTS SystemTypeOK ServiceOrderKept
PROPERTIES CommandsAreHandled DemoSettles
CHECK_DEADLOCK FALSE
