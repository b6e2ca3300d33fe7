\* No service exits: only the application itself ends its connections.
CONSTANTS
  Services = {"Audio", "Hmi", "Region", "Power"}
  MayExit = {}
  Capacity = 2
  MaxLines = 3
  MaxInflight = 1
SPECIFICATION AppSafetySpec
INVARIANTS GracefulShutdown
CHECK_DEADLOCK FALSE
