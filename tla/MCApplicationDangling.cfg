\* An expiry that is under way when the signal comes.
CONSTANTS
  Services = {"Audio", "Hmi", "Region", "Power"}
  MayExit = {}
  Capacity = 2
  MaxLines = 3
  MaxInflight = 1
SPECIFICATION AppSpec
PROPERTIES NoPostAfterDestruction
CHECK_DEADLOCK FALSE
