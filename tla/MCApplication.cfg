\* All the threads, AudioService ending at any moment, enough lines for one timeout.
CONSTANTS
  Services = {"Audio", "Hmi", "Power"}
  MayExit = {"Audio"}
  Capacity = 1
  MaxLines = 3
  MaxInflight = 1
SPECIFICATION AppSpec
INVARIANTS AppTypeOK ListenerHasSocket NothingLeftBehind AtMostOneLateMessage
PROPERTIES SignalEndsProcess
CHECK_DEADLOCK FALSE
