\* The application thread and the main thread, two timers.
CONSTANTS
  Threads = {app, main}
  Timers = {t1, t2}
  Duration = 3
  TicksPerMs = 2
  MaxCalls = 3
SPECIFICATION Spec
INVARIANTS TimerTypeOK ActiveHasWorker NoMissedNotify
PROPERTIES NeverEarly ImplementsContract ArmedSettles WorkersEnd
CHECK_DEADLOCK FALSE
