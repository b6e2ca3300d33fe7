\* Three commands, and an application that comes and goes when it likes.
CONSTANTS
  Clients = {c1, c2, c3}
SPECIFICATION Spec
INVARIANTS ServiceTypeOK CommandsInOrder
PROPERTIES ImplementsChannel CommandArrives SignalEndsService
CHECK_DEADLOCK FALSE
