\* One command and two sounds, and an application that comes and goes.
CONSTANTS
  Clients = {c1}
  MaxRequests = 2
SPECIFICATION AudioSpec
INVARIANTS AudioTypeOK PollStaysTrue LinesAreWhole
PROPERTIES ImplementsSoundContract SoundIsReported EndsWithApplication
CHECK_DEADLOCK FALSE
