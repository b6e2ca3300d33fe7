\* Two listeners racing with a stop on a queue of two places.
CONSTANTS
  Producers = {p1, p2}
  Items = {a, b}
  Capacity = 2
  MaxAccepted = 4
SPECIFICATION QueueSpec
INVARIANTS QueueTypeOK FifoDelivery NoLostWakeup DrainedBeforeFalse
PROPERTIES AcceptedIsDelivered StopEndsConsumer
