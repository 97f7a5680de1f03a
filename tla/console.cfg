\* Packets of one, two and three lines, three of them, two faults.
SPECIFICATION Spec
CONSTANTS
  Packets <- MCPackets
  EofReaches = TRUE
  MaxSent = 3
  MaxFaults = 2
INVARIANTS
  CleanIsDelivered
  DeliveredOnceInOrder
  DamageIsLocal
CHECK_DEADLOCK FALSE
