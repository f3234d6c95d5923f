\* Cooler port, link answering every directive within a tick, no faults, no server session.
CONSTANTS
  d1 = d1
  d2 = d2
  Devices <- MCOneDevice
  Registered <- MCRegistered
  Family = "cooler"
  Readings = {0, 1}
  Faults = {}
  SlowLink = FALSE
  SpuriousWakeup = FALSE
  Writes = FALSE
  Network = FALSE
  Teardown = FALSE
  TickSeconds = 10
SPECIFICATION Spec
INVARIANT NoFalseAlarm
PROPERTY QueueRefinement
