\* Cooler port, slow link: the double first_send leads to pop_front on an empty list.
CONSTANTS
  d1 = d1
  d2 = d2
  Devices <- MCOneDevice
  Registered <- MCRegistered
  Family = "cooler"
  Readings = {0, 1}
  Faults = {}
  SlowLink = TRUE
  SpuriousWakeup = FALSE
  Writes = FALSE
  Network = FALSE
  Teardown = FALSE
  TickSeconds = 10
SPECIFICATION Spec
INVARIANT NoUndefinedBehaviour
