\* Cooler port, healthy prompt link, server session that drops and is decoupled by the orchestrator.
CONSTANTS
  d1 = d1
  d2 = d2
  Devices <- MCOneDevice
  Registered <- MCRegistered
  Family = "cooler"
  Readings = {0, 1}
  Faults = {}
  SlowLink = FALSE
  SpuriousWakeup = FALSE
  Writes = FALSE
  Network = TRUE
  Teardown = FALSE
  TickSeconds = 10
SPECIFICATION Spec
INVARIANT NoNullSession
