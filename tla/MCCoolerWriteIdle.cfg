\* Cooler port, healthy prompt link, one client Write at any moment, also on an idle engine.
CONSTANTS
  d1 = d1
  d2 = d2
  Devices <- MCOneDevice
  Registered <- MCRegistered
  Family = "cooler"
  Readings = {0, 1}
  Faults = {}
  SlowLink = FALSE
  SpuriousWakeup = FALSE
  Writes = TRUE
  Network = FALSE
  Teardown = FALSE
  TickSeconds = 10
SPECIFICATION Spec
PROPERTY WriteEventuallySent
