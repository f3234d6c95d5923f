\* Cooler port, prompt link that may deliver a frame failing the length checks.
CONSTANTS
  d1 = d1
  d2 = d2
  Devices <- MCOneDevice
  Registered <- MCRegistered
  Family = "cooler"
  Readings = {0, 1}
  Faults = {"malformed"}
  SlowLink = FALSE
  SpuriousWakeup = FALSE
  Writes = FALSE
  Network = FALSE
  Teardown = FALSE
  TickSeconds = 10
SPECIFICATION Spec
PROPERTY QueueDrains
