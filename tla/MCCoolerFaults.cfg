\* Cooler port, prompt link that may lose answers or deliver malformed frames; a client may Write one directive at any moment; the orchestrator may destroy the controller at any moment.
CONSTANTS
  d1 = d1
  d2 = d2
  Devices <- MCOneDevice
  Registered <- MCRegistered
  Family = "cooler"
  Readings = {0, 1}
  Faults = {"lose", "malformed"}
  SlowLink = FALSE
  SpuriousWakeup = FALSE
  Writes = TRUE
  Network = FALSE
  Teardown = TRUE
  TickSeconds = 10
SPECIFICATION Spec
INVARIANT TypeOK
PROPERTY StallDetected
PROPERTY WriteBehindPollSent
PROPERTY StopTerminates
